-------------------------------- MODULE Deposits --------------------------------
(***************************************************************************)
(* Money coming in: a user's bank account at Paystack, Paystack's events   *)
(* about payments, and the credit they end in.                             *)
(*   server/src/services/virtualAccount.ts, routes/webhooks.ts             *)
(*   server/src/jobs/processors/create-virtual-account.ts,                 *)
(*     process-paystack-webhook.ts                                         *)
(*   server/src/services/paystackWebhookHandlers.ts                        *)
(*   server/src/routes/admin.ts              the replay of failed events   *)
(*                                                                         *)
(* Each `provision[w]` is a sign-in's or a job's way to an account, each   *)
(* entry of `jobs` one job for an event.  A credit is one database         *)
(* transaction and one step, which may fail before or after its COMMIT.    *)
(*                                                                         *)
(* Left out: signatures; amounts, and the balance, which is raised in the  *)
(* same transaction (`held`); transfer events (Withdrawal).                *)
(* Name_Variant is Name with a plausible mistake in it, as in Escrow.      *)
(***************************************************************************)
EXTENDS Naturals, Sequences, FiniteSets

CONSTANTS
  Users, NoUser,
  Phones, NoPhone,
  FirstNumber,     \* every user's phone at the start
  Workers,         \* bound: provisionings under way at once
  MaxPassed,       \* bound: numbers that change hands
  MaxAccounts,     \* bound: accounts opened at Paystack
  MaxPayments,     \* bound: payments made
  MaxEvents,       \* bound: rows of webhook_events, and jobs for them
  MaxTries,        \* MAX_ATTEMPTS of queue.ts
  MaxLosses        \* bound: crashes, lost events and steps that fail

Parameters ==
  /\ NoUser \notin Users /\ NoPhone \notin Phones
  /\ FirstNumber \in [Users -> Phones]
  /\ \A u, v \in Users : FirstNumber[u] = FirstNumber[v] => u = v
  /\ MaxPayments \in Nat

Accounts   == 1..MaxAccounts
References == 1..MaxPayments

\* A payment's event names the payer by id or not, by phone or not, or by an account.
Payment ==
  [payer : Users, id : Users \cup {NoUser}, to : Phones \cup {NoPhone}, into : {0} \cup Accounts]

Provision ==
  [at : {"idle", "customer", "opening", "storing"}, for : Users \cup {NoUser},
   tries : 0..MaxTries, opened : {0} \cup Accounts]

Nothing == [at |-> "idle", for |-> NoUser, tries |-> 0, opened |-> 0]

Job == [row : 1..MaxEvents, tries : 0..MaxTries,
        at : {"queued", "applying", "marking", "failing", "ended"}]

VARIABLES
  number,      \* users.phone
  account,     \* users.virtual_account_number; 0: NULL
  customer,    \* Paystack: the phone a user's customer was made with
  owner,       \* Paystack: the accounts opened, with their users
  provision,
  backlog,     \* create-virtual-account jobs in the queue
  payments,    \* payments made, their references being 1, 2, ...
  events,      \* webhook_events
  jobs,        \* process-paystack-webhook jobs
  replays,     \* replay handlers past their look at the row
  settled,     \* payment_events: reference -> status
  credits,     \* transactions: deposits of a reference, by user; and whether a balance was raised
  losses,
  passedOn     \* history: numbers that changed hands

accounts == <<number, account, customer, owner, provision, backlog, passedOn>>
inbox    == <<payments, events, jobs, replays>>
ledger   == <<settled, credits>>
vars     == <<accounts, inbox, ledger, losses>>

Init ==
  /\ number = FirstNumber
  /\ account = [u \in Users |-> 0]
  /\ customer = [u \in Users |-> NoPhone]
  /\ owner = << >>
  /\ provision = [w \in Workers |-> Nothing]
  /\ backlog = {}
  /\ payments = << >>
  /\ events = << >>
  /\ jobs = << >>
  /\ replays = {}
  /\ settled = [r \in References |-> "none"]
  /\ credits = {}
  /\ losses = 0
  /\ passedOn = {}

Lose == losses < MaxLosses /\ losses' = losses + 1         \* bound

-----------------------------------------------------------------------------
(* Accounts.                                                               *)

\* POST /recover/change-phone, in Accounts.
ChangeNumber(u, p) ==
  /\ Cardinality(passedOn) < MaxPassed                     \* bound
  /\ \A v \in Users : number[v] # p
  /\ number' = [number EXCEPT ![u] = p]
  /\ passedOn' = passedOn \cup {number[u]}
  /\ UNCHANGED <<account, customer, owner, provision, backlog, inbox, ledger, losses>>

\* provisionVirtualAccountForUser: nothing to do for a user with an account.
ProvisionInline(w, u) ==
  /\ provision[w] = Nothing
  /\ account[u] = 0
  /\ provision' = [provision EXCEPT ![w] = [Nothing EXCEPT !.at = "customer", !.for = u]]
  /\ UNCHANGED <<number, account, customer, owner, backlog, passedOn, inbox, ledger, losses>>

\* The job looks at no account.
ProvisionJob(w, u) ==
  /\ provision[w] = Nothing
  /\ \E b \in backlog :
       /\ b.for = u
       /\ backlog' = backlog \ {b}
       /\ provision' = [provision EXCEPT ![w] =
            [at |-> "customer", for |-> u, tries |-> b.tries + 1, opened |-> 0]]
  /\ UNCHANGED <<number, account, customer, owner, passedOn, inbox, ledger, losses>>

\* ensurePaystackCustomer: the stored code, or a customer with the user's number.
EnsureCustomer(w) ==
  LET u == provision[w].for
  IN  /\ provision[w].at = "customer"
      /\ customer' = IF customer[u] = NoPhone THEN [customer EXCEPT ![u] = number[u]] ELSE customer
      /\ provision' = [provision EXCEPT ![w].at = "opening"]
      /\ UNCHANGED <<number, account, owner, backlog, passedOn, inbox, ledger, losses>>

\* External: Paystack opens an account, or gives the one the customer has.
OpenAccount(w) ==
  LET u == provision[w].for
  IN  /\ provision[w].at = "opening"
      /\ \/ /\ Len(owner) < MaxAccounts                    \* bound
            /\ owner' = Append(owner, u)
            /\ provision' = [provision EXCEPT ![w].at = "storing", ![w].opened = Len(owner) + 1]
         \/ \E a \in 1..Len(owner) :
              /\ owner[a] = u
              /\ provision' = [provision EXCEPT ![w].at = "storing", ![w].opened = a]
              /\ UNCHANGED owner
      /\ UNCHANGED <<number, account, customer, backlog, passedOn, inbox, ledger, losses>>

\* Whatever number the row has by now.
StoreAccount(w) ==
  /\ provision[w].at = "storing"
  /\ account' = [account EXCEPT ![provision[w].for] = provision[w].opened]
  /\ provision' = [provision EXCEPT ![w] = Nothing]
  /\ UNCHANGED <<number, customer, owner, backlog, passedOn, inbox, ledger, losses>>

\* A call fails, after 10 s perhaps when Paystack has done its part: another try.
ProvisionFails(w) ==
  LET p == provision[w]
  IN  /\ p.at # "idle"
      /\ Lose
      /\ backlog' = IF p.tries < MaxTries THEN backlog \cup {[for |-> p.for, tries |-> p.tries]}
                                          ELSE backlog
      /\ provision' = [provision EXCEPT ![w] = Nothing]
      /\ UNCHANGED <<number, account, customer, owner, passedOn, inbox, ledger>>

-----------------------------------------------------------------------------
(* Events.                                                                 *)

\* External: a checkout, or a transfer into an account that Paystack opened once.
Pay(u) ==
  /\ Len(payments) < MaxPayments                           \* bound
  /\ \E id \in {u, NoUser}, to \in {customer[u], NoPhone}, a \in 0..Len(owner) :
       /\ a # 0 => owner[a] = u /\ id = NoUser /\ to = NoPhone
       /\ payments' = Append(payments, [payer |-> u, id |-> id, to |-> to, into |-> a])
  /\ UNCHANGED <<accounts, events, jobs, replays, ledger, losses>>

\* POST /paystack answers 200; persistAndEnqueue comes after it and may not be done.
Receive(r) ==
  /\ Len(events) < MaxEvents /\ Len(jobs) < MaxEvents      \* bound
  /\ events' = Append(events, [of |-> r, status |-> "pending"])
  /\ \/ /\ jobs' = Append(jobs, [row |-> Len(events) + 1, tries |-> 0, at |-> "queued"])
        /\ UNCHANGED losses
     \/ Lose /\ UNCHANGED jobs
  /\ UNCHANGED <<accounts, payments, replays, ledger>>

At(j, where) == jobs[j].at = where
Goto(j, where) == jobs' = [jobs EXCEPT ![j].at = where]

EventOf(j) == events[jobs[j].row]

\* The job starts; an event that is processed already is left alone.
StartJob(j) ==
  /\ At(j, "queued")
  /\ jobs' = [jobs EXCEPT ![j].tries = @ + 1,
                          ![j].at = IF EventOf(j).status = "processed" THEN "ended" ELSE "applying"]
  /\ UNCHANGED <<accounts, payments, events, replays, ledger, losses>>

\* The users the event may mean; with two the database picks one.
Matched(p) ==
  IF p.into # 0 THEN {u \in Users : account[u] = p.into}
  ELSE {u \in Users : u = p.id \/ number[u] = p.to}

\* applyChargeSuccess and applyDVAAssigned: the first transaction to insert the reference
\* decides what becomes of it.  `held`: the user has a wallets row by now, and its balance is
\* raised; else the UPDATE finds none, and that is no error.
Credit_Unchecked(r) ==
  LET p == payments[r]
  IN  IF Matched(p) = {}
      THEN settled' = [settled EXCEPT ![r] = "unmatched"] /\ UNCHANGED credits
      ELSE \E u \in Matched(p) :
             /\ settled' = [settled EXCEPT ![r] = "processed"]
             /\ \E held \in BOOLEAN :
                  credits' = credits \cup {[of |-> r, to |-> u, held |-> held, nth |->
                    IF \E c \in credits : c.of = r THEN 2 ELSE 1]}

Credit(r) ==
  LET p == payments[r]
  IN  IF settled[r] # "none" THEN UNCHANGED ledger
      ELSE IF Matched(p) = {}
      THEN settled' = [settled EXCEPT ![r] = "unmatched"] /\ UNCHANGED credits
      ELSE \E u \in Matched(p) :
             /\ settled' = [settled EXCEPT ![r] = "processed"]
             /\ \E held \in BOOLEAN :
                  credits' = credits \cup {[of |-> r, to |-> u, nth |-> 1, held |-> held]}

Apply(j) ==
  /\ At(j, "applying")
  /\ Credit(EventOf(j).of)
  /\ \/ Goto(j, "marking") /\ UNCHANGED losses
     \/ Lose /\ Goto(j, "failing")                         \* the COMMIT's answer is lost
  /\ UNCHANGED <<accounts, payments, events, replays>>

\* ROLLBACK.
ApplyFails(j) ==
  /\ At(j, "applying")
  /\ Lose
  /\ Goto(j, "failing")
  /\ UNCHANGED <<accounts, payments, events, replays, ledger>>

Mark(status, j) == events' = [events EXCEPT ![jobs[j].row].status = status]

MarkProcessed(j) ==
  /\ At(j, "marking")
  /\ \/ Mark("processed", j) /\ Goto(j, "ended") /\ UNCHANGED losses
     \/ Lose /\ Goto(j, "failing") /\ UNCHANGED events
  /\ UNCHANGED <<accounts, payments, replays, ledger>>

\* The catch: queued again, or failed after the last try.
HandleError_AsProcessed(j) ==
  /\ At(j, "failing")
  /\ IF jobs[j].tries < MaxTries
     THEN Goto(j, "queued") /\ UNCHANGED events
     ELSE Goto(j, "ended") /\ Mark("processed", j)
  /\ UNCHANGED <<accounts, payments, replays, ledger, losses>>

HandleError_OnceMore(j) ==
  /\ At(j, "failing")
  /\ IF jobs[j].tries <= MaxTries
     THEN Goto(j, "queued") /\ UNCHANGED events
     ELSE Goto(j, "ended") /\ Mark("failed", j)
  /\ UNCHANGED <<accounts, payments, replays, ledger, losses>>

HandleError(j) ==
  /\ At(j, "failing")
  /\ IF jobs[j].tries < MaxTries
     THEN Goto(j, "queued") /\ UNCHANGED events
     ELSE Goto(j, "ended") /\ Mark("failed", j)
  /\ UNCHANGED <<accounts, payments, replays, ledger, losses>>

\* POST /webhooks/:id/replay.
Replay(e) ==
  /\ events[e].status = "failed"
  /\ replays' = replays \cup {e}
  /\ UNCHANGED <<accounts, payments, events, jobs, ledger, losses>>

\* Whatever status the row has by now.
ReplayUpdate(e) ==
  /\ e \in replays
  /\ Len(jobs) < MaxEvents                                 \* bound
  /\ \/ replays' = replays \ {e}
     \/ UNCHANGED replays                                  \* another admin's replay
  /\ events' = [events EXCEPT ![e].status = "pending"]
  /\ jobs' = Append(jobs, [row |-> e, tries |-> 0, at |-> "queued"])
  /\ UNCHANGED <<accounts, payments, ledger, losses>>

\* Jobs that were taken off the queue are lost, and so is a replay under way.
Crash ==
  /\ Lose
  /\ jobs' = [j \in 1..Len(jobs) |-> IF At(j, "queued") THEN jobs[j] ELSE [jobs[j] EXCEPT !.at = "ended"]]
  /\ provision' = [w \in Workers |-> Nothing]
  /\ replays' = {}
  /\ UNCHANGED <<number, account, customer, owner, backlog, passedOn, payments, events, ledger>>

-----------------------------------------------------------------------------
Next ==
  \/ \E u \in Users, p \in Phones : ChangeNumber(u, p)
  \/ \E w \in Workers, u \in Users : ProvisionInline(w, u) \/ ProvisionJob(w, u)
  \/ \E w \in Workers : EnsureCustomer(w) \/ OpenAccount(w) \/ StoreAccount(w) \/ ProvisionFails(w)
  \/ \E u \in Users : Pay(u)
  \/ \E r \in 1..Len(payments) : Receive(r)
  \/ \E j \in 1..Len(jobs) : \/ StartJob(j) \/ Apply(j) \/ ApplyFails(j) \/ MarkProcessed(j)
                             \/ HandleError(j)
  \/ \E e \in 1..Len(events) : Replay(e) \/ ReplayUpdate(e)
  \/ Crash

Spec == Init /\ [][Next]_vars

-----------------------------------------------------------------------------
(* Properties.                                                             *)

TypeOK ==
  /\ number \in [Users -> Phones]
  /\ \A u, v \in Users : number[u] = number[v] => u = v
  /\ account \in [Users -> {0} \cup Accounts]
  /\ customer \in [Users -> Phones \cup {NoPhone}]
  /\ owner \in Seq(Users)
  /\ provision \in [Workers -> Provision]
  /\ backlog \subseteq [for : Users, tries : 0..MaxTries]
  /\ payments \in Seq(Payment)
  /\ events \in Seq([of : References, status : {"pending", "processed", "failed"}])
  /\ jobs \in Seq(Job)
  /\ replays \subseteq 1..Len(events)
  /\ settled \in [References -> {"none", "unmatched", "processed"}]
  /\ losses \in 0..MaxLosses

\* A payment is credited once, through deliveries that repeat, tries that failed after
\* their COMMIT, and replays.
CreditedOnce == \A c, d \in credits : c.of = d.of => c = d

\* An event is marked processed only when its payment was credited or found to be
\* nobody's; what failed stays visible to the admins.
ProcessedIsSettled ==
  \A e \in 1..Len(events) : events[e].status = "processed" => settled[events[e].of] # "none"

\* A payment is credited to who made it, unless the number it was made under changed
\* hands since.
CreditedToThePayer ==
  \A c \in credits : c.to # payments[c.of].payer => payments[c.of].to \in passedOn

-----------------------------------------------------------------------------
(* The inductive invariant.                                                *)

\* TypeOK without its bounds.
Provisions ==
  [at : {"idle", "customer", "opening", "storing"}, for : Users \cup {NoUser},
   tries : Nat, opened : Nat]
Payments == [payer : Users, id : Users \cup {NoUser}, to : Phones \cup {NoPhone}, into : Nat]
Events   == [of : Nat, status : {"pending", "processed", "failed"}]
Jobs     == [row : Nat, tries : Nat, at : {"queued", "applying", "marking", "failing", "ended"}]

TypedAccounts ==
  /\ number \in [Users -> Phones]
  /\ account \in [Users -> Nat]
  /\ customer \in [Users -> Phones \cup {NoPhone}]
  /\ owner \in Seq(Users)
  /\ provision \in [Workers -> Provisions]
  /\ backlog \subseteq [for : Users, tries : Nat]

TypedEvents ==
  /\ payments \in Seq(Payments) /\ Len(payments) <= MaxPayments
  /\ events \in Seq(Events) /\ \A e \in 1..Len(events) : events[e].of \in 1..Len(payments)
  /\ jobs \in Seq(Jobs) /\ \A j \in 1..Len(jobs) : jobs[j].row \in 1..Len(events)
  /\ replays \subseteq 1..Len(events)
  /\ settled \in [References -> {"none", "unmatched", "processed"}]
  /\ credits \subseteq [of : 1..Len(payments), to : Users, nth : {1}, held : BOOLEAN]

\* The account of a row, and the one that is about to be stored, was opened for its user.
AccountsAreOwn ==
  /\ \A u, v \in Users : number[u] = number[v] => u = v
  /\ \A u \in Users : account[u] # 0 => /\ account[u] \in 1..Len(owner)
                                        /\ owner[account[u]] = u
  /\ \A w \in Workers :
       /\ provision[w].at # "idle" => provision[w].for \in Users
       /\ provision[w].at = "storing" => /\ provision[w].opened \in 1..Len(owner)
                                         /\ owner[provision[w].opened] = provision[w].for

\* A number that Paystack has for a user is the user's, or was.
NumbersAreKnown ==
  \A u \in Users : customer[u] # NoPhone => customer[u] \in passedOn \cup {number[u]}

\* What a payment's event says of the payer is so, or was.
PaymentsAreOfPayers ==
  \A r \in 1..Len(payments) :
    LET p == payments[r]
    IN  /\ p.id \in {p.payer, NoUser}
        /\ p.into # 0 => p.into \in 1..Len(owner) /\ owner[p.into] = p.payer
        /\ p.to # NoPhone => p.to \in passedOn \cup {number[p.payer]}

\* What was credited is settled, and so is what a job is about to mark.
CreditsAreSettled ==
  /\ \A c \in credits : settled[c.of] # "none"
  /\ \A j \in 1..Len(jobs) : jobs[j].at = "marking" => settled[EventOf(j).of] # "none"

IInv ==
  /\ TypedAccounts /\ TypedEvents
  /\ AccountsAreOwn /\ NumbersAreKnown /\ PaymentsAreOfPayers /\ CreditsAreSettled
  /\ CreditedOnce /\ ProcessedIsSettled /\ CreditedToThePayer

================================================================================
