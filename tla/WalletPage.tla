------------------------------- MODULE WalletPage -------------------------------
(***************************************************************************)
(* Withdrawing money in the web client: the wallet page, its withdrawal    *)
(* dialog, the balance it shows and the requests it sends.                 *)
(*   frontend/app/wallet/page.tsx, WithdrawModal.tsx                       *)
(*   frontend/app/hooks/useOptimisticBalance.ts                            *)
(*   server/src/services/wallet.ts   executeIdempotentWithdrawal, seen     *)
(*                                   from outside (its inside: Withdrawal) *)
(*                                                                         *)
(* Every withdrawal is of one unit; a destination stands for a bank and an *)
(* account number.  The dialog's branch on `data.success` is not here: no  *)
(* answer of POST /withdraw has that field.  The deposit dialog has a      *)
(* module of its own.                                                      *)
(* Name_Variant is Name with a plausible mistake in it, as in Escrow.      *)
(***************************************************************************)
EXTENDS Integers, Sequences

CONSTANTS
  Destinations,
  None,           \* a form field left empty; no request kept
  Balance,        \* what the wallet holds at first, in naira
  OnChain,        \* what the user's Stellar account may hold, in XLM
  MaxKeys,        \* bound: idempotency keys made
  MaxEdits,       \* bound: destinations typed in
  MaxLoads        \* bound: loads of the page

Keys == 1..MaxKeys
Body == [to : Destinations, name : Destinations]
Kept == [body : Body, key : Keys]

Parameters ==
  /\ None \notin Destinations \cup Kept
  /\ OnChain \subseteq Nat /\ {Balance, MaxKeys} \subseteq Nat /\ MaxLoads \in Nat \ {0}

VARIABLES
  page,       \* loading, ready or failed
  shown,      \* useOptimisticBalance
  dialog,     \* open or not, and the form
  sending,    \* submittingRef: the key of the request that waits for its answer; 0: none
  kept,       \* pendingRequest
  keysMade,   \* the body each key was made for, and during which load of the page
  network,    \* requests on their way to the server, and whether the page waits for them
  answer,     \* the key whose answer is on its way back to a page that waits; 0: none
  balance,    \* wallets.fiat_balance
  debits,     \* the keys of the withdrawals made
  heard,      \* history: keys with an answer that reached the page
  lookups,    \* accounts whose holder is being looked up
  edits, loads

screen == <<page, shown, dialog, sending, kept, keysMade>>
wires  == <<network, answer, lookups>>
server == <<balance, debits>>
vars   == <<screen, wires, server, heard, edits, loads>>

EmptyForm == [open |-> FALSE, to |-> None, name |-> None, confirmed |-> FALSE]

Shows(n) == [confirmed |-> n, optimistic |-> n, pending |-> FALSE]

Init ==
  /\ page = "loading"
  /\ shown = Shows(0)
  /\ dialog = EmptyForm
  /\ sending = 0
  /\ kept = None
  /\ keysMade = << >>
  /\ network = {}
  /\ answer = 0
  /\ balance = Balance
  /\ debits = << >>
  /\ heard = {}
  /\ lookups = {}
  /\ edits = 0
  /\ loads = 1

-----------------------------------------------------------------------------
(* The page.                                                               *)

\* GET /wallet answers with the balance of the Stellar account: it is what the page shows
\* and holds a withdrawal against, not wallets.fiat_balance.
LoadWallet ==
  /\ page = "loading"
  /\ \/ page' = "ready" /\ \E xlm \in OnChain : shown' = Shows(xlm)
     \/ page' = "failed" /\ UNCHANGED shown
  /\ UNCHANGED <<dialog, sending, kept, keysMade, wires, server, heard, edits, loads>>

\* Requests the page does not wait for any more.
GivenUp == {[r EXCEPT !.awaited = FALSE] : r \in network}

\* Nothing of the page outlives it; what it sent does.
Reload ==
  /\ loads < MaxLoads                                      \* bound
  /\ loads' = loads + 1
  /\ page' = "loading"
  /\ shown' = Shows(0)
  /\ dialog' = EmptyForm
  /\ sending' = 0
  /\ kept' = None
  /\ network' = GivenUp
  /\ answer' = 0
  /\ lookups' = {}
  /\ UNCHANGED <<keysMade, server, heard, edits>>

Open ==
  /\ page = "ready"
  /\ ~dialog.open
  /\ dialog' = [dialog EXCEPT !.open = TRUE]
  /\ UNCHANGED <<page, shown, sending, kept, keysMade, wires, server, heard, edits, loads>>

\* Ignored while a request waits.  The close button empties the form, Escape does not.
Close ==
  /\ dialog.open
  /\ sending = 0
  /\ dialog' \in {EmptyForm, [dialog EXCEPT !.open = FALSE]}
  /\ UNCHANGED <<page, shown, sending, kept, keysMade, wires, server, heard, edits, loads>>

\* The fields are disabled while a request waits.
Editable == dialog.open /\ sending = 0

\* A change of the destination takes the name and the tick away; a whole one starts a
\* lookup of its holder.
EnterDestination(d) ==
  /\ Editable
  /\ dialog.to # d
  /\ edits < MaxEdits                                      \* bound
  /\ edits' = edits + 1
  /\ dialog' = [dialog EXCEPT !.to = d, !.name = None, !.confirmed = FALSE]
  /\ lookups' = IF d = None THEN lookups ELSE lookups \cup {d}
  /\ UNCHANGED <<page, shown, sending, kept, keysMade, network, answer, server, heard, loads>>

\* Its answer is shown whatever the form says by now; a tick stays where it is.
LookupAnswers(d) ==
  /\ d \in lookups
  /\ lookups' = lookups \ {d}
  /\ dialog' \in {[dialog EXCEPT !.name = d], dialog}
  /\ UNCHANGED <<page, shown, sending, kept, keysMade, network, answer, server, heard, edits, loads>>

\* The box is there with a name, and can be ticked and unticked.
ConfirmName ==
  /\ Editable
  /\ dialog.name # None
  /\ dialog' = [dialog EXCEPT !.confirmed = ~@]
  /\ UNCHANGED <<page, shown, sending, kept, keysMade, wires, server, heard, edits, loads>>

-----------------------------------------------------------------------------
(* useOptimisticBalance.                                                   *)

Applied(delta) ==
  [shown EXCEPT !.optimistic = IF shown.confirmed >= delta THEN shown.confirmed - delta ELSE 0,
                !.pending = TRUE]

Reverted == Shows(shown.confirmed)

-----------------------------------------------------------------------------
(* handleSubmit.                                                           *)

Form == [to |-> dialog.to, name |-> dialog.name]

\* The key of a request with the same body that was not answered, or a new one.
KeyFor_AlwaysNew == Len(keysMade) + 1

KeyFor == IF kept # None /\ kept.body = Form THEN kept.key ELSE Len(keysMade) + 1

\* The button asks for a tick and a whole destination.
Submittable == Editable /\ dialog.confirmed /\ dialog.to # None

Submit ==
  LET key == KeyFor
  IN  /\ Submittable
      /\ shown.optimistic >= 1
      /\ key <= MaxKeys                                    \* bound
      /\ shown' = Applied(1)
      /\ kept' = [body |-> Form, key |-> key]
      /\ keysMade' = IF key > Len(keysMade) THEN Append(keysMade, [body |-> Form, load |-> loads])
                     ELSE keysMade
      /\ sending' = key
      /\ network' = network \cup {[key |-> key, awaited |-> TRUE]}
      /\ UNCHANGED <<page, dialog, answer, lookups, server, heard, edits, loads>>

Unlocked == sending' = 0 /\ shown' = Reverted

\* An answer, an acceptance too: the form unlocks with an error and the balance goes back.
\* The request is forgotten before the body of the answer is read.
Answered ==
  /\ answer # 0
  /\ answer' = 0
  /\ heard' = heard \cup {answer}
  /\ kept' = None
  /\ Unlocked
  /\ UNCHANGED <<page, dialog, keysMade, network, lookups, server, edits, loads>>

\* fetch() rejects: the request or its answer is lost, or the request arrives later.
NetworkError ==
  /\ sending # 0
  /\ Unlocked
  /\ network' \in {GivenUp, {r \in network : ~r.awaited}}
  /\ answer' = 0
  /\ UNCHANGED <<page, dialog, kept, keysMade, lookups, server, heard, edits, loads>>

-----------------------------------------------------------------------------
\* The server: a key debits once, and its answer is repeated; what is refused leaves no
\* trace of the key.
Debited(key) == \E i \in 1..Len(debits) : debits[i] = key

Reaches(r) ==
  /\ network' = network \ {r}
  /\ answer' = IF r.awaited THEN r.key ELSE answer
  /\ UNCHANGED <<screen, lookups, heard, edits, loads>>

Serve(r) ==
  /\ Reaches(r)
  /\ IF Debited(r.key) \/ balance = 0 THEN UNCHANGED server
     ELSE debits' = Append(debits, r.key) /\ balance' = balance - 1

\* A query fails before the COMMIT: 500.
ServerError(r) ==
  /\ Reaches(r)
  /\ UNCHANGED server

-----------------------------------------------------------------------------
Next ==
  \/ LoadWallet \/ Reload \/ Open \/ Close \/ ConfirmName
  \/ \E d \in Destinations : EnterDestination(d) \/ LookupAnswers(d)
  \/ EnterDestination(None)
  \/ Submit
  \/ Answered \/ NetworkError
  \/ \E r \in network : Serve(r) \/ ServerError(r)

Spec == Init /\ [][Next]_vars

-----------------------------------------------------------------------------
(* Properties.                                                             *)

Forms ==
  [open : BOOLEAN, to : Destinations \cup {None}, name : Destinations \cup {None},
   confirmed : BOOLEAN]

Balances == [confirmed : {0} \cup OnChain, optimistic : Nat, pending : BOOLEAN]

Made == [body : Body, load : 1..MaxLoads]

TypeOK ==
  /\ page \in {"loading", "ready", "failed"}
  /\ shown \in Balances
  /\ dialog \in Forms
  /\ sending \in 0..Len(keysMade)
  /\ kept \in {None} \cup Kept
  /\ keysMade \in Seq(Made)
  /\ network \subseteq [key : Keys, awaited : BOOLEAN]
  /\ answer # 0 => answer = sending
  /\ shown.optimistic <= shown.confirmed
  /\ balance + Len(debits) = Balance

\* Submitting the same form again after a network error does not withdraw twice, whether
\* the first request reached the server, was lost or is late: two withdrawals in a row for
\* one form on one page mean that the page had an answer to the first.
RetriesDebitOnce ==
  \A k \in Keys :
    /\ Debited(k) /\ Debited(k + 1)
    /\ keysMade[k] = keysMade[k + 1]
    => k \in heard

\* "Keep the form locked ... so a second submit cannot create a duplicate withdrawal"
\* (WithdrawModal.tsx:237-238): once a withdrawal has been accepted, the form that made it
\* makes no second one.
AcceptedFormStaysLocked ==
  \A k \in heard : Debited(k) => ~(Debited(k + 1) /\ keysMade[k] = keysMade[k + 1])

-----------------------------------------------------------------------------
(* The inductive invariant.                                                *)

\* Every request is of a key that was made, and in one load of the page; who has ticked the
\* box was shown a name.
Typed ==
  /\ TypeOK
  /\ Len(keysMade) <= MaxKeys /\ loads \in 1..MaxLoads /\ balance \in Nat
  /\ debits \in Seq(1..Len(keysMade)) /\ \A r \in network : r.key <= Len(keysMade)
  /\ \A k \in 1..Len(keysMade) : keysMade[k].load <= loads
  /\ lookups \subseteq Destinations
  /\ dialog.confirmed => dialog.name # None

\* The page waits for the request that it sent last, and for one answer.
AwaitedIsSent ==
  /\ sending # 0 => kept # None /\ kept.key = sending
  /\ \A r \in network : r.awaited => r.key = sending /\ answer = 0

\* What is kept is the last key made and its body; only an answer or a load takes it away.
KeptIsLast ==
  LET last == Len(keysMade)
  IN  IF kept # None
      THEN kept.key = last /\ keysMade[last] = [body |-> kept.body, load |-> loads]
      ELSE last > 0 /\ keysMade[last].load = loads => last \in heard

\* A second key for one form was made after an answer to the first.
NewKeysAreHeard ==
  \A k \in 1..(Len(keysMade) - 1) : keysMade[k] = keysMade[k + 1] => k \in heard

IInv == Typed /\ AwaitedIsSent /\ KeptIsLast /\ NewKeysAreHeard

=============================================================================
