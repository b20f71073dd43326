--------------------------- MODULE WithdrawalRequests ---------------------------
(***************************************************************************)
(* POST /wallet/withdraw, statement by statement: what a request that is   *)
(* sent again, at the same time or later, is answered.                     *)
(*   server/src/routes/wallet.ts     the handler                           *)
(*   server/src/services/wallet.ts   executeIdempotentWithdrawal           *)
(*                                                                         *)
(* One user's requests: keys and the wallet are the user's own.  Withdrawal*)
(* takes the transaction as one step and goes on with the payout.          *)
(*                                                                         *)
(* Left out: the fields of a request but the amount, which are checked     *)
(* before anything is read and told apart by a hash of them all.           *)
(* Name_Variant is Name with a plausible mistake in it, as in Escrow.      *)
(***************************************************************************)
EXTENDS Sums, Sequences

CONSTANTS
  Calls,        \* bound: requests
  KeyOf,        \* by call: its Idempotency-Key, or NoKey
  AmountOf,     \* by call; calls of one amount have one fingerprint
  NoKey,        \* a key that is missing or malformed
  Deposited,    \* fiat_balance at the start
  MaxFaults     \* bound: statements that fail, answers of COMMIT that are lost, restarts

Parameters ==
  /\ AmountOf \in [Calls -> Nat \ {0}]
  /\ Deposited \in Nat
  /\ MaxFaults \in Nat

VARIABLES
  wallet,       \* wallets.fiat_balance
  withdrawals,  \* the amounts, by id
  keys,         \* withdrawal_idempotency_keys: those committed, with fingerprint and response
  call,         \* by call: its step, and in the end its answer
  queued,       \* how often process-withdrawal was enqueued, by withdrawal
  faults

tables == <<wallet, withdrawals, keys>>
vars   == <<tables, call, queued, faults>>

Init ==
  /\ wallet = Deposited
  /\ withdrawals = << >>
  /\ keys = << >>
  /\ call = [c \in Calls |-> [step |-> "sent"]]
  /\ queued = << >>
  /\ faults = 0

Fault == faults < MaxFaults /\ faults' = faults + 1        \* bound

Goto(c, step) == call' = [call EXCEPT ![c] = [step |-> step]]

Answered(c, status, id, replayed) ==
  call' = [call EXCEPT ![c] =
    [step |-> "answered", status |-> status, withdrawal |-> id, replayed |-> replayed]]

\* A transaction holds the key from its claim, and the wallet from its check, to its end.
InTransaction(c) == call[c].step \in {"claimed", "locked"}

-----------------------------------------------------------------------------
\* parseIdempotencyKey.
Refuse(c) ==
  /\ call[c].step = "sent"
  /\ KeyOf[c] = NoKey
  /\ Answered(c, 400, 0, FALSE)
  /\ UNCHANGED <<tables, queued, faults>>

\* withdrawalFingerprint.
Fingerprint(c) == AmountOf[c]

\* replay: the stored response, if it is a response to this request.
Replay_AnyBody(c, stored) == Answered(c, 202, stored.withdrawal, TRUE)

Replay(c, stored) ==
  IF stored.fingerprint # Fingerprint(c)
  THEN Answered(c, 422, 0, FALSE)
  ELSE Answered(c, 202, stored.withdrawal, TRUE)

StoredKeys == {keys[i] : i \in DOMAIN keys}
Stored(c)  == {k \in StoredKeys : k.key = KeyOf[c]}

\* findStoredKey, before the transaction.
FindStoredKey(c) ==
  /\ call[c].step = "sent"
  /\ KeyOf[c] # NoKey
  /\ IF Stored(c) = {}
     THEN Goto(c, "unfound")
     ELSE \E k \in Stored(c) : Replay(c, k)
  /\ UNCHANGED <<tables, queued, faults>>

\* BEGIN and the INSERT of the key, which waits for a transaction that has inserted it; if
\* that committed, its response is found.
Claim_Blind(c) ==
  /\ call[c].step = "unfound"
  /\ Goto(c, "claimed")
  /\ UNCHANGED <<tables, queued, faults>>

Claim(c) ==
  /\ call[c].step = "unfound"
  /\ \A d \in Calls : InTransaction(d) => KeyOf[d] # KeyOf[c]
  /\ IF Stored(c) = {}
     THEN Goto(c, "claimed")
     ELSE \E k \in Stored(c) : Replay(c, k)
  /\ UNCHANGED <<tables, queued, faults>>

\* SELECT fiat_balance ... FOR UPDATE; without the balance, ROLLBACK and 400.
CheckBalance_Unlocked(c) ==
  /\ call[c].step = "claimed"
  /\ IF AmountOf[c] > wallet THEN Answered(c, 400, 0, FALSE) ELSE Goto(c, "locked")
  /\ UNCHANGED <<tables, queued, faults>>

CheckBalance(c) ==
  /\ call[c].step = "claimed"
  /\ \A d \in Calls : call[d].step # "locked"
  /\ IF AmountOf[c] > wallet THEN Answered(c, 400, 0, FALSE) ELSE Goto(c, "locked")
  /\ UNCHANGED <<tables, queued, faults>>

\* The withdrawal, the debit, the response under the key, and COMMIT.
Committed(c) ==
  /\ withdrawals' = Append(withdrawals, AmountOf[c])
  /\ wallet' = wallet - AmountOf[c]
  /\ keys' = Append(keys, [key |-> KeyOf[c], fingerprint |-> Fingerprint(c),
                           withdrawal |-> Len(withdrawals) + 1])
  /\ queued' = Append(queued, 0)

Execute(c) ==
  /\ call[c].step = "locked"
  /\ Committed(c)
  /\ call' = [call EXCEPT ![c] = [step |-> "executed", withdrawal |-> Len(withdrawals) + 1]]
  /\ UNCHANGED faults

\* A statement fails: ROLLBACK and 500; or COMMIT has done its work and its answer is lost.
ExecuteFails(c) ==
  /\ InTransaction(c)
  /\ Fault
  /\ Answered(c, 500, 0, FALSE)
  /\ \/ UNCHANGED <<tables, queued>>
     \/ call[c].step = "locked" /\ Committed(c)

\* Only the call that made the withdrawal enqueues its payout; if that fails, it answers 500.
Enqueue(c) ==
  /\ call[c].step = "executed"
  /\ \/ /\ queued' = [queued EXCEPT ![call[c].withdrawal] = @ + 1]
        /\ Answered(c, 202, call[c].withdrawal, FALSE)
        /\ UNCHANGED faults
     \/ /\ Fault
        /\ Answered(c, 500, 0, FALSE)
        /\ UNCHANGED queued
  /\ UNCHANGED tables

\* Calls that are under way when the server restarts get no answer.
Restart ==
  /\ Fault
  /\ call' = [c \in Calls |-> IF call[c].step \in {"sent", "answered"} THEN call[c]
                              ELSE [step |-> "lost"]]
  /\ UNCHANGED <<tables, queued>>

Next ==
  \/ \E c \in Calls :
       Refuse(c) \/ FindStoredKey(c) \/ Claim(c) \/ CheckBalance(c) \/ Execute(c)
       \/ ExecuteFails(c) \/ Enqueue(c)
  \/ Restart

Spec == Init /\ [][Next]_vars

-----------------------------------------------------------------------------
(* Properties.                                                             *)

\* A request under way, one that has committed its withdrawal, and one that is answered.
CallRow ==
  [step : {"sent", "unfound", "claimed", "locked", "lost"}]
  \cup [step : {"executed"}, withdrawal : Nat]
  \cup [step : {"answered"}, status : {202, 400, 422, 500}, withdrawal : Nat, replayed : BOOLEAN]

KeyRow == [key : {KeyOf[c] : c \in Calls}, fingerprint : Nat, withdrawal : Nat]

TypeOK ==
  /\ wallet \in 0..Deposited
  /\ withdrawals \in Seq(Nat)
  /\ keys \in Seq(KeyRow) /\ Len(keys) = Len(withdrawals)
  /\ queued \in Seq(Nat) /\ Len(queued) = Len(withdrawals)
  /\ call \in [Calls -> CallRow]
  /\ faults \in 0..MaxFaults

Accepted == {c \in Calls : call[c].step = "answered" /\ call[c].status = 202}

\* Calls with one key that are accepted are told of one withdrawal, of the amount each asked
\* for, and exactly one of them, or none whose answer arrived, made it.
OneWithdrawalPerKey ==
  /\ \A c, d \in Accepted : KeyOf[c] = KeyOf[d] =>
       /\ call[c].withdrawal = call[d].withdrawal
       /\ ~call[c].replayed /\ ~call[d].replayed => c = d
  /\ \A c \in Accepted : withdrawals[call[c].withdrawal] = AmountOf[c]
  /\ \A i, j \in DOMAIN keys : keys[i].key = keys[j].key => i = j

\* The wallet is short of exactly the withdrawals, and never below nothing.
DebitedWhatIsWithdrawn ==
  wallet >= 0 /\ wallet + SumUpTo(withdrawals, Len(withdrawals)) = Deposited

\* A withdrawal is queued once at most, and it is queued when the call that made it is
\* answered 202.
QueuedOnce ==
  /\ \A i \in DOMAIN queued : queued[i] <= 1
  /\ \A c \in Accepted : ~call[c].replayed => queued[call[c].withdrawal] = 1

\* Together: a key makes one withdrawal, of the amount asked for, debited and queued once.
DebitedOncePerKey == OneWithdrawalPerKey /\ DebitedWhatIsWithdrawn /\ QueuedOnce

-----------------------------------------------------------------------------
(* Why: the inductive invariant of WithdrawalRequestsProofs.               *)

Ids == 1..Len(withdrawals)

\* A committed key is that of the withdrawal committed with it, and nobody else's.
KeysMatch ==
  /\ \A i \in Ids : keys[i].withdrawal = i /\ keys[i].fingerprint = withdrawals[i]
  /\ \A i, j \in Ids : keys[i].key = keys[j].key => i = j

\* A transaction has its key for itself, and one at a time has the wallet, which holds
\* what it is about to debit.
TransactionsAlone ==
  /\ \A c, d \in Calls : InTransaction(c) /\ InTransaction(d) /\ KeyOf[c] = KeyOf[d] => c = d
  /\ \A c \in Calls : InTransaction(c) => \A i \in Ids : keys[i].key # KeyOf[c]
  /\ \A c, d \in Calls : call[c].step = "locked" /\ call[d].step = "locked" => c = d
  /\ \A c \in Calls : call[c].step = "locked" => AmountOf[c] <= wallet

Accepting(r) == r.step = "answered" /\ r.status = 202
Making(r)    == r.step = "executed" \/ (Accepting(r) /\ ~r.replayed)

\* What a call is about to answer, or has answered, is the withdrawal of its key.
AnswersMatch ==
  \A c \in Calls : call[c].step = "executed" \/ Accepting(call[c]) =>
    /\ call[c].withdrawal \in Ids
    /\ keys[call[c].withdrawal].key = KeyOf[c]
    /\ withdrawals[call[c].withdrawal] = AmountOf[c]

\* One call makes a withdrawal, and enqueues its payout as it answers.
MakersQueue ==
  /\ \A c, d \in Calls :
       Making(call[c]) /\ Making(call[d]) /\ call[c].withdrawal = call[d].withdrawal => c = d
  /\ \A i \in Ids : queued[i] <= 1
  /\ \A c \in Calls : Making(call[c]) =>
       queued[call[c].withdrawal] = IF call[c].step = "executed" THEN 0 ELSE 1

IInv ==
  /\ TypeOK /\ KeysMatch /\ TransactionsAlone /\ AnswersMatch /\ MakersQueue
  /\ DebitedWhatIsWithdrawn

=============================================================================
