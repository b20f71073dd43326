-------------------------- MODULE MCWithdrawalSafety --------------------------
(***************************************************************************)
(* Withdrawals, for TLC, in three scenarios of one run.  "requests" and    *)
(* "payout" are instances of Withdrawal: with the bounds of the            *)
(* configuration, two withdrawals that race for one balance, and one with  *)
(* the code's three attempts and two webhooks.  "answers" is               *)
(* WithdrawalRequests: five requests, three of them with one key, one of   *)
(* those for another amount, one with another key and one without any.     *)
(***************************************************************************)
EXTENDS Withdrawal, TLC

P == INSTANCE Withdrawal WITH
       Amounts <- {1}, Deposited <- 1,
       MaxAttempts <- 3, MaxWithdrawals <- 1, MaxEvents <- 2

VARIABLES
  scenario,
  balance, made, keys, call, queued, faults     \* WithdrawalRequests

answers == <<balance, made, keys, call, queued, faults>>

CONSTANTS k1, k2, c1, c2, c3, c4, c5, NoKey

R == INSTANCE WithdrawalRequests WITH
       Calls <- {c1, c2, c3, c4, c5}, wallet <- balance, withdrawals <- made,
       KeyOf <- (c1 :> "key" @@ c2 :> "key" @@ c3 :> "key" @@ c4 :> "other" @@ c5 :> NoKey),
       AmountOf <- (c1 :> 1 @@ c2 :> 1 @@ c3 :> 2 @@ c4 :> 2 @@ c5 :> 1), MaxFaults <- 2

ASSUME InstanceAssumption == R!Parameters

BothInit ==
  /\ R!Init
  /\ \/ scenario \in {"requests", "answers"} /\ Init
     \/ scenario = "payout" /\ P!Init

BothNext ==
  /\ \/ scenario = "requests" /\ Next /\ UNCHANGED answers
     \/ scenario = "payout" /\ P!Next /\ UNCHANGED answers
     \/ scenario = "answers" /\ R!Next /\ UNCHANGED vars
  /\ UNCHANGED scenario

BothSpec == BothInit /\ [][BothNext]_<<vars, answers, scenario>>

\* Keys are compared and nothing else; the first two calls are alike.
Alike == Permutations({k1, k2}) \cup Permutations({c1, c2})

-----------------------------------------------------------------------------
(* Withdrawal's properties, in both of its scenarios, and those of the     *)
(* requests.                                                               *)

\* No balance goes below zero, and every row has the types of its columns.
BothTypeOK ==
  /\ IF scenario = "payout" THEN P!TypeOK ELSE TypeOK
  /\ R!TypeOK

\* An Idempotency-Key makes one withdrawal, of the amount that is asked for, whose payout is
\* queued once, and every request with the key is told of that one; a user's balance is never
\* below zero, nor short of more than its withdrawals that have not failed.
DebitedOncePerKey ==
  /\ BothTypeOK
  /\ OncePerKey
  /\ IF scenario = "payout" THEN P!NeverOvercharged ELSE NeverOvercharged
  /\ R!DebitedOncePerKey

=============================================================================
