------------------------------ MODULE Withdrawal ------------------------------
(***************************************************************************)
(* Withdrawals to a bank account, from the request to Paystack's verdict:  *)
(*   server/src/routes/wallet.ts           POST /withdraw                  *)
(*   server/src/services/wallet.ts         executeIdempotentWithdrawal     *)
(*   server/src/jobs/queue.ts              runJob: retries, dead letters   *)
(*   server/src/jobs/processors/process-withdrawal.ts                      *)
(*   server/src/routes/webhooks.ts         persistAndEnqueue               *)
(*   server/src/jobs/processors/process-paystack-webhook.ts                *)
(*   server/src/routes/admin.ts            POST /webhooks/:id/replay       *)
(*                                                                         *)
(* One action is one database transaction or statement, one call of        *)
(* Paystack or one queue operation; between two of them any other request, *)
(* job or webhook may run, a call may fail, and the server may crash.      *)
(* Paystack's side is modelled from how the code calls it: a transfer      *)
(* reference is accepted once, and webhooks come late, more than once, out *)
(* of order or never.                                                      *)
(*                                                                         *)
(* Left out: requests that are refused or replayed from their key (they    *)
(* change nothing); the transfer recipient, which is only an argument of   *)
(* the transfer; an event that two admins replay at the same time.         *)
(*                                                                         *)
(* Name_Variant is Name with a plausible mistake in it, as in Escrow.      *)
(***************************************************************************)
EXTENDS Sums, Sequences, FiniteSets

CONSTANTS
  Users,
  Keys,            \* Idempotency-Key headers
  Amounts,         \* amounts asked for: the part of a request that is told apart
  Deposited,       \* every user's fiat_balance at the start
  MaxAttempts,     \* MAX_ATTEMPTS of queue.ts
  MaxWithdrawals,  \* bound: rows of `withdrawals`
  MaxEvents,       \* bound: rows of `webhook_events`
  MaxCrashes       \* bound: server restarts

ASSUME NumberAssumption ==
  /\ Amounts \subseteq Nat \ {0}
  /\ Deposited \in Nat
  /\ MaxAttempts \in Nat \ {0}
  /\ MaxWithdrawals \in Nat
  /\ MaxEvents \in Nat
  /\ MaxCrashes \in Nat

VARIABLES
  wallet,       \* wallets.fiat_balance, by user
  claimed,      \* withdrawal_idempotency_keys: <<user, key>> pairs
  withdrawals,  \* table `withdrawals`; the row's id is its index
  unqueued,     \* withdrawals whose handler has committed and not yet enqueued
  job,          \* the process-withdrawal job of each withdrawal
  transfers,    \* Paystack's transfers
  debits,       \* withdrawals with a row in the `transactions` ledger
  events,       \* table `webhook_events` for transfers, each with its job
  restored,     \* log: withdrawals whose "balance restored" was logged
  crashes       \* server restarts so far

request == <<wallet, claimed, withdrawals>>
vars    == <<request, unqueued, job, transfers, debits, events, restored, crashes>>

WdIds    == 1..MaxWithdrawals
EventIds == 1..Len(events)
Rows     == 1..Len(withdrawals)

Status == {"pending", "processing", "completed", "failed"}

WithdrawalRow == [user : Users, key : Keys, amount : Nat \ {0}, status : Status]

\* A job that was never enqueued, or was lost; one in the queue; one that is
\* running, by the step it has completed; one that returned; one that threw
\* MAX_ATTEMPTS times and is in the dead-letter list.
JobState == {"none", "queued", "loaded", "accepted", "recorded", "done", "dead"}

Job == [state : JobState, attempts : 0..MaxAttempts]

TransferStatus == {"pending", "success", "failed", "reversed"}
Outcome        == TransferStatus \ {"pending"}

Transfer == [wd : WdIds, reference : WdIds \X (0..MaxAttempts), status : TransferStatus]

\* `fresh`: persisted and not yet enqueued.
EventJobState == {"none", "fresh", "queued", "running", "applied", "done", "dead"}

Event ==
  [type     : Outcome,
   wd       : WdIds,
   status   : {"pending", "processed", "failed"},
   state    : EventJobState,
   attempts : 0..MaxAttempts]

-----------------------------------------------------------------------------
Init ==
  /\ wallet = [u \in Users |-> Deposited]
  /\ claimed = {}
  /\ withdrawals = << >>
  /\ unqueued = {}
  /\ job = [w \in WdIds |-> [state |-> "none", attempts |-> 0]]
  /\ transfers = {}
  /\ debits = {}
  /\ events = << >>
  /\ restored = {}
  /\ crashes = 0

-----------------------------------------------------------------------------
(* The request.                                                            *)

\* The transaction of executeIdempotentWithdrawal.  Claiming the key and locking
\* the wallet row make it atomic; a second request with the key waits for it and
\* is answered from the key.
Withdraw_UnclaimedKey(u, key, amount) ==
  /\ amount <= wallet[u]
  /\ Len(withdrawals) < MaxWithdrawals
  /\ claimed' = claimed \cup {<<u, key>>}
  /\ withdrawals' = Append(withdrawals,
       [user |-> u, key |-> key, amount |-> amount, status |-> "pending"])
  /\ wallet' = [wallet EXCEPT ![u] = @ - amount]
  /\ unqueued' = unqueued \cup {Len(withdrawals) + 1}
  /\ UNCHANGED <<job, transfers, debits, events, restored, crashes>>

Withdraw_AnyAmount(u, key, amount) ==
  /\ <<u, key>> \notin claimed
  /\ Len(withdrawals) < MaxWithdrawals
  /\ claimed' = claimed \cup {<<u, key>>}
  /\ withdrawals' = Append(withdrawals,
       [user |-> u, key |-> key, amount |-> amount, status |-> "pending"])
  /\ wallet' = [wallet EXCEPT ![u] = @ - amount]
  /\ unqueued' = unqueued \cup {Len(withdrawals) + 1}
  /\ UNCHANGED <<job, transfers, debits, events, restored, crashes>>

Withdraw(u, key, amount) ==
  /\ <<u, key>> \notin claimed
  /\ amount <= wallet[u]
  /\ Len(withdrawals) < MaxWithdrawals                     \* bound
  /\ claimed' = claimed \cup {<<u, key>>}
  /\ withdrawals' = Append(withdrawals,
       [user |-> u, key |-> key, amount |-> amount, status |-> "pending"])
  /\ wallet' = [wallet EXCEPT ![u] = @ - amount]
  /\ unqueued' = unqueued \cup {Len(withdrawals) + 1}
  /\ UNCHANGED <<job, transfers, debits, events, restored, crashes>>

\* The handler enqueues the payout, after the commit; or the queue fails and the
\* handler answers 500.
Enqueue(w) ==
  /\ w \in unqueued
  /\ unqueued' = unqueued \ {w}
  /\ \/ job' = [job EXCEPT ![w].state = "queued"]
     \/ job' = job
  /\ UNCHANGED <<request, transfers, debits, events, restored, crashes>>

-----------------------------------------------------------------------------
(* The process-withdrawal job.                                             *)

\* The state of a job whose processor threw at that attempt.
Retried(attempt) == IF attempt < MaxAttempts THEN "queued" ELSE "dead"

Thrown(w) == [job EXCEPT ![w].state = Retried(job[w].attempts)]

\* The poll loop takes the job off the queue, and the processor loads the row, or
\* throws.  It returns when the row is past `pending`, and goes on otherwise.
StartJob(w) ==
  /\ job[w].state = "queued"
  /\ \E s \in {IF withdrawals[w].status = "pending" THEN "loaded" ELSE "done",
              Retried(job[w].attempts + 1)} :
       job' = [job EXCEPT ![w] = [state |-> s, attempts |-> @.attempts + 1]]
  /\ UNCHANGED <<request, unqueued, transfers, debits, events, restored, crashes>>

\* The reference the row was created with, the same on every attempt.
Reference_PerAttempt(w) == <<w, job[w].attempts>>

Reference(w) == <<w, 0>>

\* POST /transfer.  Paystack accepts a reference it has not seen; whether or not
\* the answer arrives.
InitiateTransfer(w) ==
  /\ job[w].state = "loaded"
  /\ \A tr \in transfers : tr.reference # Reference(w)
  /\ transfers' = transfers \cup {[wd |-> w, reference |-> Reference(w), status |-> "pending"]}
  /\ \/ job' = [job EXCEPT ![w].state = "accepted"]
     \/ job' = Thrown(w)
  /\ UNCHANGED <<request, unqueued, debits, events, restored, crashes>>

\* UPDATE withdrawals SET status = 'processing' WHERE id = $2, whatever it was.
RecordProcessing(w) ==
  /\ job[w].state = "accepted"
  /\ withdrawals' = [withdrawals EXCEPT ![w].status = "processing"]
  /\ job' = [job EXCEPT ![w].state = "recorded"]
  /\ UNCHANGED <<wallet, claimed, unqueued, transfers, debits, events, restored, crashes>>

\* INSERT INTO transactions ... ON CONFLICT DO NOTHING.
RecordDebit(w) ==
  /\ job[w].state = "recorded"
  /\ debits' = debits \cup {w}
  /\ job' = [job EXCEPT ![w].state = "done"]
  /\ UNCHANGED <<request, unqueued, transfers, events, restored, crashes>>

\* The recipient or the transfer is refused, the reference is a duplicate, or a
\* statement fails: the processor throws.
FailJob_Restores(w) ==
  /\ job[w].state \in {"loaded", "accepted", "recorded"}
  /\ job' = Thrown(w)
  /\ IF job'[w].state = "dead"
     THEN /\ withdrawals' = [withdrawals EXCEPT ![w].status = "failed"]
          /\ wallet' = [wallet EXCEPT ![withdrawals[w].user] = @ + withdrawals[w].amount]
          /\ restored' = restored \cup {w}
          /\ UNCHANGED claimed
     ELSE UNCHANGED <<request, restored>>
  /\ UNCHANGED <<unqueued, transfers, debits, events, crashes>>

FailJob(w) ==
  /\ job[w].state \in {"loaded", "accepted", "recorded"}
  /\ job' = Thrown(w)
  /\ UNCHANGED <<request, unqueued, transfers, debits, events, restored, crashes>>

-----------------------------------------------------------------------------
(* Paystack.                                                               *)

Settle(tr, outcome) ==
  /\ \/ tr.status = "pending" /\ outcome \in {"success", "failed"}
     \/ tr.status = "success" /\ outcome = "reversed"
  /\ transfers' = (transfers \ {tr}) \cup {[tr EXCEPT !.status = outcome]}
  /\ UNCHANGED <<request, unqueued, job, debits, events, restored, crashes>>

\* A webhook about something that happened to the transfer is persisted, now or
\* again; the 200 has been sent.
Webhook(tr, outcome) ==
  /\ outcome = tr.status \/ (outcome = "success" /\ tr.status = "reversed")
  /\ outcome # "pending"
  /\ Len(events) < MaxEvents                               \* bound
  /\ events' = Append(events, [type |-> outcome, wd |-> tr.wd, status |-> "pending",
                               state |-> "fresh", attempts |-> 0])
  /\ UNCHANGED <<request, unqueued, job, transfers, debits, restored, crashes>>

-----------------------------------------------------------------------------
(* The process-paystack-webhook job.                                       *)

EnqueueEvent(e) ==
  /\ events[e].state = "fresh"
  /\ \/ events' = [events EXCEPT ![e].state = "queued"]
     \/ events' = [events EXCEPT ![e].state = "none"]
  /\ UNCHANGED <<request, unqueued, job, transfers, debits, restored, crashes>>

StartEvent(e) ==
  /\ events[e].state = "queued"
  /\ events' = [events EXCEPT ![e].state = "running", ![e].attempts = @ + 1]
  /\ UNCHANGED <<request, unqueued, job, transfers, debits, restored, crashes>>

\* UPDATE ... SET status = 'completed' WHERE reference = $1 AND status = 'processing'.
ApplyTransferSuccess(w) ==
  /\ withdrawals' = [withdrawals EXCEPT ![w].status =
                       IF @ = "processing" THEN "completed" ELSE @]
  /\ UNCHANGED <<wallet, restored>>

\* The statuses applyTransferFailed fails and restores from.
Failable_Processing == {"processing"}

Failable == {"pending", "processing"}

ApplyTransferFailed_Kept(w) ==
  /\ withdrawals' = [withdrawals EXCEPT ![w].status = IF @ \in Failable THEN "failed" ELSE @]
  /\ restored' = IF withdrawals[w].status \in Failable THEN restored \cup {w} ELSE restored
  /\ UNCHANGED wallet

ApplyTransferFailed(w) ==
  IF withdrawals[w].status \in Failable
  THEN /\ withdrawals' = [withdrawals EXCEPT ![w].status = "failed"]
       /\ wallet' = [wallet EXCEPT ![withdrawals[w].user] = @ + withdrawals[w].amount]
       /\ restored' = restored \cup {w}
  ELSE UNCHANGED <<withdrawals, wallet, restored>>

ApplyEvent(e) ==
  /\ events[e].state = "running"
  /\ IF events[e].type = "success" THEN ApplyTransferSuccess(events[e].wd)
                                   ELSE ApplyTransferFailed(events[e].wd)
  /\ events' = [events EXCEPT ![e].state = "applied"]
  /\ UNCHANGED <<claimed, unqueued, job, transfers, debits, crashes>>

MarkProcessed(e) ==
  /\ events[e].state = "applied"
  /\ events' = [events EXCEPT ![e].state = "done", ![e].status = "processed"]
  /\ UNCHANGED <<request, unqueued, job, transfers, debits, restored, crashes>>

\* A statement fails, before or after the event was applied.  The last attempt
\* marks the event failed, unless that fails as well.
FailEvent(e) ==
  /\ events[e].state \in {"running", "applied"}
  /\ IF events[e].attempts < MaxAttempts
     THEN events' = [events EXCEPT ![e].state = "queued"]
     ELSE \E s \in {"failed", events[e].status} :
            events' = [events EXCEPT ![e].state = "dead", ![e].status = s]
  /\ UNCHANGED <<request, unqueued, job, transfers, debits, restored, crashes>>

\* An admin replays a failed event.
ReplayEvent(e) ==
  /\ events[e].status = "failed"
  /\ events' = [events EXCEPT ![e].status = "pending", ![e].state = "fresh", ![e].attempts = 0]
  /\ UNCHANGED <<request, unqueued, job, transfers, debits, restored, crashes>>

-----------------------------------------------------------------------------
\* The server restarts: handlers and running jobs are gone, the tables and the
\* jobs waiting in Redis are not.
Crash ==
  /\ crashes < MaxCrashes                                  \* bound
  /\ crashes' = crashes + 1
  /\ unqueued' = {}
  /\ job' = [w \in WdIds |->
       IF job[w].state \in {"loaded", "accepted", "recorded"}
       THEN [job[w] EXCEPT !.state = "none"] ELSE job[w]]
  /\ events' = [e \in EventIds |->
       IF events[e].state \in {"fresh", "running", "applied"}
       THEN [events[e] EXCEPT !.state = "none"] ELSE events[e]]
  /\ UNCHANGED <<request, transfers, debits, restored>>

Request ==
  \/ \E u \in Users, key \in Keys, amount \in Amounts : Withdraw(u, key, amount)
  \/ \E w \in Rows : Enqueue(w)

Payout(w) ==
  StartJob(w) \/ InitiateTransfer(w) \/ RecordProcessing(w) \/ RecordDebit(w) \/ FailJob(w)

Paystack ==
  \E tr \in transfers, outcome \in Outcome : Settle(tr, outcome) \/ Webhook(tr, outcome)

Delivery(e) ==
  EnqueueEvent(e) \/ StartEvent(e) \/ ApplyEvent(e) \/ MarkProcessed(e) \/ FailEvent(e)

Next ==
  \/ Request
  \/ \E w \in Rows : Payout(w)
  \/ Paystack
  \/ \E e \in EventIds : Delivery(e) \/ ReplayEvent(e)
  \/ Crash

Spec == Init /\ [][Next]_vars

\* The poll loop keeps running jobs, and failed events are replayed.
Fairness ==
  /\ \A w \in WdIds : WF_vars(w \in Rows /\ Payout(w))
  /\ \A e \in 1..MaxEvents : WF_vars(e \in EventIds /\ (Delivery(e) \/ ReplayEvent(e)))
  /\ WF_vars(Paystack)

FairSpec == Spec /\ Fairness

-----------------------------------------------------------------------------
(* Properties.                                                             *)

\* The rows have the types of their columns; in particular fiat_balance, which is
\* debited at once and paid out later, never goes below zero.
TypeOK ==
  /\ wallet \in [Users -> Nat]
  /\ claimed \subseteq Users \X Keys
  /\ withdrawals \in Seq(WithdrawalRow)
  /\ unqueued \subseteq WdIds
  /\ job \in [WdIds -> Job]
  /\ transfers \subseteq Transfer
  /\ debits \subseteq WdIds
  /\ events \in Seq(Event)
  /\ restored \subseteq WdIds
  /\ crashes \in 0..MaxCrashes

\* "At most once per (user, Idempotency-Key)" (wallet.ts): however often a request
\* is sent, its key debits the wallet for one withdrawal.
OncePerKey ==
  \A v, w \in Rows :
    withdrawals[v].user = withdrawals[w].user /\ withdrawals[v].key = withdrawals[w].key => v = w

TransfersOf(w) == {tr \in transfers : tr.wd = w}

\* A payout whose answer was lost, or that a crash or a failed statement cut short,
\* is not made a second time by the retry.
PaidAtMostOnce ==
  \A w \in Rows :
    Cardinality({tr \in TransfersOf(w) : tr.status \in {"pending", "success"}}) <= 1

\* A user is not given back an amount that Paystack pays or may still pay out.
NeverPaidAndRestored ==
  \A w \in restored : \A tr \in TransfersOf(w) : tr.status \in {"failed", "reversed"}

\* A failure that was processed has been restored, whichever step of the payout the
\* event overtook.
ProcessedFailuresAreRestored ==
  \A e \in EventIds :
    events[e].type = "failed" /\ events[e].status = "processed" => events[e].wd \in restored

\* What u's withdrawals that have not failed come to.
Committed(u) ==
  SumUpTo([w \in Rows |-> IF withdrawals[w].user = u /\ withdrawals[w].status # "failed"
                          THEN withdrawals[w].amount ELSE 0],
          Len(withdrawals))

\* A user is never out more than its withdrawals that have not failed.
NeverOvercharged == \A u \in Users : wallet[u] >= Deposited - Committed(u)

\* "On permanent failure (all retries exhausted): mark failed, restore the
\* fiat_balance" (process-withdrawal.ts:12): a withdrawal whose job ends in the
\* dead-letter list without a transfer fails.
ExhaustedWithdrawalsFail ==
  \A w \in WdIds :
    job[w].state = "dead" /\ TransfersOf(w) = {}
      ~> w \in Rows /\ withdrawals[w].status = "failed"

=============================================================================
