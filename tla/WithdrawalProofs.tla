--------------------------- MODULE WithdrawalProofs ---------------------------
(***************************************************************************)
(* Proofs about Withdrawal and WithdrawalRequests, for all values of their *)
(* constants: what becomes of a withdrawal; and that whatever requests are *)
(* sent, again and at once, a key makes one withdrawal, debited and queued *)
(* once.                                                                   *)
(***************************************************************************)
EXTENDS Withdrawal, SumsTheorems, SequenceTheorems, FiniteSetTheorems

-----------------------------------------------------------------------------
(* The inductive invariant.                                                *)

\* What handlers, transfers and webhooks refer to are rows, and there are no more
\* of them than the bound.
RowsExist ==
  /\ Len(withdrawals) <= MaxWithdrawals
  /\ unqueued \subseteq Rows
  /\ \A tr \in transfers : tr.wd \in Rows
  /\ \A e \in EventIds : events[e].wd \in Rows

\* A job that waits to run has an attempt left; one that was not enqueued never ran.
AttemptsLeft ==
  /\ \A w \in WdIds :
       /\ job[w].state = "queued" => job[w].attempts < MaxAttempts
       /\ w \in unqueued \/ w \notin Rows => job[w] = [state |-> "none", attempts |-> 0]
  /\ \A e \in EventIds :
       events[e].state \in {"fresh", "queued"} => events[e].attempts < MaxAttempts

\* Every withdrawal's key is claimed.
KeysAreClaimed == \A w \in Rows : <<withdrawals[w].user, withdrawals[w].key>> \in claimed

\* A withdrawal has one reference, and so one transfer.
OneTransfer ==
  /\ \A tr \in transfers : tr.reference = <<tr.wd, 0>>
  /\ \A tr, other \in transfers : tr.wd = other.wd => tr = other

Came(tr, outcome) ==
  tr.status = outcome \/ (outcome = "success" /\ tr.status = "reversed")

\* A webhook tells of what happened to its withdrawal's transfer, and that only
\* changes from a success to a reversal.
EventsAreTrue ==
  \A e \in EventIds : \E tr \in transfers : tr.wd = events[e].wd /\ Came(tr, events[e].type)

\* A withdrawal is completed by a success, and failed by a restoration.
StatusesAreEarned ==
  \A w \in Rows :
    /\ withdrawals[w].status = "failed" => w \in restored
    /\ withdrawals[w].status = "completed" => \E tr \in transfers : tr.wd = w /\ Came(tr, "success")

\* What was restored had a transfer, which will not be paid.
RestoredAreOver ==
  \A w \in restored :
    \E tr \in transfers : tr.wd = w /\ tr.status \in {"failed", "reversed"}

\* A failure is restored by the time it is applied, and stays so.
AppliedFailuresAreRestored ==
  \A e \in EventIds :
    events[e].type = "failed" /\ (events[e].state = "applied" \/ events[e].status = "processed")
      => events[e].wd \in restored

\* Typed rows, and the events they are tied to.
TypeInv == TypeOK /\ RowsExist /\ AttemptsLeft

\* What the transfers have to do with the statuses.
PayInv ==
  OneTransfer /\ EventsAreTrue /\ StatusesAreEarned /\ RestoredAreOver /\ AppliedFailuresAreRestored

KeyInv == KeysAreClaimed /\ OncePerKey

IInv == TypeInv /\ KeyInv /\ PayInv

-----------------------------------------------------------------------------
(* The rows and events, and what one step does to them.                    *)

LEMMA TablesType ==
  ASSUME TypeOK
  PROVE  /\ Len(withdrawals) \in Nat
         /\ \A w \in Rows : withdrawals[w] \in WithdrawalRow
         /\ Len(events) \in Nat
         /\ \A e \in EventIds : events[e] \in Event
<1>1. withdrawals \in Seq(WithdrawalRow) /\ events \in Seq(Event)
  BY DEF TypeOK
<1>2. QED
  BY <1>1, LenProperties, ElementOfSeq DEF Rows, EventIds

\* A status that is set: the rest of the row, and the other rows, stay.
LEMMA StatusSet ==
  ASSUME TypeOK, NEW w \in Rows, NEW s \in Status,
         withdrawals' = [withdrawals EXCEPT ![w].status = s]
  PROVE  /\ withdrawals' \in Seq(WithdrawalRow)
         /\ Len(withdrawals') = Len(withdrawals)
         /\ \A v \in Rows :
              withdrawals'[v] = IF v = w THEN [withdrawals[w] EXCEPT !.status = s] ELSE withdrawals[v]
<1> DEFINE row == [withdrawals[w] EXCEPT !.status = s]
<1>1. withdrawals' = [withdrawals EXCEPT ![w] = row]
  OBVIOUS
<1>2. row \in WithdrawalRow
  BY TablesType DEF WithdrawalRow
<1>3. withdrawals \in Seq(WithdrawalRow)
  BY DEF TypeOK
<1> HIDE DEF row
<1>4. /\ [withdrawals EXCEPT ![w] = row] \in Seq(WithdrawalRow)
      /\ Len([withdrawals EXCEPT ![w] = row]) = Len(withdrawals)
      /\ \A v \in 1..Len(withdrawals) :
           [withdrawals EXCEPT ![w] = row][v] = IF v = w THEN row ELSE withdrawals[v]
  BY <1>2, <1>3, ExceptSeq DEF Rows
<1>5. QED
  BY <1>1, <1>4 DEF row, Rows

\* An event that is changed: the others stay.
LEMMA EventSet ==
  ASSUME TypeOK, NEW e \in EventIds, NEW event \in Event,
         events' = [events EXCEPT ![e] = event]
  PROVE  /\ events' \in Seq(Event)
         /\ Len(events') = Len(events)
         /\ \A d \in EventIds : events'[d] = IF d = e THEN event ELSE events[d]
<1>1. events \in Seq(Event)
  BY DEF TypeOK
<1>2. QED
  BY <1>1, ExceptSeq DEF EventIds

\* What the event's job does to its event: it is still about the same thing, is only
\* applied by ApplyEvent, only processed after that, and has an attempt left when it waits.
LEMMA EventStep ==
  ASSUME TypeOK, AttemptsLeft, NEW e \in EventIds, Delivery(e) \/ ReplayEvent(e)
  PROVE  \E event \in Event :
           /\ events' = [events EXCEPT ![e] = event]
           /\ event.type = events[e].type /\ event.wd = events[e].wd
           /\ event.state \in {"fresh", "queued"} => event.attempts < MaxAttempts
           /\ event.state = "applied" => ApplyEvent(e)
           /\ event.status = "processed" =>
                events[e].state = "applied" \/ events[e].status = "processed"
<1>1. /\ events[e] \in Event
      /\ events[e].state \in {"fresh", "queued"} => events[e].attempts < MaxAttempts
      /\ MaxAttempts \in Nat /\ MaxAttempts > 0
  BY TablesType, NumberAssumption DEF AttemptsLeft, NumberAssumption
<1>2. CASE EnqueueEvent(e)
  <2>1. PICK s \in {"queued", "none"} : events' = [events EXCEPT ![e].state = s]
    BY <1>2 DEF EnqueueEvent
  <2>2. [events[e] EXCEPT !.state = s] \in Event
    BY <1>1 DEF Event, EventJobState
  <2>3. QED
    BY <1>1, <1>2, <2>1, <2>2 DEF EnqueueEvent, Event
<1>3. CASE StartEvent(e)
  <2> DEFINE event == [events[e] EXCEPT !.state = "running", !.attempts = @ + 1]
  <2>1. events' = [events EXCEPT ![e] = event]
    BY <1>3 DEF StartEvent
  <2>2. event \in Event
    <3>1. events[e].attempts + 1 \in 0..MaxAttempts
      BY <1>1, <1>3 DEF StartEvent, Event
    <3>2. QED
      BY <1>1, <3>1 DEF Event, EventJobState
  <2>3. QED
    BY <1>1, <1>3, <2>1, <2>2 DEF StartEvent, Event
<1>4. CASE ApplyEvent(e)
  <2>1. [events[e] EXCEPT !.state = "applied"] \in Event
    BY <1>1 DEF Event, EventJobState
  <2>2. QED
    BY <1>1, <1>4, <2>1 DEF ApplyEvent, Event
<1>5. CASE MarkProcessed(e)
  <2>1. [events[e] EXCEPT !.state = "done", !.status = "processed"] \in Event
    BY <1>1 DEF Event, EventJobState
  <2>2. QED
    BY <1>1, <1>5, <2>1 DEF MarkProcessed, Event
<1>6. CASE FailEvent(e)
  <2>1. CASE events[e].attempts < MaxAttempts
    <3>1. [events[e] EXCEPT !.state = "queued"] \in Event
      BY <1>1 DEF Event, EventJobState
    <3>2. QED
      BY <1>1, <1>6, <2>1, <3>1 DEF FailEvent, Event
  <2>2. CASE ~(events[e].attempts < MaxAttempts)
    <3>1. PICK s \in {"failed", events[e].status} :
             events' = [events EXCEPT ![e].state = "dead", ![e].status = s]
      BY <1>6, <2>2 DEF FailEvent
    <3>2. [events[e] EXCEPT !.state = "dead", !.status = s] \in Event
      BY <1>1 DEF Event, EventJobState
    <3>3. QED
      BY <1>1, <1>6, <3>1, <3>2 DEF FailEvent, Event
  <2>3. QED
    BY <2>1, <2>2
<1>7. CASE ReplayEvent(e)
  <2> DEFINE event == [events[e] EXCEPT !.status = "pending", !.state = "fresh", !.attempts = 0]
  <2>1. events' = [events EXCEPT ![e] = event]
    BY <1>7 DEF ReplayEvent
  <2>2. event \in Event
    <3>1. 0 \in 0..MaxAttempts
      BY <1>1
    <3>2. QED
      BY <1>1, <3>1 DEF Event, EventJobState
  <2>3. QED
    BY <1>1, <2>1, <2>2 DEF Event
<1>8. QED
  BY <1>2, <1>3, <1>4, <1>5, <1>6, <1>7 DEF Delivery

\* An application changes the status of one row, or of none.
LEMMA ApplyStep ==
  ASSUME TypeOK, RowsExist, NEW e \in EventIds, ApplyEvent(e)
  PROVE  \/ /\ events[e].type = "success"
            /\ \E s \in {withdrawals[events[e].wd].status, "completed"} :
                 withdrawals' = [withdrawals EXCEPT ![events[e].wd].status = s]
            /\ UNCHANGED <<wallet, restored>>
         \/ /\ events[e].type # "success"
            /\ withdrawals[events[e].wd].status \in Failable
            /\ withdrawals' = [withdrawals EXCEPT ![events[e].wd].status = "failed"]
            /\ wallet' = [wallet EXCEPT ![withdrawals[events[e].wd].user] =
                                           @ + withdrawals[events[e].wd].amount]
            /\ restored' = restored \cup {events[e].wd}
         \/ /\ events[e].type # "success"
            /\ withdrawals[events[e].wd].status \notin Failable
            /\ UNCHANGED <<withdrawals, wallet, restored>>
BY DEF ApplyEvent, ApplyTransferSuccess, ApplyTransferFailed

\* What the job does to itself: it has run before, and has an attempt left when it waits.
LEMMA PayoutStep ==
  ASSUME TypeOK, AttemptsLeft, NEW w \in Rows, w \in WdIds, Payout(w)
  PROVE  /\ \E j \in Job : /\ job' = [job EXCEPT ![w] = j]
                           /\ j.state = "queued" => j.attempts < MaxAttempts
         /\ job[w].state # "none"
         /\ UNCHANGED <<wallet, claimed, unqueued, events, restored, crashes>>
<1>1. /\ job \in [WdIds -> Job] /\ job[w].state \in JobState /\ job[w].attempts \in 0..MaxAttempts
      /\ job[w].state = "queued" => job[w].attempts < MaxAttempts
      /\ MaxAttempts \in Nat /\ MaxAttempts > 0
  BY NumberAssumption DEF AttemptsLeft, TypeOK, Job, NumberAssumption
<1>2. UNCHANGED <<wallet, claimed, unqueued, events, restored, crashes>>
  BY DEF Payout, StartJob, InitiateTransfer, RecordProcessing, RecordDebit, FailJob, request
<1>3. ASSUME NEW s \in JobState \ {"queued"}, job' = [job EXCEPT ![w].state = s]
      PROVE  \E j \in Job : /\ job' = [job EXCEPT ![w] = j]
                            /\ j.state = "queued" => j.attempts < MaxAttempts
  <2>1. [job[w] EXCEPT !.state = s] \in Job
    BY <1>1 DEF Job
  <2>2. QED
    BY <1>1, <1>3, <2>1 DEF Job
<1>4. ASSUME job' = Thrown(w)
      PROVE  \E j \in Job : /\ job' = [job EXCEPT ![w] = j]
                            /\ j.state = "queued" => j.attempts < MaxAttempts
  <2>1. Retried(job[w].attempts) \in JobState
    BY DEF Retried, JobState
  <2>2. [job[w] EXCEPT !.state = Retried(job[w].attempts)] \in Job
    BY <1>1, <2>1 DEF Job
  <2>3. Retried(job[w].attempts) = "queued" => job[w].attempts < MaxAttempts
    BY DEF Retried
  <2>4. QED
    BY <1>1, <1>4, <2>2, <2>3 DEF Thrown, Job
<1>5. CASE StartJob(w)
  <2>1. PICK s \in {IF withdrawals[w].status = "pending" THEN "loaded" ELSE "done",
                    Retried(job[w].attempts + 1)} :
          job' = [job EXCEPT ![w] = [state |-> s, attempts |-> @.attempts + 1]]
    BY <1>5 DEF StartJob
  <2>2. job[w].attempts + 1 \in 0..MaxAttempts
    BY <1>1, <1>5 DEF StartJob
  <2>3. s \in JobState /\ (s = "queued" => job[w].attempts + 1 < MaxAttempts)
    BY DEF Retried, JobState
  <2>4. [state |-> s, attempts |-> job[w].attempts + 1] \in Job
    BY <2>2, <2>3 DEF Job
  <2>5. QED
    BY <1>1, <1>2, <1>5, <2>1, <2>3, <2>4 DEF StartJob
<1>6. CASE InitiateTransfer(w)
  BY <1>1, <1>2, <1>3, <1>4, <1>6 DEF InitiateTransfer, JobState
<1>7. CASE RecordProcessing(w)
  BY <1>1, <1>2, <1>3, <1>7 DEF RecordProcessing, JobState
<1>8. CASE RecordDebit(w)
  BY <1>1, <1>2, <1>3, <1>8 DEF RecordDebit, JobState
<1>9. CASE FailJob(w)
  BY <1>1, <1>2, <1>4, <1>9 DEF FailJob
<1>10. QED
  BY <1>5, <1>6, <1>7, <1>8, <1>9 DEF Payout

-----------------------------------------------------------------------------
(* Type correctness.                                                       *)

LEMMA TypeInvInit == Init => TypeInv
<1> SUFFICES ASSUME Init PROVE TypeInv
  OBVIOUS
<1>1. /\ Deposited \in Nat /\ MaxAttempts \in Nat /\ MaxAttempts > 0
      /\ MaxCrashes \in Nat /\ MaxWithdrawals \in Nat
  BY NumberAssumption DEF NumberAssumption
<1>2. withdrawals \in Seq(WithdrawalRow) /\ Len(withdrawals) = 0
  BY EmptySeq DEF Init
<1>3. events \in Seq(Event) /\ Len(events) = 0
  BY EmptySeq DEF Init
<1>4. [state |-> "none", attempts |-> 0] \in Job
  BY <1>1 DEF Job, JobState
<1>5. TypeOK
  BY <1>1, <1>2, <1>3, <1>4 DEF Init, TypeOK
<1>6. RowsExist /\ AttemptsLeft
  BY <1>1, <1>2, <1>3 DEF Init, RowsExist, AttemptsLeft, Rows, EventIds
<1>7. QED
  BY <1>5, <1>6 DEF TypeInv

\* A new row is typed and the last.
LEMMA WithdrawStep ==
  ASSUME TypeInv, NEW u \in Users, NEW key \in Keys, NEW amount \in Amounts,
         Withdraw(u, key, amount)
  PROVE  LET row == [user |-> u, key |-> key, amount |-> amount, status |-> "pending"] IN
         /\ withdrawals' \in Seq(WithdrawalRow)
         /\ Len(withdrawals') = Len(withdrawals) + 1 /\ Len(withdrawals) + 1 \in WdIds
         /\ \A w \in Rows : withdrawals'[w] = withdrawals[w]
         /\ withdrawals'[Len(withdrawals) + 1] = row
         /\ amount \in Nat /\ amount > 0 /\ amount <= wallet[u]
<1> DEFINE row == [user |-> u, key |-> key, amount |-> amount, status |-> "pending"]
<1>1. amount \in Nat \ {0} /\ MaxWithdrawals \in Nat
  BY NumberAssumption DEF NumberAssumption
<1>2. row \in WithdrawalRow
  BY <1>1 DEF WithdrawalRow, Status
<1>3. withdrawals \in Seq(WithdrawalRow) /\ Len(withdrawals) \in Nat
  BY TablesType DEF TypeInv, TypeOK
<1>4. withdrawals' = Append(withdrawals, row) /\ Len(withdrawals) < MaxWithdrawals /\ amount <= wallet[u]
  BY DEF Withdraw
<1> HIDE DEF row
<1>5. /\ withdrawals' \in Seq(WithdrawalRow)
      /\ Len(withdrawals') = Len(withdrawals) + 1
      /\ \A w \in 1..Len(withdrawals) : withdrawals'[w] = withdrawals[w]
      /\ withdrawals'[Len(withdrawals) + 1] = row
  BY <1>2, <1>3, <1>4, AppendProperties
<1>6. QED
  BY <1>1, <1>3, <1>4, <1>5 DEF row, Rows, WdIds

LEMMA TypeInvWithdraw ==
  ASSUME TypeInv, NEW u \in Users, NEW key \in Keys, NEW amount \in Amounts,
         Withdraw(u, key, amount)
  PROVE  TypeInv'
<1> DEFINE n == Len(withdrawals) + 1
<1>1. /\ withdrawals' \in Seq(WithdrawalRow) /\ Len(withdrawals') = n /\ n \in WdIds
      /\ amount \in Nat /\ amount <= wallet[u]
  BY WithdrawStep
<1>2. n \in Nat /\ n <= MaxWithdrawals /\ n \notin Rows /\ Rows' = Rows \cup {n}
  BY <1>1, TablesType, NumberAssumption DEF TypeInv, NumberAssumption, WdIds, Rows
<1>3. /\ claimed' = claimed \cup {<<u, key>>}
      /\ wallet' = [wallet EXCEPT ![u] = @ - amount]
      /\ unqueued' = unqueued \cup {n}
      /\ UNCHANGED <<job, transfers, debits, events, restored, crashes>>
  BY DEF Withdraw
<1>4. wallet' \in [Users -> Nat]
  <2>1. wallet \in [Users -> Nat]
    BY DEF TypeInv, TypeOK
  <2>2. wallet[u] - amount \in Nat
    BY <1>1, <2>1
  <2>3. QED
    BY <1>3, <2>1, <2>2
<1> HIDE DEF n
<1>5. TypeOK'
  BY <1>1, <1>3, <1>4 DEF TypeInv, TypeOK
<1>6. RowsExist'
  BY <1>1, <1>2, <1>3 DEF TypeInv, RowsExist, EventIds
<1>7. AttemptsLeft'
  BY <1>1, <1>2, <1>3 DEF TypeInv, AttemptsLeft, EventIds
<1>8. QED
  BY <1>5, <1>6, <1>7 DEF TypeInv

LEMMA TypeInvEnqueue ==
  ASSUME TypeInv, NEW w \in Rows, Enqueue(w)
  PROVE  TypeInv'
<1>1. /\ w \in unqueued /\ unqueued' = unqueued \ {w} /\ w \in WdIds
      /\ UNCHANGED <<wallet, claimed, withdrawals, transfers, debits, events, restored, crashes>>
  BY DEF Enqueue, request, TypeInv, TypeOK
<1>2. job \in [WdIds -> Job] /\ job[w] = [state |-> "none", attempts |-> 0]
  BY <1>1 DEF TypeInv, TypeOK, AttemptsLeft
<1>3. 0 \in 0..MaxAttempts /\ 0 < MaxAttempts
  BY NumberAssumption DEF NumberAssumption
<1>4. /\ job' \in [WdIds -> Job]
      /\ \A v \in WdIds : v # w => job'[v] = job[v]
      /\ job'[w].state = "queued" => job'[w].attempts < MaxAttempts
  <2>1. [job[w] EXCEPT !.state = "queued"] = [state |-> "queued", attempts |-> 0]
    BY <1>2
  <2>2. [state |-> "queued", attempts |-> 0] \in Job
    BY <1>3 DEF Job, JobState
  <2>3. CASE job' = [job EXCEPT ![w].state = "queued"]
    BY <1>1, <1>2, <1>3, <2>1, <2>2, <2>3
  <2>4. CASE job' = job
    BY <1>2, <2>4
  <2>5. QED
    BY <2>3, <2>4 DEF Enqueue
<1>5. TypeOK'
  BY <1>1, <1>4 DEF TypeInv, TypeOK
<1>6. RowsExist'
  BY <1>1 DEF TypeInv, RowsExist, Rows, EventIds
<1>7. AttemptsLeft'
  BY <1>1, <1>4 DEF TypeInv, AttemptsLeft, Rows, EventIds
<1>8. QED
  BY <1>5, <1>6, <1>7 DEF TypeInv

\* The job of a row changes that row's status to `processing`, or nothing.
LEMMA PayoutRows ==
  ASSUME TypeInv, NEW w \in Rows, Payout(w)
  PROVE  /\ withdrawals' \in Seq(WithdrawalRow)
         /\ Len(withdrawals') = Len(withdrawals)
         /\ \A v \in Rows :
              withdrawals'[v] = withdrawals[v] \/ withdrawals'[v] = [withdrawals[v] EXCEPT !.status = "processing"]
         /\ \/ UNCHANGED transfers
            \/ /\ \A tr \in transfers : tr.reference # <<w, 0>>
               /\ transfers' = transfers \cup {[wd |-> w, reference |-> <<w, 0>>, status |-> "pending"]}
         /\ debits' = debits \cup {w} \/ UNCHANGED debits
<1>1. TypeOK /\ withdrawals \in Seq(WithdrawalRow)
  BY DEF TypeInv, TypeOK
<1>2. /\ UNCHANGED withdrawals \/ withdrawals' = [withdrawals EXCEPT ![w].status = "processing"]
      /\ \/ UNCHANGED transfers
         \/ /\ \A tr \in transfers : tr.reference # <<w, 0>>
            /\ transfers' = transfers \cup {[wd |-> w, reference |-> <<w, 0>>, status |-> "pending"]}
      /\ debits' = debits \cup {w} \/ UNCHANGED debits
  BY DEF Payout, StartJob, InitiateTransfer, RecordProcessing, RecordDebit, FailJob, request, Reference
<1>3. CASE UNCHANGED withdrawals
  BY <1>1, <1>2, <1>3
<1>4. CASE withdrawals' = [withdrawals EXCEPT ![w].status = "processing"]
  <2>1. "processing" \in Status
    BY DEF Status
  <2>2. /\ withdrawals' \in Seq(WithdrawalRow)
        /\ Len(withdrawals') = Len(withdrawals)
        /\ \A v \in Rows : withdrawals'[v] = IF v = w THEN [withdrawals[w] EXCEPT !.status = "processing"]
                                                   ELSE withdrawals[v]
    BY <1>1, <1>4, <2>1, StatusSet
  <2>3. QED
    BY <1>2, <2>2
<1>5. QED
  BY <1>2, <1>3, <1>4

LEMMA TypeInvPayout ==
  ASSUME TypeInv, NEW w \in Rows, Payout(w)
  PROVE  TypeInv'
<1>1. /\ TypeOK /\ AttemptsLeft /\ w \in WdIds
      /\ Len(withdrawals) \in Nat /\ Len(withdrawals) <= MaxWithdrawals /\ MaxWithdrawals \in Nat
  BY TablesType, NumberAssumption DEF TypeInv, RowsExist, Rows, WdIds, NumberAssumption
<1>2. PICK j \in Job : job' = [job EXCEPT ![w] = j] /\ (j.state = "queued" => j.attempts < MaxAttempts)
  BY <1>1, PayoutStep
<1>3. job[w].state # "none" /\ UNCHANGED <<wallet, claimed, unqueued, events, restored, crashes>>
  BY <1>1, PayoutStep
<1>4. /\ withdrawals' \in Seq(WithdrawalRow)
      /\ Len(withdrawals') = Len(withdrawals)
      /\ \/ UNCHANGED transfers
         \/ transfers' = transfers \cup {[wd |-> w, reference |-> <<w, 0>>, status |-> "pending"]}
      /\ debits' = debits \cup {w} \/ UNCHANGED debits
  BY PayoutRows
<1>5. [wd |-> w, reference |-> <<w, 0>>, status |-> "pending"] \in Transfer
  <2>1. 0 \in 0..MaxAttempts
    BY NumberAssumption DEF NumberAssumption
  <2>2. QED
    BY <1>1, <2>1 DEF Transfer, TransferStatus
<1>6. TypeOK'
  BY <1>1, <1>2, <1>3, <1>4, <1>5 DEF TypeOK
<1>7. RowsExist'
  BY <1>1, <1>3, <1>4 DEF TypeInv, RowsExist, Rows, EventIds
<1>8. AttemptsLeft'
  BY <1>1, <1>2, <1>3, <1>4 DEF AttemptsLeft, TypeOK, Rows, EventIds
<1>9. QED
  BY <1>6, <1>7, <1>8 DEF TypeInv

LEMMA TypeInvPaystack ==
  ASSUME TypeInv, NEW tr \in transfers, NEW outcome \in Outcome,
         Settle(tr, outcome) \/ Webhook(tr, outcome)
  PROVE  TypeInv'
<1>1. tr \in Transfer /\ tr.wd \in Rows
  BY DEF TypeInv, TypeOK, RowsExist
<1>2. CASE Settle(tr, outcome)
  <2>1. /\ transfers' = (transfers \ {tr}) \cup {[tr EXCEPT !.status = outcome]}
        /\ UNCHANGED <<wallet, claimed, withdrawals, unqueued, job, debits, events, restored, crashes>>
    BY <1>2 DEF Settle, request
  <2>2. [tr EXCEPT !.status = outcome] \in Transfer /\ [tr EXCEPT !.status = outcome].wd = tr.wd
    BY <1>1 DEF Transfer, Outcome, TransferStatus
  <2>3. TypeOK'
    BY <2>1, <2>2 DEF TypeInv, TypeOK
  <2>4. RowsExist'
    BY <1>1, <2>1, <2>2 DEF TypeInv, RowsExist, Rows, EventIds
  <2>5. AttemptsLeft'
    BY <2>1 DEF TypeInv, AttemptsLeft, Rows, EventIds
  <2>6. QED
    BY <2>3, <2>4, <2>5 DEF TypeInv
<1>3. CASE Webhook(tr, outcome)
  <2> DEFINE event == [type |-> outcome, wd |-> tr.wd, status |-> "pending",
                       state |-> "fresh", attempts |-> 0]
  <2>1. /\ events' = Append(events, event)
        /\ UNCHANGED <<wallet, claimed, withdrawals, unqueued, job, transfers, debits, restored, crashes>>
    BY <1>3 DEF Webhook, request
  <2>2. event \in Event /\ event.wd = tr.wd /\ event.attempts < MaxAttempts
    <3>1. 0 \in 0..MaxAttempts /\ 0 < MaxAttempts
      BY NumberAssumption DEF NumberAssumption
    <3>2. QED
      BY <1>1, <3>1 DEF Event, EventJobState, Transfer
  <2>3. events \in Seq(Event) /\ Len(events) \in Nat
    BY TablesType DEF TypeInv, TypeOK
  <2> HIDE DEF event
  <2>4. /\ events' \in Seq(Event)
        /\ Len(events') = Len(events) + 1
        /\ \A e \in 1..Len(events) : events'[e] = events[e]
        /\ events'[Len(events) + 1] = event
    BY <2>1, <2>2, <2>3, AppendProperties
  <2>5. \A e \in EventIds' : e \in EventIds \/ e = Len(events) + 1
    BY <2>3, <2>4 DEF EventIds
  <2>6. TypeOK'
    BY <2>1, <2>4 DEF TypeInv, TypeOK
  <2>7. RowsExist'
    BY <1>1, <2>1, <2>2, <2>4, <2>5 DEF TypeInv, RowsExist, Rows, EventIds
  <2>8. AttemptsLeft'
    BY <2>1, <2>2, <2>4, <2>5 DEF TypeInv, AttemptsLeft, Rows, EventIds
  <2>9. QED
    BY <2>6, <2>7, <2>8 DEF TypeInv
<1>4. QED
  BY <1>2, <1>3

\* What an event's job does to the other tables: nothing, but for ApplyEvent.
LEMMA EventRows ==
  ASSUME TypeInv, NEW e \in EventIds, Delivery(e) \/ ReplayEvent(e)
  PROVE  /\ UNCHANGED <<claimed, unqueued, job, transfers, debits, crashes>>
         /\ \/ UNCHANGED <<wallet, withdrawals, restored>>
            \/ ApplyEvent(e)
BY DEF Delivery, EnqueueEvent, StartEvent, MarkProcessed, FailEvent, ReplayEvent, ApplyEvent, request

LEMMA ApplyType ==
  ASSUME TypeInv, NEW e \in EventIds, ApplyEvent(e)
  PROVE  /\ wallet' \in [Users -> Nat]
         /\ withdrawals' \in Seq(WithdrawalRow)
         /\ Len(withdrawals') = Len(withdrawals)
         /\ restored' \subseteq WdIds
<1> DEFINE w == events[e].wd
<1>1. /\ TypeOK /\ RowsExist /\ w \in Rows /\ w \in WdIds
      /\ withdrawals[w] \in WithdrawalRow /\ withdrawals \in Seq(WithdrawalRow)
      /\ wallet \in [Users -> Nat] /\ restored \subseteq WdIds
  BY TablesType DEF TypeInv, TypeOK, RowsExist, Event
<1>2. withdrawals[w].status \in Status /\ withdrawals[w].amount \in Nat /\ withdrawals[w].user \in Users
  BY <1>1 DEF WithdrawalRow
<1>3. ASSUME NEW s \in Status, withdrawals' = [withdrawals EXCEPT ![w].status = s]
      PROVE  withdrawals' \in Seq(WithdrawalRow) /\ Len(withdrawals') = Len(withdrawals)
  <2> HIDE DEF w
  <2>1. QED
    BY <1>1, <1>3, StatusSet
<1>4. CASE /\ \E s \in {withdrawals[w].status, "completed"} : withdrawals' = [withdrawals EXCEPT ![w].status = s]
           /\ UNCHANGED <<wallet, restored>>
  <2>1. "completed" \in Status
    BY DEF Status
  <2>2. QED
    BY <1>1, <1>2, <1>3, <1>4, <2>1
<1>5. CASE /\ withdrawals' = [withdrawals EXCEPT ![w].status = "failed"]
           /\ wallet' = [wallet EXCEPT ![withdrawals[w].user] = @ + withdrawals[w].amount]
           /\ restored' = restored \cup {w}
  <2>1. "failed" \in Status
    BY DEF Status
  <2>2. wallet' \in [Users -> Nat]
    BY <1>1, <1>2, <1>5
  <2>3. QED
    BY <1>1, <1>3, <1>5, <2>1, <2>2
<1>6. CASE UNCHANGED <<withdrawals, wallet, restored>>
  BY <1>1, <1>6
<1>7. QED
  BY <1>1, <1>4, <1>5, <1>6, ApplyStep

LEMMA TypeInvEvent ==
  ASSUME TypeInv, NEW e \in EventIds, Delivery(e) \/ ReplayEvent(e)
  PROVE  TypeInv'
<1>1. TypeOK /\ RowsExist /\ AttemptsLeft
  BY DEF TypeInv
<1>2. PICK event \in Event :
        /\ events' = [events EXCEPT ![e] = event]
        /\ event.wd = events[e].wd
        /\ event.state \in {"fresh", "queued"} => event.attempts < MaxAttempts
  BY <1>1, EventStep
<1>3. /\ events' \in Seq(Event)
      /\ Len(events') = Len(events)
      /\ \A d \in EventIds : events'[d] = IF d = e THEN event ELSE events[d]
  BY <1>1, <1>2, EventSet
<1>4. /\ UNCHANGED <<claimed, unqueued, job, transfers, debits, crashes>>
      /\ wallet' \in [Users -> Nat]
      /\ withdrawals' \in Seq(WithdrawalRow)
      /\ Len(withdrawals') = Len(withdrawals)
      /\ restored' \subseteq WdIds
  BY <1>1, EventRows, ApplyType DEF TypeOK
<1>5. TypeOK'
  BY <1>1, <1>3, <1>4 DEF TypeOK
<1>6. RowsExist'
  BY <1>1, <1>2, <1>3, <1>4 DEF RowsExist, Rows, EventIds
<1>7. AttemptsLeft'
  BY <1>1, <1>2, <1>3, <1>4 DEF AttemptsLeft, Rows, EventIds
<1>8. QED
  BY <1>5, <1>6, <1>7 DEF TypeInv

\* A restart drops what ran: jobs and events keep what they are about.
LEMMA CrashStep ==
  ASSUME TypeInv, Crash
  PROVE  /\ job' \in [WdIds -> Job]
         /\ \A w \in WdIds : job'[w] = job[w] \/ (job[w].state # "none" /\ job'[w].state = "none")
         /\ events' \in Seq(Event) /\ Len(events') = Len(events)
         /\ \A e \in EventIds : events'[e] = events[e] \/ events'[e] = [events[e] EXCEPT !.state = "none"]
<1>1. job \in [WdIds -> Job] /\ Len(events) \in Nat /\ \A e \in EventIds : events[e] \in Event
  BY TablesType DEF TypeInv, TypeOK
<1>2. \A w \in WdIds : /\ job'[w] = job[w] \/ (job[w].state # "none" /\ job'[w] = [job[w] EXCEPT !.state = "none"])
  BY DEF Crash
<1>3. \A w \in WdIds : [job[w] EXCEPT !.state = "none"] \in Job /\ [job[w] EXCEPT !.state = "none"].state = "none"
  BY <1>1 DEF Job, JobState
<1>4. job' \in [WdIds -> Job]
  <2>1. \A w \in WdIds : job'[w] \in Job
    BY <1>1, <1>2, <1>3
  <2>2. job' = [w \in WdIds |-> job'[w]]
    BY DEF Crash
  <2>3. QED
    BY <2>1, <2>2
<1>5. \A e \in EventIds : events'[e] = events[e] \/ events'[e] = [events[e] EXCEPT !.state = "none"]
  BY DEF Crash
<1>6. \A e \in EventIds : [events[e] EXCEPT !.state = "none"] \in Event
  BY <1>1 DEF Event, EventJobState
<1>7. events' \in Seq(Event) /\ Len(events') = Len(events)
  <2>1. events' = [e \in 1..Len(events) |-> events'[e]]
    BY DEF Crash, EventIds
  <2>2. \A e \in 1..Len(events) : events'[e] \in Event
    BY <1>1, <1>5, <1>6 DEF EventIds
  <2>3. events' \in [1..Len(events) -> Event]
    BY <2>1, <2>2
  <2>4. QED
    BY <1>1, <2>3, SeqDef, LenProperties
<1>8. QED
  BY <1>2, <1>3, <1>4, <1>5, <1>7

LEMMA TypeInvCrash ==
  ASSUME TypeInv, Crash
  PROVE  TypeInv'
<1>1. /\ crashes < MaxCrashes /\ crashes' = crashes + 1 /\ unqueued' = {}
      /\ UNCHANGED <<wallet, claimed, withdrawals, transfers, debits, restored>>
  BY DEF Crash, request
<1>2. crashes' \in 0..MaxCrashes
  BY <1>1, NumberAssumption DEF TypeInv, TypeOK, NumberAssumption
<1>3. TypeOK'
  BY <1>1, <1>2, CrashStep DEF TypeInv, TypeOK
<1>4. \A e \in EventIds : /\ events'[e].wd = events[e].wd
                          /\ events'[e].state \in {"fresh", "queued"} => events'[e] = events[e]
  BY CrashStep, TablesType DEF TypeInv, Event
<1>5. RowsExist'
  BY <1>1, <1>4, CrashStep DEF TypeInv, RowsExist, Rows, EventIds
<1>6. AttemptsLeft'
  <2>1. \A w \in WdIds : /\ job'[w].state = "queued" => job'[w] = job[w]
                         /\ job[w].state = "none" => job'[w] = job[w]
    BY CrashStep
  <2>2. QED
    BY <1>1, <1>4, <2>1, CrashStep DEF TypeInv, AttemptsLeft, Rows, EventIds
<1>7. QED
  BY <1>3, <1>5, <1>6 DEF TypeInv

LEMMA TypeInvNext == TypeInv /\ [Next]_vars => TypeInv'
<1> SUFFICES ASSUME TypeInv, [Next]_vars PROVE TypeInv'
  OBVIOUS
<1>1. CASE Request
  BY <1>1, TypeInvWithdraw, TypeInvEnqueue DEF Request
<1>2. CASE \E w \in Rows : Payout(w)
  BY <1>2, TypeInvPayout
<1>3. CASE Paystack
  BY <1>3, TypeInvPaystack DEF Paystack
<1>4. CASE \E e \in EventIds : Delivery(e) \/ ReplayEvent(e)
  BY <1>4, TypeInvEvent
<1>5. CASE Crash
  BY <1>5, TypeInvCrash
<1>6. CASE UNCHANGED vars
  BY <1>6 DEF vars, request, TypeInv, TypeOK, RowsExist, AttemptsLeft, Rows, EventIds
<1>7. QED
  BY <1>1, <1>2, <1>3, <1>4, <1>5, <1>6 DEF Next

\* The tables have the types of their columns in every reachable state: no balance is below zero.
THEOREM TypeCorrect == Spec => []TypeOK
<1>1. TypeInv => TypeOK
  BY DEF TypeInv
<1>2. QED
  BY <1>1, TypeInvInit, TypeInvNext, PTL DEF Spec

-----------------------------------------------------------------------------
(* Keys.                                                                   *)

\* After the request, nobody changes whose a withdrawal is, nor what it comes to.
LEMMA RowsKept ==
  ASSUME TypeInv, [Next]_vars,
         ~ \E u \in Users, key \in Keys, amount \in Amounts : Withdraw(u, key, amount)
  PROVE  /\ Len(withdrawals') = Len(withdrawals) /\ claimed' = claimed
         /\ \A w \in Rows : \E s \in Status : withdrawals'[w] = [withdrawals[w] EXCEPT !.status = s]
<1>1. TypeOK /\ RowsExist /\ \A w \in Rows : withdrawals[w] \in WithdrawalRow
  BY TablesType DEF TypeInv
<1>2. ASSUME UNCHANGED withdrawals
      PROVE  \A w \in Rows : \E s \in Status : withdrawals'[w] = [withdrawals[w] EXCEPT !.status = s]
  <2>1. \A w \in Rows : /\ withdrawals[w].status \in Status
                        /\ withdrawals[w] = [withdrawals[w] EXCEPT !.status = withdrawals[w].status]
    BY <1>1 DEF WithdrawalRow
  <2>2. QED
    BY <1>2, <2>1
<1>3. CASE \E w \in Rows : Enqueue(w)
  BY <1>2, <1>3 DEF Enqueue, request
<1>4. CASE \E w \in Rows : Payout(w)
  <2>1. PICK w \in Rows : Payout(w)
    BY <1>4
  <2>2. claimed' = claimed
    BY <2>1 DEF Payout, StartJob, InitiateTransfer, RecordProcessing, RecordDebit, FailJob, request
  <2>3. \A v \in Rows : \E s \in Status : withdrawals'[v] = [withdrawals[v] EXCEPT !.status = s]
    <3>1. \A v \in Rows : withdrawals[v].status \in Status /\ "processing" \in Status
                          /\ withdrawals[v] = [withdrawals[v] EXCEPT !.status = withdrawals[v].status]
      BY <1>1 DEF WithdrawalRow, Status
    <3>2. QED
      BY <2>1, <3>1, PayoutRows
  <2>4. QED
    BY <2>1, <2>2, <2>3, PayoutRows
<1>5. CASE Paystack
  BY <1>2, <1>5 DEF Paystack, Settle, Webhook, request
<1>6. CASE \E e \in EventIds : Delivery(e) \/ ReplayEvent(e)
  <2>1. PICK e \in EventIds : Delivery(e) \/ ReplayEvent(e)
    BY <1>6
  <2>2. claimed' = claimed
    BY <2>1, EventRows
  <2>3. CASE ApplyEvent(e)
    <3> DEFINE w == events[e].wd
    <3>1. w \in Rows
      BY <1>1 DEF RowsExist
    <3>2. UNCHANGED withdrawals \/ \E s \in Status : withdrawals' = [withdrawals EXCEPT ![w].status = s]
      <4>1. withdrawals[w].status \in Status /\ "completed" \in Status /\ "failed" \in Status
        BY <1>1, <3>1 DEF WithdrawalRow, Status
      <4>2. QED
        BY <1>1, <2>3, <4>1, ApplyStep
    <3> HIDE DEF w
    <3>3. CASE UNCHANGED withdrawals
      BY <1>2, <2>2, <3>3
    <3>4. ASSUME NEW s \in Status, withdrawals' = [withdrawals EXCEPT ![w].status = s]
          PROVE  /\ Len(withdrawals') = Len(withdrawals)
                 /\ \A v \in Rows : \E r \in Status : withdrawals'[v] = [withdrawals[v] EXCEPT !.status = r]
      <4>1. \A v \in Rows : withdrawals[v].status \in Status
                            /\ withdrawals[v] = [withdrawals[v] EXCEPT !.status = withdrawals[v].status]
        BY <1>1 DEF WithdrawalRow
      <4>2. /\ Len(withdrawals') = Len(withdrawals)
            /\ \A v \in Rows :
                 withdrawals'[v] = IF v = w THEN [withdrawals[w] EXCEPT !.status = s] ELSE withdrawals[v]
        BY <1>1, <3>1, <3>4, StatusSet
      <4>3. QED
        BY <4>1, <4>2
    <3>5. QED
      BY <2>2, <3>2, <3>3, <3>4
  <2>4. CASE UNCHANGED withdrawals
    BY <1>2, <2>2, <2>4
  <2>5. QED
    BY <2>1, <2>3, <2>4, EventRows
<1>7. CASE Crash
  BY <1>2, <1>7 DEF Crash, request
<1>8. CASE UNCHANGED vars
  BY <1>2, <1>8 DEF vars, request
<1>9. QED
  BY <1>3, <1>4, <1>5, <1>6, <1>7, <1>8 DEF Next, Request

LEMMA KeyInvInit == Init => KeyInv
<1> SUFFICES ASSUME Init PROVE KeyInv
  OBVIOUS
<1>1. Rows = {}
  BY EmptySeq DEF Init, Rows
<1>2. QED
  BY <1>1 DEF KeyInv, KeysAreClaimed, OncePerKey

LEMMA KeyInvNext == TypeInv /\ KeyInv /\ [Next]_vars => KeyInv'
<1> SUFFICES ASSUME TypeInv, KeyInv, [Next]_vars PROVE KeyInv'
  OBVIOUS
<1>1. ASSUME NEW u \in Users, NEW key \in Keys, NEW amount \in Amounts, Withdraw(u, key, amount)
      PROVE  KeyInv'
  <2> DEFINE n == Len(withdrawals) + 1
  <2>1. /\ \A w \in Rows : withdrawals'[w] = withdrawals[w]
        /\ withdrawals'[n].user = u /\ withdrawals'[n].key = key
        /\ Len(withdrawals') = n
    <3>1. /\ \A w \in Rows : withdrawals'[w] = withdrawals[w]
          /\ withdrawals'[n] = [user |-> u, key |-> key, amount |-> amount, status |-> "pending"]
          /\ Len(withdrawals') = n
      BY <1>1, WithdrawStep
    <3>2. QED
      BY <3>1
  <2>2. Rows' = Rows \cup {n}
    BY <2>1, TablesType DEF TypeInv, Rows
  <2>3. <<u, key>> \notin claimed /\ claimed' = claimed \cup {<<u, key>>}
    BY <1>1 DEF Withdraw
  <2> HIDE DEF n
  <2>4. KeysAreClaimed'
    BY <2>1, <2>2, <2>3 DEF KeyInv, KeysAreClaimed
  <2>5. OncePerKey'
    BY <2>1, <2>2, <2>3 DEF KeyInv, KeysAreClaimed, OncePerKey
  <2>6. QED
    BY <2>4, <2>5 DEF KeyInv
<1>2. ASSUME ~ \E u \in Users, key \in Keys, amount \in Amounts : Withdraw(u, key, amount)
      PROVE  KeyInv'
  <2>1. Rows' = Rows /\ claimed' = claimed
    BY <1>2, RowsKept DEF Rows
  <2>2. \A w \in Rows : withdrawals'[w].user = withdrawals[w].user /\ withdrawals'[w].key = withdrawals[w].key
    BY <1>2, RowsKept, TablesType DEF TypeInv, WithdrawalRow
  <2>3. QED
    BY <2>1, <2>2 DEF KeyInv, KeysAreClaimed, OncePerKey
<1>3. QED
  BY <1>1, <1>2

-----------------------------------------------------------------------------
(* What is paid, and what is restored.                                     *)

LEMMA PayInvInit == Init => PayInv
<1> SUFFICES ASSUME Init PROVE PayInv
  OBVIOUS
<1>1. Rows = {} /\ EventIds = {} /\ transfers = {} /\ restored = {}
  BY EmptySeq DEF Init, Rows, EventIds
<1>2. QED
  BY <1>1 DEF PayInv, OneTransfer, EventsAreTrue, StatusesAreEarned, RestoredAreOver,
              AppliedFailuresAreRestored

LEMMA PayInvWithdraw ==
  ASSUME TypeInv, PayInv, NEW u \in Users, NEW key \in Keys, NEW amount \in Amounts,
         Withdraw(u, key, amount)
  PROVE  PayInv'
<1> DEFINE n == Len(withdrawals) + 1
<1>1. /\ \A w \in Rows : withdrawals'[w] = withdrawals[w]
      /\ withdrawals'[n] = [user |-> u, key |-> key, amount |-> amount, status |-> "pending"]
      /\ Len(withdrawals') = n
  BY WithdrawStep
<1>2. Rows' = Rows \cup {n} /\ withdrawals'[n].status = "pending"
  BY <1>1, TablesType DEF TypeInv, Rows
<1>3. UNCHANGED <<transfers, events, restored>>
  BY DEF Withdraw
<1> HIDE DEF n
<1>4. (OneTransfer /\ EventsAreTrue /\ RestoredAreOver /\ AppliedFailuresAreRestored)'
  BY <1>3 DEF PayInv, OneTransfer, EventsAreTrue, RestoredAreOver, AppliedFailuresAreRestored, EventIds, Came
<1>5. StatusesAreEarned'
  BY <1>1, <1>2, <1>3 DEF PayInv, StatusesAreEarned, Came
<1>6. QED
  BY <1>4, <1>5 DEF PayInv

LEMMA PayInvPayout ==
  ASSUME TypeInv, PayInv, NEW w \in Rows, Payout(w)
  PROVE  PayInv'
<1>1. TypeOK /\ AttemptsLeft /\ w \in WdIds
  BY TablesType, NumberAssumption DEF TypeInv, RowsExist, Rows, WdIds, NumberAssumption
<1>2. UNCHANGED <<events, restored>>
  BY <1>1, PayoutStep
<1>3. /\ Rows' = Rows
      /\ \A v \in Rows : withdrawals'[v].status \in {withdrawals[v].status, "processing"}
  BY PayoutRows, TablesType DEF TypeInv, WithdrawalRow, Rows
<1>4. OneTransfer' /\ transfers \subseteq transfers'
  <2>1. OneTransfer
    BY DEF PayInv
  <2>2. CASE UNCHANGED transfers
    BY <2>1, <2>2 DEF OneTransfer
  <2>3. CASE /\ \A tr \in transfers : tr.reference # <<w, 0>>
             /\ transfers' = transfers \cup {[wd |-> w, reference |-> <<w, 0>>, status |-> "pending"]}
    BY <2>1, <2>3 DEF OneTransfer
  <2>4. QED
    BY <2>2, <2>3, PayoutRows
<1>5. EventsAreTrue'
  BY <1>2, <1>4 DEF PayInv, EventsAreTrue, EventIds, Came
<1>6. StatusesAreEarned'
  <2>1. \A v \in Rows' :
          /\ withdrawals'[v].status = "failed" => withdrawals[v].status = "failed"
          /\ withdrawals'[v].status = "completed" => withdrawals[v].status = "completed"
    BY <1>3
  <2>2. QED
    BY <1>2, <1>3, <1>4, <2>1 DEF PayInv, StatusesAreEarned, Came
<1>7. (RestoredAreOver /\ AppliedFailuresAreRestored)'
  BY <1>2, <1>4 DEF PayInv, RestoredAreOver, AppliedFailuresAreRestored, EventIds
<1>8. QED
  BY <1>4, <1>5, <1>6, <1>7 DEF PayInv

\* A transfer that is settled keeps what it came to before.
LEMMA PayInvSettle ==
  ASSUME TypeInv, PayInv, NEW tr \in transfers, NEW outcome \in Outcome, Settle(tr, outcome)
  PROVE  PayInv'
<1> DEFINE new == [tr EXCEPT !.status = outcome]
<1>1. /\ transfers' = (transfers \ {tr}) \cup {new}
      /\ UNCHANGED <<withdrawals, events, restored>>
      /\ \/ tr.status = "pending" /\ outcome \in {"success", "failed"}
         \/ tr.status = "success" /\ outcome = "reversed"
  BY DEF Settle, request
<1>2. /\ new.wd = tr.wd /\ new.reference = tr.reference /\ new.status = outcome
      /\ \A o \in Outcome : Came(tr, o) => Came(new, o)
      /\ tr.status \notin {"failed", "reversed"}
  BY <1>1 DEF TypeInv, TypeOK, Transfer, Came, Outcome
<1>3. new \in transfers' /\ \A t \in transfers : t # tr => t \in transfers'
  BY <1>1
<1> HIDE DEF new
<1>4. OneTransfer'
  BY <1>1, <1>2 DEF PayInv, OneTransfer
<1>5. ASSUME NEW w, NEW o \in Outcome, \E t \in transfers : t.wd = w /\ Came(t, o)
      PROVE  \E t \in transfers' : t.wd = w /\ Came(t, o)
  BY <1>2, <1>3, <1>5
<1>6. EventsAreTrue'
  <2>1. \A e \in EventIds : events[e].type \in Outcome
    BY TablesType DEF TypeInv, Event
  <2>2. \A e \in EventIds : \E t \in transfers' : t.wd = events[e].wd /\ Came(t, events[e].type)
    BY <1>5, <2>1 DEF PayInv, EventsAreTrue
  <2>3. QED
    BY <1>1, <2>2 DEF EventsAreTrue, EventIds, Came
<1>7. StatusesAreEarned'
  <2>1. \A w \in Rows : withdrawals[w].status = "completed" =>
          \E t \in transfers' : t.wd = w /\ Came(t, "success")
    BY <1>5 DEF PayInv, StatusesAreEarned, Outcome, TransferStatus
  <2>2. QED
    BY <1>1, <2>1 DEF PayInv, StatusesAreEarned, Rows, Came
<1>8. (RestoredAreOver /\ AppliedFailuresAreRestored)'
  BY <1>1, <1>2, <1>3 DEF PayInv, RestoredAreOver, AppliedFailuresAreRestored, EventIds
<1>9. QED
  BY <1>4, <1>6, <1>7, <1>8 DEF PayInv

LEMMA PayInvWebhook ==
  ASSUME TypeInv, PayInv, NEW tr \in transfers, NEW outcome \in Outcome, Webhook(tr, outcome)
  PROVE  PayInv'
<1> DEFINE event == [type |-> outcome, wd |-> tr.wd, status |-> "pending",
                     state |-> "fresh", attempts |-> 0]
           n     == Len(events) + 1
<1>1. /\ events' = Append(events, event) /\ Came(tr, outcome)
      /\ UNCHANGED <<withdrawals, transfers, restored>>
  BY DEF Webhook, request, Came
<1>2. event.type = outcome /\ event.wd = tr.wd /\ event.status = "pending" /\ event.state = "fresh"
  OBVIOUS
<1>3. event \in Event
  <2>1. 0 \in 0..MaxAttempts
    BY NumberAssumption DEF NumberAssumption
  <2>2. QED
    BY <2>1 DEF TypeInv, TypeOK, Event, EventJobState, Transfer
<1>4. events \in Seq(Event) /\ Len(events) \in Nat
  BY TablesType DEF TypeInv, TypeOK
<1> HIDE DEF event
<1>5. /\ Len(events') = n
      /\ \A e \in 1..Len(events) : events'[e] = events[e]
      /\ events'[n] = event
  BY <1>1, <1>3, <1>4, AppendProperties
<1>6. \A e \in EventIds' : (e \in EventIds /\ events'[e] = events[e]) \/ (e = n /\ events'[e] = event)
  BY <1>4, <1>5 DEF EventIds
<1> HIDE DEF n
<1>7. (OneTransfer /\ StatusesAreEarned /\ RestoredAreOver)'
  BY <1>1 DEF PayInv, OneTransfer, StatusesAreEarned, RestoredAreOver, Rows, Came
<1>8. EventsAreTrue'
  BY <1>1, <1>2, <1>6 DEF PayInv, EventsAreTrue, Came
<1>9. AppliedFailuresAreRestored'
  BY <1>1, <1>2, <1>6 DEF PayInv, AppliedFailuresAreRestored
<1>10. QED
  BY <1>7, <1>8, <1>9 DEF PayInv

\* What one event's job may do to that event, the others and the restored withdrawals.
LEMMA EventFacts ==
  ASSUME TypeInv, NEW e \in EventIds, Delivery(e) \/ ReplayEvent(e)
  PROVE  /\ EventIds' = EventIds
         /\ \A d \in EventIds : events'[d].type = events[d].type /\ events'[d].wd = events[d].wd
         /\ \A d \in EventIds : events'[d].state = "applied" =>
              events[d].state = "applied" \/ (d = e /\ ApplyEvent(e))
         /\ \A d \in EventIds : events'[d].status = "processed" =>
              events[d].state = "applied" \/ events[d].status = "processed"
<1>1. TypeOK /\ AttemptsLeft
  BY DEF TypeInv
<1>2. PICK event \in Event :
        /\ events' = [events EXCEPT ![e] = event]
        /\ event.type = events[e].type /\ event.wd = events[e].wd
        /\ event.state = "applied" => ApplyEvent(e)
        /\ event.status = "processed" =>
             events[e].state = "applied" \/ events[e].status = "processed"
  BY <1>1, EventStep
<1>3. /\ Len(events') = Len(events)
      /\ \A d \in EventIds : events'[d] = IF d = e THEN event ELSE events[d]
  BY <1>1, <1>2, EventSet
<1>4. QED
  BY <1>2, <1>3 DEF EventIds

\* A failure that is applied restores the withdrawal, unless it was restored: it can not
\* have been completed.
LEMMA PayInvApply ==
  ASSUME TypeInv, PayInv, NEW e \in EventIds, ApplyEvent(e)
  PROVE  PayInv'
<1> DEFINE w == events[e].wd
<1>1. /\ TypeOK /\ RowsExist /\ w \in Rows
      /\ withdrawals[w] \in WithdrawalRow
      /\ events[e].type \in Outcome
  BY TablesType DEF TypeInv, RowsExist, Event
<1>2. /\ UNCHANGED transfers
      /\ EventIds' = EventIds
      /\ \A d \in EventIds : events'[d].type = events[d].type /\ events'[d].wd = events[d].wd
      /\ \A d \in EventIds : events'[d].state = "applied" => events[d].state = "applied" \/ d = e
      /\ \A d \in EventIds : events'[d].status = "processed" =>
           events[d].state = "applied" \/ events[d].status = "processed"
  BY EventRows, EventFacts DEF Delivery
<1>3. PICK tr \in transfers : tr.wd = w /\ Came(tr, events[e].type)
  BY DEF PayInv, EventsAreTrue
<1>4. OneTransfer' /\ EventsAreTrue'
  BY <1>2 DEF PayInv, OneTransfer, EventsAreTrue, Came
<1>5. CASE /\ events[e].type = "success"
           /\ \E s \in {withdrawals[w].status, "completed"} :
                withdrawals' = [withdrawals EXCEPT ![w].status = s]
           /\ UNCHANGED <<wallet, restored>>
  <2>1. PICK s \in {withdrawals[w].status, "completed"} :
          withdrawals' = [withdrawals EXCEPT ![w].status = s]
    BY <1>5
  <2>2. s \in Status
    BY <1>1 DEF WithdrawalRow, Status
  <2> HIDE DEF w
  <2>3. /\ Len(withdrawals') = Len(withdrawals)
        /\ \A v \in Rows :
             withdrawals'[v] = IF v = w THEN [withdrawals[w] EXCEPT !.status = s] ELSE withdrawals[v]
    BY <1>1, <2>1, <2>2, StatusSet
  <2>4. /\ Rows' = Rows
        /\ \A v \in Rows : /\ v # w => withdrawals'[v].status = withdrawals[v].status
                           /\ v = w => withdrawals'[v].status = s
    BY <1>1, <2>3 DEF Rows, WithdrawalRow
  <2>5. StatusesAreEarned'
    BY <1>2, <1>3, <1>5, <2>4 DEF PayInv, StatusesAreEarned, Came
  <2>6. RestoredAreOver'
    BY <1>2, <1>5 DEF PayInv, RestoredAreOver
  <2>7. AppliedFailuresAreRestored'
    BY <1>2, <1>5 DEF PayInv, AppliedFailuresAreRestored
  <2>8. QED
    BY <1>4, <2>5, <2>6, <2>7 DEF PayInv
<1>6. CASE /\ events[e].type # "success"
           /\ withdrawals' = [withdrawals EXCEPT ![w].status = "failed"]
           /\ restored' = restored \cup {w}
  <2>1. "failed" \in Status
    BY DEF Status
  <2>2. w \in Rows /\ w = events[e].wd
    BY <1>1
  <2> HIDE DEF w
  <2>3. /\ Len(withdrawals') = Len(withdrawals)
        /\ \A v \in Rows :
             withdrawals'[v] = IF v = w THEN [withdrawals[w] EXCEPT !.status = "failed"] ELSE withdrawals[v]
    BY <1>1, <1>6, <2>1, StatusSet
  <2>4. /\ Rows' = Rows
        /\ \A v \in Rows : v # w => withdrawals'[v].status = withdrawals[v].status
        /\ withdrawals'[w].status = "failed"
    BY <1>1, <2>3 DEF Rows, WithdrawalRow
  <2>5. StatusesAreEarned'
    BY <1>2, <1>6, <2>4 DEF PayInv, StatusesAreEarned, Came
  <2>6. tr.status \in {"failed", "reversed"}
    BY <1>1, <1>3, <1>6 DEF Came, Outcome, TransferStatus
  <2>7. RestoredAreOver'
    BY <1>2, <1>3, <1>6, <2>6 DEF PayInv, RestoredAreOver
  <2>8. AppliedFailuresAreRestored'
    BY <1>2, <1>6, <2>2 DEF PayInv, AppliedFailuresAreRestored
  <2>9. QED
    BY <1>4, <2>5, <2>7, <2>8 DEF PayInv
<1>7. CASE /\ events[e].type # "success"
           /\ withdrawals[w].status \notin Failable
           /\ UNCHANGED <<withdrawals, wallet, restored>>
  <2>1. (StatusesAreEarned /\ RestoredAreOver)'
    BY <1>2, <1>7 DEF PayInv, StatusesAreEarned, RestoredAreOver, Rows, Came
  <2>2. events[e].type = "failed" => w \in restored
    <3> HAVE events[e].type = "failed"
    <3>1. tr.status = "failed"
      BY <1>3 DEF Came
    <3>2. withdrawals[w].status \in {"completed", "failed"}
      BY <1>1, <1>7 DEF WithdrawalRow, Status, Failable
    <3>3. withdrawals[w].status # "completed"
      BY <1>1, <1>3, <3>1 DEF PayInv, OneTransfer, StatusesAreEarned, Came
    <3>4. QED
      BY <1>1, <3>2, <3>3 DEF PayInv, StatusesAreEarned
  <2>3. AppliedFailuresAreRestored'
    BY <1>2, <1>7, <2>2 DEF PayInv, AppliedFailuresAreRestored
  <2>4. QED
    BY <1>4, <2>1, <2>3 DEF PayInv
<1>8. QED
  BY <1>1, <1>5, <1>6, <1>7, ApplyStep

LEMMA PayInvEvent ==
  ASSUME TypeInv, PayInv, NEW e \in EventIds, Delivery(e) \/ ReplayEvent(e)
  PROVE  PayInv'
<1>1. CASE ApplyEvent(e)
  BY <1>1, PayInvApply
<1>2. CASE ~ApplyEvent(e)
  <2>1. UNCHANGED <<withdrawals, restored, transfers>>
    BY <1>2, EventRows
  <2>2. /\ EventIds' = EventIds
        /\ \A d \in EventIds : events'[d].type = events[d].type /\ events'[d].wd = events[d].wd
        /\ \A d \in EventIds : events'[d].state = "applied" => events[d].state = "applied"
        /\ \A d \in EventIds : events'[d].status = "processed" =>
             events[d].state = "applied" \/ events[d].status = "processed"
    BY <1>2, EventFacts
  <2>3. (OneTransfer /\ StatusesAreEarned /\ RestoredAreOver)'
    BY <2>1 DEF PayInv, OneTransfer, StatusesAreEarned, RestoredAreOver, Rows, Came
  <2>4. (EventsAreTrue /\ AppliedFailuresAreRestored)'
    BY <2>1, <2>2 DEF PayInv, EventsAreTrue, AppliedFailuresAreRestored, Came
  <2>5. QED
    BY <2>3, <2>4 DEF PayInv
<1>3. QED
  BY <1>1, <1>2

LEMMA PayInvNext == TypeInv /\ PayInv /\ [Next]_vars => PayInv'
<1> SUFFICES ASSUME TypeInv, PayInv, [Next]_vars PROVE PayInv'
  OBVIOUS
<1>1. ASSUME UNCHANGED <<withdrawals, transfers, events, restored>>
      PROVE  PayInv'
  BY <1>1 DEF PayInv, OneTransfer, EventsAreTrue, StatusesAreEarned, RestoredAreOver,
              AppliedFailuresAreRestored, Rows, EventIds, Came
<1>2. CASE Request
  BY <1>1, <1>2, PayInvWithdraw DEF Request, Enqueue, request
<1>3. CASE \E w \in Rows : Payout(w)
  BY <1>3, PayInvPayout
<1>4. CASE Paystack
  BY <1>4, PayInvSettle, PayInvWebhook DEF Paystack
<1>5. CASE \E e \in EventIds : Delivery(e) \/ ReplayEvent(e)
  BY <1>5, PayInvEvent
<1>6. CASE Crash
  <2>1. UNCHANGED <<withdrawals, transfers, restored>>
    BY <1>6 DEF Crash, request
  <2>2. /\ EventIds' = EventIds
        /\ \A e \in EventIds : /\ events'[e].type = events[e].type /\ events'[e].wd = events[e].wd
                               /\ events'[e].status = events[e].status
                               /\ events'[e].state \in {events[e].state, "none"}
    BY <1>6, CrashStep, TablesType DEF TypeInv, Event, EventIds
  <2>3. (OneTransfer /\ StatusesAreEarned /\ RestoredAreOver)'
    BY <2>1 DEF PayInv, OneTransfer, StatusesAreEarned, RestoredAreOver, Rows, Came
  <2>4. EventsAreTrue'
    BY <2>1, <2>2 DEF PayInv, EventsAreTrue, Came
  <2>5. AppliedFailuresAreRestored'
    BY <2>1, <2>2 DEF PayInv, AppliedFailuresAreRestored
  <2>6. QED
    BY <2>3, <2>4, <2>5 DEF PayInv
<1>7. CASE UNCHANGED vars
  BY <1>1, <1>7 DEF vars, request
<1>8. QED
  BY <1>2, <1>3, <1>4, <1>5, <1>6, <1>7 DEF Next

-----------------------------------------------------------------------------
(* What a user is out.                                                     *)

\* The part of a row in Committed(u).
PartOf(u, row) == IF row.user = u /\ row.status # "failed" THEN row.amount ELSE 0

LEMMA PartType ==
  ASSUME TypeOK, NEW u, NEW w \in Rows
  PROVE  PartOf(u, withdrawals[w]) \in Nat
BY TablesType DEF PartOf, WithdrawalRow

LEMMA CommittedIsParts ==
  ASSUME TypeOK, NEW u
  PROVE  Committed(u) = SumUpTo([w \in Rows |-> PartOf(u, withdrawals[w])], Len(withdrawals))
BY DEF Committed, PartOf

LEMMA CommittedType ==
  ASSUME TypeOK, NEW u
  PROVE  Committed(u) \in Int
<1> DEFINE parts == [w \in Rows |-> PartOf(u, withdrawals[w])]
<1>1. Len(withdrawals) \in Nat /\ \A w \in 1..Len(withdrawals) : parts[w] \in Int
  BY PartType, TablesType DEF Rows
<1>2. Committed(u) = SumUpTo(parts, Len(withdrawals))
  BY CommittedIsParts
<1> HIDE DEF parts
<1>3. QED
  BY <1>1, <1>2, SumType

\* The sum follows the one part that a new status changes.
LEMMA CommittedMoves ==
  ASSUME TypeOK, NEW w \in Rows, NEW s \in Status, NEW u,
         withdrawals' = [withdrawals EXCEPT ![w].status = s]
  PROVE  /\ PartOf(u, withdrawals'[w]) = IF withdrawals[w].user = u /\ s # "failed" THEN withdrawals[w].amount ELSE 0
         /\ Committed(u)' = Committed(u) + (PartOf(u, withdrawals'[w]) - PartOf(u, withdrawals[w]))
<1> DEFINE n      == Len(withdrawals)
           before == [v \in Rows |-> PartOf(u, withdrawals[v])]
           after  == [v \in Rows |-> PartOf(u, withdrawals'[v])]
<1>1. /\ withdrawals' \in Seq(WithdrawalRow)
      /\ Len(withdrawals') = n /\ n \in Nat
      /\ \A v \in Rows : withdrawals[v] \in WithdrawalRow
      /\ withdrawals'[w] = [withdrawals[w] EXCEPT !.status = s]
      /\ \A v \in Rows : v # w => withdrawals'[v] = withdrawals[v]
  <2>1. /\ withdrawals' \in Seq(WithdrawalRow)
        /\ Len(withdrawals') = Len(withdrawals)
        /\ \A v \in Rows :
             withdrawals'[v] = IF v = w THEN [withdrawals[w] EXCEPT !.status = s] ELSE withdrawals[v]
    BY StatusSet
  <2>2. QED
    BY <2>1, TablesType
<1>2. Rows' = Rows
  BY <1>1 DEF Rows
<1>3. Committed(u) = SumUpTo(before, n)
  BY CommittedIsParts
<1>4. Committed(u)' = SumUpTo(after, n)
  BY <1>1, <1>2 DEF Committed, PartOf
<1>5. /\ withdrawals'[w].user = withdrawals[w].user /\ withdrawals'[w].amount = withdrawals[w].amount
      /\ withdrawals'[w].status = s
      /\ withdrawals[w].amount \in Nat
  BY <1>1 DEF WithdrawalRow
<1>6. PartOf(u, withdrawals'[w]) = IF withdrawals[w].user = u /\ s # "failed" THEN withdrawals[w].amount ELSE 0
  BY <1>5 DEF PartOf
<1>7. PartOf(u, withdrawals[w]) \in Nat /\ PartOf(u, withdrawals'[w]) \in Nat
  BY <1>5, <1>6, PartType
<1>8. \A v \in Rows : PartOf(u, withdrawals[v]) \in Int /\ PartOf(u, withdrawals'[v]) \in Int /\ (v # w => PartOf(u, withdrawals'[v]) = PartOf(u, withdrawals[v]))
  BY <1>1, <1>7, PartType
<1>9. /\ \A v \in 1..n : before[v] \in Int /\ after[v] \in Int
      /\ \A v \in 1..n : v # w => after[v] = before[v]
      /\ before[w] = PartOf(u, withdrawals[w]) /\ after[w] = PartOf(u, withdrawals'[w])
  BY <1>8 DEF Rows
<1> DEFINE d == PartOf(u, withdrawals'[w]) - PartOf(u, withdrawals[w])
<1>10. d \in Int /\ after[w] = before[w] + d /\ w \in 1..n
  BY <1>7, <1>9 DEF Rows
<1> HIDE DEF before, after, d, n
<1>11. SumUpTo(after, n) = SumUpTo(before, n) + d
  <2>1. n \in Nat
    BY <1>1
  <2>2. QED
    BY <2>1, <1>9, <1>10, SumDiffersAt
<1>12. QED
  BY <1>3, <1>4, <1>6, <1>11 DEF d

LEMMA NeverOverchargedInit == Init => NeverOvercharged
<1> SUFFICES ASSUME Init, NEW u \in Users PROVE wallet[u] >= Deposited - Committed(u)
  BY DEF NeverOvercharged
<1>1. wallet[u] = Deposited /\ Deposited \in Nat
  BY NumberAssumption DEF Init, NumberAssumption
<1>2. Rows = {} /\ Len(withdrawals) = 0
  BY EmptySeq DEF Init, Rows
<1> DEFINE parts == [w \in Rows |-> PartOf(u, withdrawals[w])]
<1>3. Committed(u) = SumUpTo(parts, 0)
  BY <1>2 DEF Committed, PartOf
<1>4. \A i \in 1..0 : parts[i] \in Int
  OBVIOUS
<1> HIDE DEF parts
<1>5. SumUpTo(parts, 0) = 0
  BY <1>4, SumType
<1>6. QED
  BY <1>1, <1>3, <1>5

\* A withdrawal takes from the wallet what it adds to the sum.
LEMMA NeverOverchargedWithdraw ==
  ASSUME TypeInv, NeverOvercharged,
         NEW v \in Users, NEW key \in Keys, NEW amount \in Amounts, Withdraw(v, key, amount)
  PROVE  NeverOvercharged'
<1> SUFFICES ASSUME NEW u \in Users PROVE (wallet[u] >= Deposited - Committed(u))'
  BY DEF NeverOvercharged
<1> DEFINE n      == Len(withdrawals)
           before == [w \in Rows |-> PartOf(u, withdrawals[w])]
           after  == [w \in Rows' |-> PartOf(u, withdrawals'[w])]
           part   == IF v = u THEN amount ELSE 0
<1>1. /\ \A w \in Rows : withdrawals'[w] = withdrawals[w]
      /\ withdrawals'[n + 1] = [user |-> v, key |-> key, amount |-> amount, status |-> "pending"]
      /\ Len(withdrawals') = n + 1 /\ amount \in Nat
  BY WithdrawStep
<1>2. n \in Nat /\ Rows' = 1..(n + 1) /\ Rows = 1..n
  BY <1>1, TablesType DEF TypeInv, Rows
<1>3. Committed(u) = SumUpTo(before, n) /\ Committed(u) \in Int /\ \A w \in Rows : PartOf(u, withdrawals[w]) \in Int
  <2>1. TypeOK
    BY DEF TypeInv
  <2>2. Committed(u) = SumUpTo(before, n)
    BY <2>1, CommittedIsParts
  <2>3. Committed(u) \in Int
    BY <2>1, CommittedType
  <2>4. \A w \in Rows : PartOf(u, withdrawals[w]) \in Int
    BY <2>1, PartType
  <2>5. QED
    BY <2>2, <2>3, <2>4
<1>4. Committed(u)' = SumUpTo(after, n + 1)
  BY <1>1 DEF Committed, PartOf
<1>5. \A w \in Rows : PartOf(u, withdrawals'[w]) = PartOf(u, withdrawals[w])
  BY <1>1 DEF PartOf
<1>6. PartOf(u, withdrawals'[n + 1]) = part
  <2>1. /\ withdrawals'[n + 1].user = v /\ withdrawals'[n + 1].amount = amount
        /\ withdrawals'[n + 1].status = "pending"
    BY <1>1
  <2>2. QED
    BY <2>1 DEF PartOf
<1>7. /\ \A w \in 1..n : before[w] \in Int /\ after[w] = before[w]
      /\ after[n + 1] = part /\ part \in Int
  BY <1>1, <1>2, <1>3, <1>5, <1>6
<1> HIDE DEF before, after, n
<1>8. SumUpTo(after, n + 1) = SumUpTo(before, n) + part
  BY <1>2, <1>7, SumExtend
<1>9. wallet \in [Users -> Nat] /\ wallet' = [wallet EXCEPT ![v] = @ - amount]
  BY DEF TypeInv, TypeOK, Withdraw
<1>10. wallet'[u] = wallet[u] - part
  BY <1>1, <1>9
<1>11. wallet[u] >= Deposited - Committed(u) /\ wallet[u] \in Nat /\ Deposited \in Nat
  BY <1>9, NumberAssumption DEF NeverOvercharged, NumberAssumption
<1>12. wallet'[u] >= Deposited - Committed(u)'
  BY <1>3, <1>4, <1>7, <1>8, <1>10, <1>11
<1>13. QED
  BY <1>12

\* A status that is set without restoring the balance does not fail the withdrawal, and so
\* takes nothing from the sum.
LEMMA NeverOverchargedStatus ==
  ASSUME TypeOK, NeverOvercharged, NEW w \in Rows, NEW s \in Status,
         withdrawals' = [withdrawals EXCEPT ![w].status = s], UNCHANGED wallet,
         s = "failed" => withdrawals[w].status = "failed"
  PROVE  NeverOvercharged'
<1> SUFFICES ASSUME NEW u \in Users PROVE wallet'[u] >= Deposited - Committed(u)'
  BY DEF NeverOvercharged
<1>1. /\ PartOf(u, withdrawals'[w]) = IF withdrawals[w].user = u /\ s # "failed" THEN withdrawals[w].amount ELSE 0
      /\ Committed(u)' = Committed(u) + (PartOf(u, withdrawals'[w]) - PartOf(u, withdrawals[w]))
  BY CommittedMoves
<1>2. Committed(u) \in Int /\ PartOf(u, withdrawals[w]) \in Nat /\ withdrawals[w].amount \in Nat
  BY CommittedType, PartType, TablesType DEF WithdrawalRow
<1>3. PartOf(u, withdrawals'[w]) >= PartOf(u, withdrawals[w]) /\ PartOf(u, withdrawals'[w]) \in Nat
  BY <1>1, <1>2 DEF PartOf
<1>4. wallet[u] >= Deposited - Committed(u) /\ wallet[u] \in Nat /\ Deposited \in Nat /\ wallet' = wallet
  BY NumberAssumption DEF NeverOvercharged, NumberAssumption, TypeOK
<1>5. QED
  BY <1>1, <1>2, <1>3, <1>4

\* A failure gives back exactly what it takes from the sum.
LEMMA NeverOverchargedRestore ==
  ASSUME TypeOK, NeverOvercharged, NEW w \in Rows, withdrawals[w].status \in Failable,
         withdrawals' = [withdrawals EXCEPT ![w].status = "failed"],
         wallet' = [wallet EXCEPT ![withdrawals[w].user] = @ + withdrawals[w].amount]
  PROVE  NeverOvercharged'
<1> SUFFICES ASSUME NEW u \in Users PROVE wallet'[u] >= Deposited - Committed(u)'
  BY DEF NeverOvercharged
<1>1. "failed" \in Status
  BY DEF Status
<1>2. PartOf(u, withdrawals'[w]) = 0 /\ Committed(u)' = Committed(u) + (PartOf(u, withdrawals'[w]) - PartOf(u, withdrawals[w]))
  <2>1. /\ PartOf(u, withdrawals'[w]) =
             IF withdrawals[w].user = u /\ "failed" # "failed" THEN withdrawals[w].amount ELSE 0
        /\ Committed(u)' = Committed(u) + (PartOf(u, withdrawals'[w]) - PartOf(u, withdrawals[w]))
    BY <1>1, CommittedMoves
  <2>2. QED
    BY <2>1
<1>3. Committed(u) \in Int /\ withdrawals[w].amount \in Nat /\ withdrawals[w].user \in Users
  BY CommittedType, PartType, TablesType DEF WithdrawalRow
<1>4. PartOf(u, withdrawals[w]) = IF withdrawals[w].user = u THEN withdrawals[w].amount ELSE 0
  BY DEF PartOf, Failable
<1>5. /\ wallet[u] >= Deposited - Committed(u) /\ Deposited \in Nat
      /\ wallet \in [Users -> Nat]
  BY NumberAssumption DEF NeverOvercharged, NumberAssumption, TypeOK
<1>6. wallet'[u] = wallet[u] + PartOf(u, withdrawals[w])
  BY <1>3, <1>4, <1>5
<1>7. wallet[u] \in Nat /\ PartOf(u, withdrawals[w]) \in Nat
  BY <1>3, <1>4, <1>5
<1>8. QED
  BY <1>2, <1>3, <1>5, <1>6, <1>7

LEMMA NeverOverchargedNext == TypeInv /\ NeverOvercharged /\ [Next]_vars => NeverOvercharged'
<1> SUFFICES ASSUME TypeInv, NeverOvercharged, [Next]_vars PROVE NeverOvercharged'
  OBVIOUS
<1>1. TypeOK /\ RowsExist
  BY DEF TypeInv
<1>2. ASSUME UNCHANGED <<wallet, withdrawals>>
      PROVE  NeverOvercharged'
  BY <1>2 DEF NeverOvercharged, Committed, Rows
<1>3. CASE Request
  BY <1>2, <1>3, NeverOverchargedWithdraw DEF Request, Enqueue, request
<1>4. ASSUME NEW w \in Rows, Payout(w)
      PROVE  NeverOvercharged'
  <2>1. /\ UNCHANGED wallet
        /\ UNCHANGED withdrawals \/ withdrawals' = [withdrawals EXCEPT ![w].status = "processing"]
    BY <1>4 DEF Payout, StartJob, InitiateTransfer, RecordProcessing, RecordDebit, FailJob, request
  <2>2. "processing" \in Status
    BY DEF Status
  <2>3. QED
    BY <1>1, <1>2, <2>1, <2>2, NeverOverchargedStatus
<1>5. CASE Paystack
  BY <1>2, <1>5 DEF Paystack, Settle, Webhook, request
<1>6. ASSUME NEW e \in EventIds, Delivery(e) \/ ReplayEvent(e)
      PROVE  NeverOvercharged'
  <2>1. CASE ApplyEvent(e)
    <3> DEFINE w == events[e].wd
    <3>1. w \in Rows /\ withdrawals[w].status \in Status /\ "completed" \in Status
      BY <1>1, TablesType DEF RowsExist, WithdrawalRow, Status
    <3>2. \/ /\ \E s \in {withdrawals[w].status, "completed"} :
                  withdrawals' = [withdrawals EXCEPT ![w].status = s]
             /\ UNCHANGED wallet
          \/ /\ withdrawals[w].status \in Failable
             /\ withdrawals' = [withdrawals EXCEPT ![w].status = "failed"]
             /\ wallet' = [wallet EXCEPT ![withdrawals[w].user] = @ + withdrawals[w].amount]
          \/ UNCHANGED <<wallet, withdrawals>>
      BY <1>1, <2>1, ApplyStep
    <3> HIDE DEF w
    <3>3. ASSUME NEW s \in {withdrawals[w].status, "completed"},
                 withdrawals' = [withdrawals EXCEPT ![w].status = s], UNCHANGED wallet
          PROVE  NeverOvercharged'
      BY <1>1, <3>1, <3>3, NeverOverchargedStatus
    <3>4. QED
      BY <1>1, <1>2, <3>1, <3>2, <3>3, NeverOverchargedRestore
  <2>2. CASE UNCHANGED <<wallet, withdrawals>>
    BY <1>2, <2>2
  <2>3. QED
    BY <1>6, <2>1, <2>2, EventRows
<1>7. CASE Crash
  BY <1>2, <1>7 DEF Crash, request
<1>8. CASE UNCHANGED vars
  BY <1>2, <1>8 DEF vars, request
<1>9. QED
  BY <1>3, <1>4, <1>5, <1>6, <1>7, <1>8 DEF Next

-----------------------------------------------------------------------------
(* The theorems.                                                           *)

LEMMA PayInvImplies == TypeInv /\ PayInv => PaidAtMostOnce /\ NeverPaidAndRestored /\ ProcessedFailuresAreRestored
<1> SUFFICES ASSUME TypeInv, PayInv
             PROVE  PaidAtMostOnce /\ NeverPaidAndRestored /\ ProcessedFailuresAreRestored
  OBVIOUS
<1>1. ASSUME NEW w \in Rows
      PROVE  Cardinality({tr \in TransfersOf(w) : tr.status \in {"pending", "success"}}) <= 1
  <2> DEFINE S == {tr \in TransfersOf(w) : tr.status \in {"pending", "success"}}
  <2>1. \A tr, other \in S : tr = other
    BY DEF TransfersOf, PayInv, OneTransfer
  <2> HIDE DEF S
  <2>2. S = {} => Cardinality(S) <= 1
    BY FS_EmptySet
  <2>3. ASSUME NEW tr \in S PROVE Cardinality(S) <= 1
    <3>1. S = {tr}
      BY <2>1, <2>3
    <3>2. QED
      BY <3>1, FS_Singleton
  <2>4. QED
    BY <2>2, <2>3 DEF S
<1>2. NeverPaidAndRestored
  BY DEF NeverPaidAndRestored, TransfersOf, PayInv, OneTransfer, RestoredAreOver
<1>3. ProcessedFailuresAreRestored
  BY DEF ProcessedFailuresAreRestored, PayInv, AppliedFailuresAreRestored
<1>4. QED
  BY <1>1, <1>2, <1>3 DEF PaidAtMostOnce

\* Each part of the invariant needs the typed tables, and nothing of the other parts.
THEOREM Inductive == Spec => []IInv
<1>1. Init => IInv
  BY TypeInvInit, KeyInvInit, PayInvInit DEF IInv
<1>2. IInv /\ [Next]_vars => IInv'
  <2> SUFFICES ASSUME IInv, [Next]_vars PROVE IInv'
    OBVIOUS
  <2>1. TypeInv' /\ KeyInv' /\ PayInv'
    BY TypeInvNext, KeyInvNext, PayInvNext DEF IInv
  <2>2. QED
    BY <2>1 DEF IInv
<1>3. QED
  BY <1>1, <1>2, PTL DEF Spec

\* However often a request is sent, its Idempotency-Key makes one withdrawal.
THEOREM KeyedOnce == Spec => []OncePerKey
<1>1. IInv => OncePerKey
  BY DEF IInv, KeyInv
<1>2. QED
  BY <1>1, Inductive, PTL

\* Crashes, lost answers and retries notwithstanding, a withdrawal is paid at most once.
THEOREM PaidOnce == Spec => []PaidAtMostOnce
<1>1. IInv => PaidAtMostOnce
  BY PayInvImplies DEF IInv
<1>2. QED
  BY <1>1, Inductive, PTL

\* No user is given back an amount that Paystack pays or may still pay out.
THEOREM PaidOrRestored == Spec => []NeverPaidAndRestored
<1>1. IInv => NeverPaidAndRestored
  BY PayInvImplies DEF IInv
<1>2. QED
  BY <1>1, Inductive, PTL

\* A failure whose event is processed has been restored.
THEOREM FailuresRestored == Spec => []ProcessedFailuresAreRestored
<1>1. IInv => ProcessedFailuresAreRestored
  BY PayInvImplies DEF IInv
<1>2. QED
  BY <1>1, Inductive, PTL

\* No user is out more than the withdrawals that have not failed.
THEOREM NotOvercharged == Spec => []NeverOvercharged
<1>1. IInv => TypeInv
  BY DEF IInv
<1>2. QED
  BY <1>1, Inductive, NeverOverchargedInit, NeverOverchargedNext, PTL DEF Spec

-----------------------------------------------------------------------------
(* The requests, statement by statement: WithdrawalRequests, whatever its  *)
(* constants.                                                              *)

CONSTANTS Calls, KeyOf, AmountOf, NoKey, MaxFaults
VARIABLES balance, made, keys, call, queued, faults

R == INSTANCE WithdrawalRequests WITH wallet <- balance, withdrawals <- made

\* The instance adds up as Sums does.
LEMMA SameSums ==
  ASSUME NEW n \in Nat, NEW v
  PROVE  R!SumUpTo(v, n) = SumUpTo(v, n)
BY DEF R!SumUpTo, R!PartialSums, SumUpTo, PartialSums

Counted == faults \in 0..MaxFaults

\* A call that is answered, and not accepted.
Refused(c) == \E status \in {400, 500} : R!Answered(c, status, 0, FALSE)

-----------------------------------------------------------------------------
(* What the records are, and what a step does to them.                     *)

\* The rows and their fields.
LEMMA RowsType ==
  ASSUME R!Parameters, R!TypeOK
  PROVE  /\ Len(made) \in Nat
         /\ \A i \in R!Ids : /\ made[i] \in Nat /\ queued[i] \in Nat
                           /\ keys[i] \in R!KeyRow
         /\ \A c \in Calls : call[c] \in R!CallRow /\ AmountOf[c] \in Nat
         /\ balance \in Nat /\ faults \in Nat
<1>1. /\ made \in Seq(Nat) /\ queued \in Seq(Nat) /\ keys \in Seq(R!KeyRow)
      /\ Len(keys) = Len(made) /\ Len(queued) = Len(made)
  BY DEF R!TypeOK
<1>2. /\ Len(made) \in Nat
      /\ \A i \in R!Ids : made[i] \in Nat /\ queued[i] \in Nat /\ keys[i] \in R!KeyRow
  BY <1>1, LenProperties, ElementOfSeq DEF R!Ids
<1>3. /\ \A c \in Calls : call[c] \in R!CallRow /\ AmountOf[c] \in Nat
      /\ balance \in Nat /\ faults \in Nat
  BY DEF R!TypeOK, R!Parameters
<1>4. QED
  BY <1>2, <1>3

\* The keys that are stored are those of the rows.
LEMMA StoredRows ==
  ASSUME R!Parameters, R!TypeOK, NEW c \in Calls
  PROVE  /\ \A k \in R!Stored(c) : \E i \in R!Ids : k = keys[i] /\ k.key = KeyOf[c]
         /\ \A i \in R!Ids : keys[i].key = KeyOf[c] => R!Stored(c) # {}
<1>1. DOMAIN keys = R!Ids
  <2>1. keys \in Seq(R!KeyRow) /\ Len(keys) = Len(made)
    BY DEF R!TypeOK
  <2>2. QED
    BY <2>1, LenProperties DEF R!Ids
<1>2. QED
  BY <1>1 DEF R!Stored, R!StoredKeys

\* A call that changes leaves the others.
LEMMA CallSet ==
  ASSUME R!TypeOK, NEW c \in Calls, NEW r \in R!CallRow, call' = [call EXCEPT ![c] = r]
  PROVE  /\ call' \in [Calls -> R!CallRow]
         /\ \A d \in Calls : call'[d] = IF d = c THEN r ELSE call[d]
BY DEF R!TypeOK

\* A withdrawal that is committed: one more row, debited, under the call's key.
LEMMA CommitStep ==
  ASSUME R!Parameters, R!IInv, NEW c \in Calls, call[c].step = "locked", R!Committed(c),
         NEW n, n = Len(made) + 1
  PROVE  /\ balance' \in 0..Deposited
         /\ made' \in Seq(Nat) /\ keys' \in Seq(R!KeyRow) /\ queued' \in Seq(Nat)
         /\ Len(made') = n /\ Len(keys') = n /\ Len(queued') = n
         /\ \A i \in R!Ids : /\ made'[i] = made[i]
                           /\ keys'[i] = keys[i] /\ queued'[i] = queued[i]
         /\ made'[n] = AmountOf[c] /\ queued'[n] = 0
         /\ keys'[n].key = KeyOf[c] /\ keys'[n].fingerprint = AmountOf[c]
         /\ keys'[n].withdrawal = n
         /\ R!DebitedWhatIsWithdrawn'
<1> DEFINE row == [key |-> KeyOf[c], fingerprint |-> AmountOf[c], withdrawal |-> n]
<1>1. /\ R!TypeOK /\ Len(made) \in Nat /\ AmountOf[c] \in Nat
      /\ balance \in 0..Deposited /\ AmountOf[c] <= balance /\ Deposited \in Nat
  BY RowsType DEF R!IInv, R!TransactionsAlone, R!TypeOK, R!Parameters
<1>2. balance' = balance - AmountOf[c] /\ balance' \in 0..Deposited
  BY <1>1 DEF R!Committed
<1>3. row \in R!KeyRow
  BY <1>1 DEF R!KeyRow
<1>4. /\ made' = Append(made, AmountOf[c])
      /\ keys' = Append(keys, row) /\ queued' = Append(queued, 0)
  BY DEF R!Committed, R!Fingerprint
<1>5. /\ made \in Seq(Nat) /\ keys \in Seq(R!KeyRow) /\ queued \in Seq(Nat)
      /\ Len(keys) = Len(made) /\ Len(queued) = Len(made)
  BY <1>1 DEF R!TypeOK
<1>6. row.key = KeyOf[c] /\ row.fingerprint = AmountOf[c] /\ row.withdrawal = n
  OBVIOUS
<1> HIDE DEF row
<1>7. /\ made' \in Seq(Nat) /\ Len(made') = n /\ made'[n] = AmountOf[c]
      /\ \A i \in R!Ids : made'[i] = made[i]
  BY <1>1, <1>4, <1>5, AppendProperties DEF R!Ids
<1>8. /\ keys' \in Seq(R!KeyRow) /\ Len(keys') = n /\ keys'[n] = row
      /\ \A i \in R!Ids : keys'[i] = keys[i]
  BY <1>1, <1>3, <1>4, <1>5, AppendProperties DEF R!Ids
<1>9. /\ queued' \in Seq(Nat) /\ Len(queued') = n /\ queued'[n] = 0
      /\ \A i \in R!Ids : queued'[i] = queued[i]
  BY <1>1, <1>4, <1>5, AppendProperties DEF R!Ids
<1>10. R!DebitedWhatIsWithdrawn'
  <2>1. /\ \A i \in 1..Len(made) : made[i] \in Int /\ made'[i] = made[i]
        /\ made'[Len(made) + 1] \in Int
    BY <1>1, <1>7, RowsType DEF R!Ids
  <2>2. SumUpTo(made, Len(made)) \in Int
    BY <1>1, <2>1, SumType
  <2>3. SumUpTo(made', n) = SumUpTo(made, Len(made)) + AmountOf[c]
    <3>1. SumUpTo(made', Len(made) + 1)
            = SumUpTo(made, Len(made)) + made'[Len(made) + 1]
      BY ONLY <1>1, <2>1, SumExtend
    <3>2. QED
      BY <1>7, <3>1
  <2>4. balance + SumUpTo(made, Len(made)) = Deposited
    BY <1>1, SameSums DEF R!IInv, R!DebitedWhatIsWithdrawn
  <2>5. balance' >= 0 /\ balance' + SumUpTo(made', n) = Deposited
    BY <1>1, <1>2, <2>2, <2>3, <2>4
  <2>6. QED
    BY <1>7, <2>5, SameSums DEF R!DebitedWhatIsWithdrawn
<1>11. QED
  BY <1>2, <1>6, <1>7, <1>8, <1>9, <1>10

-----------------------------------------------------------------------------
(* The invariant is inductive.                                             *)

LEMMA InitIInv ==
  ASSUME R!Parameters, R!Init
  PROVE  R!IInv
<1>1. /\ made \in Seq(Nat) /\ keys \in Seq(R!KeyRow) /\ queued \in Seq(Nat)
      /\ Len(made) = 0 /\ Len(keys) = 0 /\ Len(queued) = 0
  BY EmptySeq DEF R!Init
<1>2. /\ call \in [Calls -> R!CallRow]
      /\ \A c \in Calls : call[c].step = "sent"
  BY DEF R!Init, R!CallRow
<1>3. R!TypeOK
  BY <1>1, <1>2 DEF R!Init, R!TypeOK, R!Parameters
<1>4. R!Ids = {}
  BY <1>1 DEF R!Ids
<1>5. R!KeysMatch /\ R!TransactionsAlone /\ R!AnswersMatch /\ R!MakersQueue
  BY <1>2, <1>4
  DEF R!KeysMatch, R!TransactionsAlone, R!AnswersMatch, R!MakersQueue, R!InTransaction, R!Making, R!Accepting
<1>6. R!DebitedWhatIsWithdrawn
  <2>1. \A i \in 1..0 : made[i] \in Int
    OBVIOUS
  <2>2. SumUpTo(made, 0) = 0
    BY <2>1, SumType
  <2>3. QED
    BY <1>1, <2>2, SameSums DEF R!Init, R!DebitedWhatIsWithdrawn, R!Parameters
<1>7. QED
  BY <1>3, <1>5, <1>6 DEF R!IInv

\* A call moves on and no withdrawal is made: it may enter a transaction, if it is alone there,
\* or be told of the withdrawal of its key.
LEMMA CallStep ==
  ASSUME R!Parameters, R!IInv, NEW c \in Calls, NEW r \in R!CallRow,
         call' = [call EXCEPT ![c] = r], UNCHANGED <<R!tables, queued>>, Counted',
         r.step # "executed", ~R!Making(r),
         R!Accepting(r) => /\ r.withdrawal \in R!Ids /\ keys[r.withdrawal].key = KeyOf[c]
                         /\ made[r.withdrawal] = AmountOf[c],
         r.step \in {"claimed", "locked"} =>
           \/ R!InTransaction(c)
           \/ /\ \A d \in Calls : R!InTransaction(d) => KeyOf[d] # KeyOf[c]
              /\ \A i \in R!Ids : keys[i].key # KeyOf[c],
         r.step = "locked" => /\ \A d \in Calls : call[d].step # "locked"
                              /\ AmountOf[c] <= balance
  PROVE  R!IInv'
<1>1. /\ call' \in [Calls -> R!CallRow]
      /\ \A d \in Calls : call'[d] = IF d = c THEN r ELSE call[d]
  BY CallSet DEF R!IInv
<1>2. UNCHANGED <<balance, made, keys, queued>> /\ R!Ids' = R!Ids
  BY DEF R!tables, R!Ids
<1>3. R!TypeOK'
  BY <1>1, <1>2 DEF R!IInv, R!TypeOK, Counted
<1>4. R!KeysMatch' /\ R!DebitedWhatIsWithdrawn'
  BY <1>2 DEF R!IInv, R!KeysMatch, R!DebitedWhatIsWithdrawn
<1>5. R!TransactionsAlone'
  BY <1>1, <1>2 DEF R!IInv, R!TransactionsAlone, R!InTransaction
<1>6. R!AnswersMatch'
  BY <1>1, <1>2 DEF R!IInv, R!AnswersMatch, R!Accepting
<1>7. R!MakersQueue'
  BY <1>1, <1>2 DEF R!IInv, R!MakersQueue, R!Making, R!Accepting
<1>8. QED
  BY <1>3, <1>4, <1>5, <1>6, <1>7 DEF R!IInv

\* A transaction commits its withdrawal, and the call is told, or its answer is lost.
LEMMA CommitCallStep ==
  ASSUME R!Parameters, R!IInv, NEW c \in Calls, call[c].step = "locked", R!Committed(c),
         NEW r \in R!CallRow, call' = [call EXCEPT ![c] = r], Counted',
         \/ r.step = "executed" /\ r.withdrawal = Len(made) + 1
         \/ r.step = "answered" /\ ~R!Accepting(r)
  PROVE  R!IInv'
<1> PICK n : n = Len(made) + 1
  OBVIOUS
<1>1. /\ call' \in [Calls -> R!CallRow]
      /\ \A d \in Calls : call'[d] = IF d = c THEN r ELSE call[d]
  <2>1. call \in [Calls -> R!CallRow]
    BY DEF R!IInv, R!TypeOK, Counted
  <2>2. QED
    BY <2>1
<1>2. /\ balance' \in 0..Deposited
      /\ made' \in Seq(Nat) /\ keys' \in Seq(R!KeyRow) /\ queued' \in Seq(Nat)
      /\ Len(made') = n /\ Len(keys') = n /\ Len(queued') = n
      /\ \A i \in R!Ids : /\ made'[i] = made[i]
                        /\ keys'[i] = keys[i] /\ queued'[i] = queued[i]
      /\ made'[n] = AmountOf[c] /\ queued'[n] = 0
      /\ keys'[n].key = KeyOf[c] /\ keys'[n].fingerprint = AmountOf[c]
      /\ keys'[n].withdrawal = n
      /\ R!DebitedWhatIsWithdrawn'
  BY CommitStep
<1>3. R!TypeOK'
  BY <1>1, <1>2 DEF R!TypeOK, Counted
<1>4. R!Ids' = R!Ids \cup {n} /\ n \notin R!Ids /\ \A i \in R!Ids : i \in Nat
  BY <1>2, RowsType DEF R!IInv, R!Ids
<1>5. \A i \in R!Ids : keys[i].key # KeyOf[c]
  BY DEF R!IInv, R!TransactionsAlone, R!InTransaction
<1>6. R!KeysMatch'
  <2>1. \A i \in R!Ids' : keys'[i].withdrawal = i /\ keys'[i].fingerprint = made'[i]
    BY <1>2, <1>4 DEF R!IInv, R!KeysMatch
  <2>2. ASSUME NEW i \in R!Ids', NEW j \in R!Ids', keys'[i].key = keys'[j].key PROVE i = j
    <3>1. (i \in R!Ids \/ i = n) /\ (j \in R!Ids \/ j = n)
      BY <1>4
    <3>2. CASE i \in R!Ids /\ j \in R!Ids
      BY <1>2, <2>2, <3>2 DEF R!IInv, R!KeysMatch
    <3>3. \A k \in R!Ids : keys'[k].key # KeyOf[c]
      BY <1>2, <1>5
    <3>4. QED
      BY <1>2, <2>2, <3>1, <3>2, <3>3
  <2>3. QED
    BY <2>1, <2>2 DEF R!KeysMatch
<1>7. R!TransactionsAlone'
  <2>1. \A d \in Calls : R!InTransaction(d)' => d # c /\ R!InTransaction(d)
    BY <1>1 DEF R!InTransaction
  <2>2. \A d \in Calls : call[d].step = "locked" => d = c
    BY DEF R!IInv, R!TransactionsAlone
  <2>3. \A d \in Calls : call'[d].step # "locked"
    BY <1>1, <2>2
  <2>4. \A d \in Calls : R!InTransaction(d)' => KeyOf[d] # KeyOf[c]
    BY <2>1 DEF R!IInv, R!TransactionsAlone, R!InTransaction
  <2>5. \A d \in Calls : R!InTransaction(d)' => \A i \in R!Ids' : keys'[i].key # KeyOf[d]
    <3>1. SUFFICES ASSUME NEW d \in Calls, R!InTransaction(d)', NEW i \in R!Ids'
                   PROVE  keys'[i].key # KeyOf[d]
      OBVIOUS
    <3>2. CASE i = n
      BY <1>2, <2>4, <3>1, <3>2
    <3>3. CASE i \in R!Ids
      <4>1. keys[i].key # KeyOf[d]
        BY <2>1, <3>1, <3>3 DEF R!IInv, R!TransactionsAlone
      <4>2. QED
        BY <1>2, <3>3, <4>1
    <3>4. QED
      BY <1>4, <3>2, <3>3
  <2>6. \A d, e \in Calls : R!InTransaction(d)' /\ R!InTransaction(e)' /\ KeyOf[d] = KeyOf[e] => d = e
    BY <2>1 DEF R!IInv, R!TransactionsAlone
  <2>7. QED
    BY <2>3, <2>5, <2>6 DEF R!TransactionsAlone
<1>8. R!AnswersMatch'
  <2>1. \A d \in Calls : call[d].step = "executed" \/ R!Accepting(call[d]) =>
          /\ call[d].withdrawal \in R!Ids
          /\ keys[call[d].withdrawal].key = KeyOf[d]
          /\ made[call[d].withdrawal] = AmountOf[d]
    BY DEF R!IInv, R!AnswersMatch
  <2>2. r.step = "executed" \/ R!Accepting(r) => r.withdrawal = n
    BY DEF R!Accepting
  <2>3. \A d \in Calls : call'[d].step = "executed" \/ R!Accepting(call'[d]) =>
          /\ call'[d].withdrawal \in R!Ids'
          /\ keys'[call'[d].withdrawal].key = KeyOf[d]
          /\ made'[call'[d].withdrawal] = AmountOf[d]
    BY <1>1, <1>2, <1>4, <2>1, <2>2
  <2>4. QED
    BY <2>3 DEF R!AnswersMatch, R!Accepting
<1>9. R!MakersQueue'
  <2>1. \A d \in Calls : R!Making(call[d]) => call[d].withdrawal \in R!Ids
    BY DEF R!IInv, R!AnswersMatch, R!Making, R!Accepting
  <2>2. R!Making(r) => r.step = "executed" /\ r.withdrawal = n
    BY DEF R!Making, R!Accepting
  <2>3. \A d, e \in Calls :
          R!Making(call'[d]) /\ R!Making(call'[e]) /\ call'[d].withdrawal = call'[e].withdrawal => d = e
    BY <1>1, <1>4, <2>1, <2>2 DEF R!IInv, R!MakersQueue
  <2>4. \A i \in R!Ids' : queued'[i] <= 1
    <3>1. \A i \in R!Ids : queued'[i] <= 1
      BY <1>2 DEF R!IInv, R!MakersQueue
    <3>2. queued'[n] <= 1
      BY <1>2
    <3>3. QED
      BY <1>4, <3>1, <3>2
  <2>5. \A d \in Calls : R!Making(call'[d]) =>
          queued'[call'[d].withdrawal] = IF call'[d].step = "executed" THEN 0 ELSE 1
    BY <1>1, <1>2, <2>1, <2>2 DEF R!IInv, R!MakersQueue
  <2>6. QED
    BY <2>3, <2>4, <2>5 DEF R!MakersQueue
<1>10. QED
  BY <1>2, <1>3, <1>6, <1>7, <1>8, <1>9 DEF R!IInv

\* A replay: the call is told of the withdrawal of its key, or refused.
LEMMA ReplayStep ==
  ASSUME R!Parameters, R!IInv, NEW c \in Calls, NEW k \in R!Stored(c), R!Replay(c, k)
  PROVE  \E r \in R!CallRow :
           /\ call' = [call EXCEPT ![c] = r]
           /\ r.step = "answered" /\ ~R!Making(r)
           /\ R!Accepting(r) => /\ r.withdrawal \in R!Ids /\ keys[r.withdrawal].key = KeyOf[c]
                             /\ made[r.withdrawal] = AmountOf[c]
<1>1. R!TypeOK
  BY DEF R!IInv
<1>2. PICK i \in R!Ids : k = keys[i] /\ k.key = KeyOf[c]
  BY <1>1, StoredRows
<1>3. k.withdrawal = i /\ k.fingerprint = made[i] /\ i \in Nat
  BY <1>2 DEF R!IInv, R!KeysMatch, R!Ids
<1>4. CASE k.fingerprint # AmountOf[c]
  <2> DEFINE r == [step |-> "answered", status |-> 422, withdrawal |-> 0, replayed |-> FALSE]
  <2>1. r \in R!CallRow /\ ~R!Making(r) /\ ~R!Accepting(r)
    BY DEF R!CallRow, R!Making, R!Accepting
  <2>2. call' = [call EXCEPT ![c] = r]
    BY <1>4 DEF R!Replay, R!Answered, R!Fingerprint
  <2>3. QED
    BY <2>1, <2>2
<1>5. CASE k.fingerprint = AmountOf[c]
  <2> DEFINE r == [step |-> "answered", status |-> 202, withdrawal |-> k.withdrawal, replayed |-> TRUE]
  <2>1. r \in R!CallRow /\ ~R!Making(r) /\ r.withdrawal = i
    BY <1>3 DEF R!CallRow, R!Making, R!Accepting
  <2>2. call' = [call EXCEPT ![c] = r]
    BY <1>5 DEF R!Replay, R!Answered, R!Fingerprint
  <2>3. QED
    BY <1>2, <1>3, <1>5, <2>1, <2>2
<1>6. QED
  BY <1>4, <1>5

\* A call that is refused.
LEMMA RefusedStep ==
  ASSUME R!Parameters, R!IInv, NEW c \in Calls, Refused(c), UNCHANGED <<R!tables, queued>>, Counted'
  PROVE  R!IInv'
<1>1. PICK r \in R!CallRow :
        /\ r.step = "answered" /\ ~R!Accepting(r)
        /\ call' = [call EXCEPT ![c] = r]
  <2>1. PICK status \in {400, 500} : R!Answered(c, status, 0, FALSE)
    BY DEF Refused
  <2> DEFINE r == [step |-> "answered", status |-> status, withdrawal |-> 0, replayed |-> FALSE]
  <2>2. r \in R!CallRow /\ r.step = "answered" /\ ~R!Accepting(r)
    BY DEF R!CallRow, R!Accepting
  <2>3. call' = [call EXCEPT ![c] = r]
    BY <2>1 DEF R!Answered
  <2> HIDE DEF r
  <2>4. QED
    BY <2>2, <2>3
<1>2. ~R!Making(r)
  BY <1>1 DEF R!Making
<1>3. QED
  BY <1>1, <1>2, CallStep

-----------------------------------------------------------------------------
LEMMA RequestStep ==
  ASSUME R!Parameters, R!IInv, NEW c \in Calls,
         R!Refuse(c) \/ R!FindStoredKey(c) \/ R!Claim(c) \/ R!CheckBalance(c)
  PROVE  R!IInv'
<1>1. R!TypeOK /\ Counted
  BY DEF R!IInv, R!TypeOK, Counted
<1>2. CASE R!Refuse(c)
  <2>1. Refused(c)
    BY <1>2 DEF R!Refuse, Refused
  <2>2. Counted' /\ UNCHANGED <<R!tables, queued>>
    BY <1>1, <1>2 DEF R!Refuse, Counted
  <2>3. QED
    BY <2>1, <2>2, RefusedStep
<1>3. ASSUME NEW k \in R!Stored(c), R!Replay(c, k), UNCHANGED <<R!tables, queued, faults>>
      PROVE  R!IInv'
  <2>1. PICK r \in R!CallRow :
          /\ call' = [call EXCEPT ![c] = r]
          /\ r.step = "answered" /\ ~R!Making(r)
          /\ R!Accepting(r) => /\ r.withdrawal \in R!Ids /\ keys[r.withdrawal].key = KeyOf[c]
                            /\ made[r.withdrawal] = AmountOf[c]
    BY <1>3, ReplayStep
  <2>2. UNCHANGED <<R!tables, queued>> /\ Counted'
    BY <1>1, <1>3 DEF Counted
  <2>3. QED
    BY <2>1, <2>2, CallStep
<1>4. ASSUME NEW step \in {"unfound", "claimed", "locked"}, R!Goto(c, step),
             UNCHANGED <<R!tables, queued, faults>>,
             step \in {"claimed", "locked"} =>
               \/ R!InTransaction(c)
               \/ /\ \A d \in Calls : R!InTransaction(d) => KeyOf[d] # KeyOf[c]
                  /\ \A i \in R!Ids : keys[i].key # KeyOf[c],
             step = "locked" => /\ \A d \in Calls : call[d].step # "locked"
                                /\ AmountOf[c] <= balance
      PROVE  R!IInv'
  <2>1. PICK r \in R!CallRow : r.step = step /\ call' = [call EXCEPT ![c] = r]
    <3> DEFINE r == [step |-> step]
    <3>1. r \in R!CallRow /\ r.step = step
      BY DEF R!CallRow
    <3>2. call' = [call EXCEPT ![c] = r]
      BY <1>4 DEF R!Goto
    <3>3. QED
      BY <3>1, <3>2
  <2>2. ~R!Making(r) /\ ~R!Accepting(r) /\ r.step # "executed"
    BY <2>1 DEF R!Making, R!Accepting
  <2>3. UNCHANGED <<R!tables, queued>> /\ Counted'
    BY <1>1, <1>4 DEF Counted
  <2>4. QED
    BY <1>4, <2>1, <2>2, <2>3, CallStep
<1>5. CASE R!FindStoredKey(c)
  <2>1. CASE R!Stored(c) = {}
    BY <1>4, <1>5, <2>1 DEF R!FindStoredKey
  <2>2. CASE R!Stored(c) # {}
    BY <1>3, <1>5, <2>2 DEF R!FindStoredKey
  <2>3. QED
    BY <2>1, <2>2
<1>6. CASE R!Claim(c)
  <2>1. CASE R!Stored(c) = {}
    <3>1. \A i \in R!Ids : keys[i].key # KeyOf[c]
      BY <1>1, <2>1, StoredRows
    <3>2. \A d \in Calls : R!InTransaction(d) => KeyOf[d] # KeyOf[c]
      BY <1>6 DEF R!Claim
    <3>3. R!Goto(c, "claimed") /\ UNCHANGED <<R!tables, queued, faults>>
      BY <1>6, <2>1 DEF R!Claim
    <3>4. QED
      BY <1>4, <3>1, <3>2, <3>3
  <2>2. CASE R!Stored(c) # {}
    BY <1>3, <1>6, <2>2 DEF R!Claim
  <2>3. QED
    BY <2>1, <2>2
<1>7. CASE R!CheckBalance(c)
  <2>1. CASE AmountOf[c] > balance
    <3>1. R!Answered(c, 400, 0, FALSE) /\ UNCHANGED <<R!tables, queued, faults>>
      BY <1>7, <2>1 DEF R!CheckBalance
    <3>2. Refused(c)
      BY <3>1 DEF Refused
    <3>3. Counted' /\ UNCHANGED <<R!tables, queued>>
      BY <1>1, <3>1 DEF Counted
    <3>4. QED
      BY <3>2, <3>3, RefusedStep
  <2>2. CASE ~(AmountOf[c] > balance)
    <3>1. AmountOf[c] <= balance
      BY <1>1, <2>2, RowsType
    <3>2. R!InTransaction(c) /\ \A d \in Calls : call[d].step # "locked"
      BY <1>7 DEF R!CheckBalance, R!InTransaction
    <3>3. R!Goto(c, "locked") /\ UNCHANGED <<R!tables, queued, faults>>
      BY <1>7, <2>2 DEF R!CheckBalance
    <3>4. QED
      BY <1>4, <3>1, <3>2, <3>3
  <2>3. QED
    BY <2>1, <2>2
<1>8. QED
  BY <1>2, <1>5, <1>6, <1>7

LEMMA FaultStep ==
  ASSUME R!Parameters, R!TypeOK, R!Fault
  PROVE  Counted'
BY DEF R!Parameters, R!TypeOK, R!Fault, Counted

LEMMA ExecuteStep ==
  ASSUME R!Parameters, R!IInv, NEW c \in Calls, R!Execute(c)
  PROVE  R!IInv'
<1>1. Counted /\ Len(made) \in Nat
  BY RowsType DEF R!IInv, R!TypeOK, Counted
<1>2. PICK r \in R!CallRow :
        /\ r.step = "executed" /\ r.withdrawal = Len(made) + 1
        /\ call' = [call EXCEPT ![c] = r]
  <2> DEFINE r == [step |-> "executed", withdrawal |-> Len(made) + 1]
  <2>1. r \in R!CallRow /\ r.step = "executed" /\ r.withdrawal = Len(made) + 1
    BY <1>1 DEF R!CallRow
  <2>2. call' = [call EXCEPT ![c] = r]
    BY DEF R!Execute
  <2>3. QED
    BY <2>1, <2>2
<1>3. call[c].step = "locked" /\ R!Committed(c) /\ Counted'
  BY <1>1 DEF R!Execute, Counted
<1>4. QED
  BY <1>2, <1>3, CommitCallStep

LEMMA ExecuteFailsStep ==
  ASSUME R!Parameters, R!IInv, NEW c \in Calls, R!ExecuteFails(c)
  PROVE  R!IInv'
<1>1. R!TypeOK
  BY DEF R!IInv
<1>2. Counted'
  BY <1>1, FaultStep DEF R!ExecuteFails
<1>3. R!Answered(c, 500, 0, FALSE) /\ Refused(c)
  BY DEF R!ExecuteFails, Refused
<1>4. CASE UNCHANGED <<R!tables, queued>>
  BY <1>2, <1>3, <1>4, RefusedStep
<1>5. CASE call[c].step = "locked" /\ R!Committed(c)
  <2>1. PICK r \in R!CallRow :
          /\ r.step = "answered" /\ ~R!Accepting(r)
          /\ call' = [call EXCEPT ![c] = r]
    <3> DEFINE r == [step |-> "answered", status |-> 500, withdrawal |-> 0, replayed |-> FALSE]
    <3>1. r \in R!CallRow /\ r.step = "answered" /\ ~R!Accepting(r)
      BY DEF R!CallRow, R!Accepting
    <3>2. call' = [call EXCEPT ![c] = r]
      BY <1>3 DEF R!Answered
    <3>3. QED
      BY <3>1, <3>2
  <2>2. QED
    BY <1>2, <1>5, <2>1, CommitCallStep
<1>6. QED
  BY <1>4, <1>5 DEF R!ExecuteFails

LEMMA EnqueueStep ==
  ASSUME R!Parameters, R!IInv, NEW c \in Calls, R!Enqueue(c)
  PROVE  R!IInv'
<1>1. R!TypeOK /\ Counted
  BY DEF R!IInv, R!TypeOK, Counted
<1>2. CASE R!Fault /\ R!Answered(c, 500, 0, FALSE) /\ UNCHANGED queued
  <2>1. Refused(c)
    BY <1>2 DEF Refused
  <2>2. Counted' /\ UNCHANGED <<R!tables, queued>>
    BY <1>1, <1>2, FaultStep DEF R!Enqueue
  <2>3. QED
    BY <2>1, <2>2, RefusedStep
<1>3. CASE /\ queued' = [queued EXCEPT ![call[c].withdrawal] = @ + 1]
           /\ R!Answered(c, 202, call[c].withdrawal, FALSE)
           /\ UNCHANGED faults
  <2>1. PICK w \in R!Ids : w = call[c].withdrawal
    BY DEF R!Enqueue, R!IInv, R!AnswersMatch
  <2>2. /\ call[c].step = "executed" /\ queued[w] = 0
        /\ keys[w].key = KeyOf[c] /\ made[w] = AmountOf[c]
    BY <2>1 DEF R!Enqueue, R!IInv, R!AnswersMatch, R!MakersQueue, R!Making
  <2>3. PICK r \in R!CallRow :
          /\ r.step = "answered" /\ r.status = 202 /\ r.withdrawal = w /\ r.replayed = FALSE
          /\ call' = [call EXCEPT ![c] = r]
    <3> DEFINE r == [step |-> "answered", status |-> 202, withdrawal |-> w, replayed |-> FALSE]
    <3>1. w \in Nat
      BY DEF R!Ids
    <3>2. /\ r \in R!CallRow
          /\ r.step = "answered" /\ r.status = 202 /\ r.withdrawal = w /\ r.replayed = FALSE
      BY <3>1 DEF R!CallRow
    <3>3. call' = [call EXCEPT ![c] = r]
      BY <1>3, <2>1 DEF R!Answered
    <3>4. QED
      BY <3>2, <3>3
  <2>4. /\ call' \in [Calls -> R!CallRow]
        /\ \A d \in Calls : call'[d] = IF d = c THEN r ELSE call[d]
    BY <1>1, <2>3 DEF R!TypeOK
  <2>5. UNCHANGED <<balance, made, keys>> /\ R!Ids' = R!Ids
    BY DEF R!Enqueue, R!tables, R!Ids
  <2>6. /\ queued' \in Seq(Nat) /\ Len(queued') = Len(queued)
        /\ \A i \in R!Ids : queued'[i] = IF i = w THEN 1 ELSE queued[i]
    <3>1. queued \in Seq(Nat) /\ Len(queued) = Len(made)
      BY <1>1 DEF R!TypeOK
    <3>2. queued' = [queued EXCEPT ![w] = 1]
      BY <1>3, <2>1, <2>2
    <3>3. QED
      BY <3>1, <3>2, ExceptSeq DEF R!Ids
  <2>7. R!TypeOK'
    BY <1>1, <1>3, <2>4, <2>5, <2>6 DEF R!TypeOK, Counted
  <2>8. R!KeysMatch' /\ R!DebitedWhatIsWithdrawn'
    BY <2>5 DEF R!IInv, R!KeysMatch, R!DebitedWhatIsWithdrawn
  <2>9. R!TransactionsAlone'
    BY <2>3, <2>4, <2>5 DEF R!IInv, R!TransactionsAlone, R!InTransaction
  <2>10. R!AnswersMatch'
    BY <2>2, <2>3, <2>4, <2>5 DEF R!IInv, R!AnswersMatch, R!Accepting
  <2>11. R!MakersQueue'
    <3>1. \A d \in Calls : R!Making(call[d]) /\ call[d].withdrawal = w => d = c
      BY <2>1, <2>2 DEF R!IInv, R!MakersQueue, R!Making
    <3>2. \A d \in Calls : R!Making(call'[d]) <=> R!Making(call[d])
      BY <2>2, <2>3, <2>4 DEF R!Making, R!Accepting
    <3>3. \A d \in Calls : R!Making(call[d]) => call'[d].withdrawal = call[d].withdrawal
      BY <2>1, <2>3, <2>4
    <3>4. \A d, e \in Calls :
            R!Making(call'[d]) /\ R!Making(call'[e]) /\ call'[d].withdrawal = call'[e].withdrawal => d = e
      BY <3>2, <3>3 DEF R!IInv, R!MakersQueue
    <3>5. \A i \in R!Ids : queued'[i] <= 1
      BY <2>6 DEF R!IInv, R!MakersQueue
    <3>6. ASSUME NEW d \in Calls, R!Making(call'[d])
          PROVE  queued'[call'[d].withdrawal] = IF call'[d].step = "executed" THEN 0 ELSE 1
      <4>1. R!Making(call[d]) /\ call[d].withdrawal \in R!Ids
        BY <3>2, <3>6 DEF R!IInv, R!AnswersMatch, R!Making, R!Accepting
      <4>2. CASE d = c
        BY <2>3, <2>4, <2>6, <4>2
      <4>3. CASE d # c
        <5>1. call'[d] = call[d] /\ call[d].withdrawal # w
          BY <2>4, <3>1, <4>1, <4>3
        <5>2. queued[call[d].withdrawal] = IF call[d].step = "executed" THEN 0 ELSE 1
          BY <4>1 DEF R!IInv, R!MakersQueue
        <5>3. QED
          BY <2>6, <4>1, <5>1, <5>2
      <4>4. QED
        BY <4>2, <4>3
    <3>7. QED
      BY <2>5, <3>4, <3>5, <3>6 DEF R!MakersQueue, R!Making, R!Accepting
  <2>12. QED
    BY <2>7, <2>8, <2>9, <2>10, <2>11 DEF R!IInv
<1>4. QED
  BY <1>2, <1>3 DEF R!Enqueue

LEMMA RestartStep ==
  ASSUME R!Parameters, R!IInv, R!Restart
  PROVE  R!IInv'
<1>1. R!TypeOK /\ Counted'
  BY FaultStep DEF R!IInv, R!Restart
<1>2. UNCHANGED <<balance, made, keys, queued>> /\ R!Ids' = R!Ids
  BY DEF R!Restart, R!tables, R!Ids
<1>3. \A c \in Calls : call'[c] = call[c] \/ call'[c] = [step |-> "lost"]
  BY DEF R!Restart
<1>4. call' \in [Calls -> R!CallRow]
  <2>1. [step |-> "lost"] \in R!CallRow
    BY DEF R!CallRow
  <2>2. \A c \in Calls : (IF call[c].step \in {"sent", "answered"} THEN call[c]
                          ELSE [step |-> "lost"]) \in R!CallRow
    BY <1>1, <2>1 DEF R!TypeOK
  <2>3. QED
    BY <2>2 DEF R!Restart
<1>5. \A c \in Calls :
        call'[c].step \in {"claimed", "locked", "executed", "answered"} => call'[c] = call[c]
  BY <1>3
<1>6. R!TypeOK'
  BY <1>1, <1>2, <1>4 DEF R!TypeOK, Counted
<1>7. R!KeysMatch' /\ R!DebitedWhatIsWithdrawn'
  BY <1>2 DEF R!IInv, R!KeysMatch, R!DebitedWhatIsWithdrawn
<1>8. R!TransactionsAlone'
  BY <1>2, <1>5 DEF R!IInv, R!TransactionsAlone, R!InTransaction
<1>9. R!AnswersMatch'
  BY <1>2, <1>5 DEF R!IInv, R!AnswersMatch, R!Accepting
<1>10. R!MakersQueue'
  BY <1>2, <1>5 DEF R!IInv, R!MakersQueue, R!Making, R!Accepting
<1>11. QED
  BY <1>6, <1>7, <1>8, <1>9, <1>10 DEF R!IInv

\* The invariant follows from Init and is kept by every step.
THEOREM RequestsInductive == R!Parameters => (R!Spec => []R!IInv)
<1> SUFFICES ASSUME R!Parameters PROVE R!Spec => []R!IInv
  OBVIOUS
<1>1. R!Init => R!IInv
  BY InitIInv
<1>2. R!IInv /\ [R!Next]_R!vars => R!IInv'
  <2>1. SUFFICES ASSUME R!IInv, [R!Next]_R!vars PROVE R!IInv'
    OBVIOUS
  <2>2. ASSUME NEW c \in Calls,
               R!Refuse(c) \/ R!FindStoredKey(c) \/ R!Claim(c) \/ R!CheckBalance(c)
        PROVE  R!IInv'
    BY <2>1, <2>2, RequestStep
  <2>3. ASSUME NEW c \in Calls, R!Execute(c) PROVE R!IInv'
    BY <2>1, <2>3, ExecuteStep
  <2>4. ASSUME NEW c \in Calls, R!ExecuteFails(c) PROVE R!IInv'
    BY <2>1, <2>4, ExecuteFailsStep
  <2>5. ASSUME NEW c \in Calls, R!Enqueue(c) PROVE R!IInv'
    BY <2>1, <2>5, EnqueueStep
  <2>6. CASE R!Restart
    BY <2>1, <2>6, RestartStep
  <2>7. CASE UNCHANGED R!vars
    <3>1. UNCHANGED <<balance, made, keys, call, queued, faults>>
      BY <2>7 DEF R!vars, R!tables
    <3>2. QED
      BY <2>1, <3>1 DEF R!IInv, R!TypeOK, R!KeysMatch, R!TransactionsAlone, R!AnswersMatch, R!MakersQueue,
           R!DebitedWhatIsWithdrawn, R!InTransaction, R!Making, R!Accepting, R!Ids
  <2>8. QED
    BY <2>1, <2>2, <2>3, <2>4, <2>5, <2>6, <2>7 DEF R!Next
<1>3. QED
  BY <1>1, <1>2, PTL DEF R!Spec

-----------------------------------------------------------------------------
(* The property.                                                           *)

LEMMA InvariantImplies ==
  ASSUME R!Parameters, R!IInv
  PROVE  R!DebitedOncePerKey
<1>1. R!TypeOK /\ R!DebitedWhatIsWithdrawn /\ R!KeysMatch /\ R!AnswersMatch /\ R!MakersQueue
  BY DEF R!IInv
<1>2. /\ DOMAIN keys = R!Ids /\ DOMAIN queued = R!Ids
  <2>1. /\ keys \in Seq(R!KeyRow) /\ Len(keys) = Len(made)
        /\ queued \in Seq(Nat) /\ Len(queued) = Len(made)
    BY <1>1 DEF R!TypeOK
  <2>2. QED
    BY <2>1, LenProperties DEF R!Ids
<1>3. \A c \in R!Accepted : c \in Calls /\ R!Accepting(call[c]) /\ (~call[c].replayed => R!Making(call[c]))
                          /\ call[c].step # "executed"
  BY DEF R!Accepted, R!Accepting, R!Making
<1>4. R!OneWithdrawalPerKey
  <2>1. \A c, d \in R!Accepted : KeyOf[c] = KeyOf[d] => call[c].withdrawal = call[d].withdrawal
    BY <1>1, <1>3 DEF R!AnswersMatch, R!KeysMatch
  <2>2. \A c, d \in R!Accepted : KeyOf[c] = KeyOf[d] /\ ~call[c].replayed /\ ~call[d].replayed => c = d
    BY <1>1, <1>3, <2>1 DEF R!MakersQueue
  <2>3. \A c \in R!Accepted : made[call[c].withdrawal] = AmountOf[c]
    BY <1>1, <1>3 DEF R!AnswersMatch
  <2>4. \A i, j \in DOMAIN keys : keys[i].key = keys[j].key => i = j
    BY <1>1, <1>2 DEF R!KeysMatch
  <2>5. QED
    BY <2>1, <2>2, <2>3, <2>4 DEF R!OneWithdrawalPerKey
<1>5. R!QueuedOnce
  BY <1>1, <1>2, <1>3 DEF R!QueuedOnce, R!MakersQueue
<1>6. QED
  BY <1>1, <1>4, <1>5 DEF R!DebitedOncePerKey

\* Whatever requests are sent, at once and again, and wherever they fail: the requests with one
\* Idempotency-Key that are accepted are told of one withdrawal of the amount they asked for,
\* which is debited once, and whose payout is queued once.
THEOREM RequestsDebitOnce == R!Parameters => (R!Spec => []R!DebitedOncePerKey)
<1> SUFFICES ASSUME R!Parameters PROVE R!Spec => []R!DebitedOncePerKey
  OBVIOUS
<1>1. R!IInv => R!DebitedOncePerKey
  BY InvariantImplies
<1>2. R!Spec => []R!IInv
  BY RequestsInductive
<1>3. QED
  BY <1>1, <1>2, PTL

=============================================================================
