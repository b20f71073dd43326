----------------------------- MODULE TradeProofs -----------------------------
(***************************************************************************)
(* Proofs about Trade, for all values of its constants; and about the      *)
(* transactions it sends, in Submission.                                   *)
(***************************************************************************)
EXTENDS Trade, TLAPS, SequenceTheorems

-----------------------------------------------------------------------------
(* Type correctness.                                                       *)

\* The lengths and elements of the handlers' lists.
LEMMA ListsType ==
  ASSUME TypeOK
  PROVE  /\ Len(buys) \in Nat
         /\ \A i \in 1..Len(buys) : buys[i] \in Buy
         /\ Len(runs) \in Nat
         /\ \A i \in 1..Len(runs) : runs[i] \in Run
         /\ \A t \in TradeIds : /\ refunds[t] \in Seq(Refund)
                                /\ Len(refunds[t]) \in Nat
                                /\ \A n \in 1..Len(refunds[t]) : refunds[t][n] \in Refund
<1>1. buys \in Seq(Buy) /\ runs \in Seq(Run)
  BY DEF TypeOK
<1>2. \A t \in TradeIds : refunds[t] \in Seq(Refund)
  BY DEF TypeOK
<1>3. QED
  BY <1>1, <1>2, LenProperties, ElementOfSeq

\* A row that exists is a TradeOffer.
LEMMA RowType ==
  ASSUME TypeOK, NEW t \in TradeIds, trades[t] # NoTrade
  PROVE  trades[t] \in TradeOffer
BY DEF TypeOK

\* Moving one handler to another step, or one job to another state.
LEMMA BuyMoved ==
  ASSUME TypeOK, NEW i \in 1..Len(buys), NEW buy \in Buy,
         buys' = [buys EXCEPT ![i] = buy]
  PROVE  /\ buys' \in Seq(Buy)
         /\ Len(buys') = Len(buys)
         /\ \A j \in 1..Len(buys) : buys'[j] = IF j = i THEN buy ELSE buys[j]
<1>1. buys \in Seq(Buy)
  BY DEF TypeOK
<1>2. QED
  BY <1>1, ExceptSeq

\* A buy after its envelope was answered, and after its row was written.
LEMMA SubmittedBuy ==
  ASSUME NEW buy \in Buy, NEW e \in Deposit, NEW answer \in Answers
  PROVE  /\ Submitted(buy, e, answer) \in Buy
         /\ Submitted(buy, e, answer).trade = buy.trade
         /\ Submitted(buy, e, answer).buyer = buy.buyer
         /\ Submitted(buy, e, answer).step = "submitted" =>
              answer = "success" \/ buy.step = "submitted"
         /\ answer = "success" => Submitted(buy, e, answer).deposit = e
<1>1. CASE answer = "success"
  <2>1. Submitted(buy, e, answer) = [buy EXCEPT !.step = "submitted", !.deposit = e]
    BY <1>1 DEF Submitted
  <2>2. QED
    BY <1>1, <2>1 DEF Buy
<1>2. CASE answer # "success"
  <2>1. Submitted(buy, e, answer) = [buy EXCEPT !.step = "ended"]
    BY <1>2 DEF Submitted
  <2>2. QED
    BY <1>2, <2>1 DEF Buy
<1>3. QED
  BY <1>1, <1>2

LEMMA EndedBuy ==
  ASSUME NEW buy \in Buy
  PROVE  /\ Ended(buy) \in Buy
         /\ Ended(buy).trade = buy.trade
         /\ Ended(buy).step = "ended"
BY DEF Ended, Buy, Deposit

\* The row of a locked trade.
LEMMA LockedRow ==
  ASSUME TypeOK, NEW t \in TradeIds, trades[t] # NoTrade, NEW buy \in Buy
  PROVE  /\ Locked(t, buy)[t] \in TradeOffer
         /\ Locked(t, buy)[t].buyer = buy.buyer
         /\ Locked(t, buy)[t].status = "Locked"
         /\ Locked(t, buy)[t].deposit = buy.deposit
         /\ Locked(t, buy) = [trades EXCEPT ![t] = Locked(t, buy)[t]]
<1> DEFINE row == [trades[t] EXCEPT !.status = "Locked", !.buyer = buy.buyer,
                                    !.deposit = buy.deposit]
<1>1. trades[t] \in TradeOffer /\ trades \in [TradeIds -> TradeOffer \cup {NoTrade}]
  BY RowType DEF TypeOK
<1>2. /\ row \in TradeOffer /\ row.buyer = buy.buyer
      /\ row.status = "Locked" /\ row.deposit = buy.deposit
  BY <1>1 DEF TradeOffer, TradeStatus, Buy
<1>3. Locked(t, buy) = [trades EXCEPT ![t] = row]
  BY DEF Locked
<1> HIDE DEF row
<1>4. Locked(t, buy)[t] = row
  BY <1>1, <1>3
<1>5. QED
  BY <1>2, <1>3, <1>4

LEMMA RunMoved ==
  ASSUME TypeOK, NEW i \in 1..Len(runs), NEW run \in Run,
         runs' = [runs EXCEPT ![i] = run]
  PROVE  /\ runs' \in Seq(Run)
         /\ Len(runs') = Len(runs)
         /\ \A j \in 1..Len(runs) : runs'[j] = IF j = i THEN run ELSE runs[j]
<1>1. runs \in Seq(Run)
  BY DEF TypeOK
<1>2. QED
  BY <1>1, ExceptSeq

RefundBecomes(t, n, job) == refunds' = [refunds EXCEPT ![t][n] = job]

LEMMA RefundMoved ==
  ASSUME TypeOK, NEW t \in TradeIds, NEW n \in 1..Len(refunds[t]), NEW job \in Refund,
         RefundBecomes(t, n, job)
  PROVE  /\ refunds' \in [TradeIds -> Seq(Refund)]
         /\ \A u \in TradeIds : Len(refunds'[u]) = Len(refunds[u])
         /\ refunds'[t][n] = job
         /\ \A u \in TradeIds : \A m \in 1..Len(refunds[u]) :
              u # t \/ m # n => refunds'[u][m] = refunds[u][m]
<1>1. refunds \in [TradeIds -> Seq(Refund)] /\ refunds[t] \in Seq(Refund)
  BY DEF TypeOK
<1> DEFINE moved == [refunds[t] EXCEPT ![n] = job]
<1>2. /\ moved \in Seq(Refund)
      /\ Len(moved) = Len(refunds[t])
      /\ \A m \in 1..Len(refunds[t]) : moved[m] = IF m = n THEN job ELSE refunds[t][m]
  BY <1>1, ExceptSeq
<1>3. refunds' = [refunds EXCEPT ![t] = moved]
  BY <1>1 DEF RefundBecomes
<1> HIDE DEF moved
<1>4. QED
  BY <1>1, <1>2, <1>3

\* An answered run is a run, and is released only by a success.
LEMMA AnsweredRun ==
  ASSUME NEW run \in Run, NEW answer \in Answers
  PROVE  /\ Retried(run) \in Run
         /\ Retried(run).trade = run.trade
         /\ Retried(run).step # "released"
         /\ Answered(run, answer) \in Run
         /\ Answered(run, answer).trade = run.trade
         /\ Answered(run, answer).step = "released" => answer = "success"
<1>1. CASE run.attempt < MaxAttempts
  <2>1. run.attempt \in Nat /\ MaxAttempts \in Nat /\ run.attempt >= 1
    BY TradeAssumption DEF Run, TradeAssumption
  <2>2. run.attempt + 1 \in 1..MaxAttempts
    BY <1>1, <2>1
  <2>3. Retried(run) = [run EXCEPT !.attempt = run.attempt + 1, !.step = "releasing"]
    BY <1>1 DEF Retried
  <2>4. /\ Retried(run) \in Run
        /\ Retried(run).trade = run.trade
        /\ Retried(run).step # "released"
    BY <2>2, <2>3 DEF Run
  <2>5. QED
    BY <2>4 DEF Answered, Answers, Run
<1>2. CASE ~(run.attempt < MaxAttempts)
  <2>1. Retried(run) = [run EXCEPT !.step = "escalating"]
    BY <1>2 DEF Retried
  <2>2. /\ Retried(run) \in Run
        /\ Retried(run).trade = run.trade
        /\ Retried(run).step # "released"
    BY <2>1 DEF Run
  <2>3. QED
    BY <2>2 DEF Answered, Answers, Run
<1>3. QED
  BY <1>1, <1>2

\* What a transaction does to the escrow when it lands.
LEMMA LandedEscrow ==
  ASSUME TypeOK, NEW tx \in Transaction
  PROVE  /\ Landed(tx) \in [TradeIds -> Escrow]
         /\ \A t \in TradeIds : t # tx.trade => Landed(tx)[t] = escrow[t]
         /\ tx.op = "deposit" => Landed(tx)[tx.trade] = [state |-> "funded", depositor |-> tx.by]
         /\ tx.op = "release" =>
              Landed(tx)[tx.trade] = [state |-> "released", depositor |-> escrow[tx.trade].depositor]
         /\ tx.op = "refund" =>
              Landed(tx)[tx.trade] = [state |-> "refunded", depositor |-> escrow[tx.trade].depositor]
<1>1. /\ escrow \in [TradeIds -> Escrow]
      /\ tx.trade \in TradeIds /\ tx.by \in Users \cup {NoOne}
      /\ tx.op \in {"deposit", "release", "refund"}
  BY DEF TypeOK, Transaction
<1> DEFINE e == CASE tx.op = "deposit" -> [state |-> "funded", depositor |-> tx.by]
                  [] tx.op = "release" -> [escrow[tx.trade] EXCEPT !.state = "released"]
                  [] tx.op = "refund"  -> [escrow[tx.trade] EXCEPT !.state = "refunded"]
<1>2. Landed(tx) = [escrow EXCEPT ![tx.trade] = e]
  BY DEF Landed
<1>3. tx.op = "deposit" => e = [state |-> "funded", depositor |-> tx.by]
  OBVIOUS
<1>4. tx.op = "release" =>
        e = [state |-> "released", depositor |-> escrow[tx.trade].depositor]
  BY <1>1 DEF Escrow
<1>5. tx.op = "refund" =>
        e = [state |-> "refunded", depositor |-> escrow[tx.trade].depositor]
  BY <1>1 DEF Escrow
<1> HIDE DEF e
<1>6. e \in Escrow
  BY <1>1, <1>3, <1>4, <1>5 DEF Escrow
<1>7. QED
  BY <1>1, <1>2, <1>3, <1>4, <1>5, <1>6

\* Any answer of the chain leaves the escrow and the transactions in flight typed.
LEMMA SubmitType ==
  ASSUME TypeOK, NEW tx \in Transaction, NEW answer, Submit(tx, answer)
  PROVE  escrow' \in [TradeIds -> Escrow] /\ inFlight' \subseteq Transaction
<1>1. escrow' = Landed(tx) \/ escrow' = escrow
  BY DEF Submit, chain
<1>2. inFlight' = inFlight \cup {tx} \/ inFlight' = inFlight
  BY DEF Submit, chain
<1>3. QED
  BY <1>1, <1>2, LandedEscrow DEF TypeOK

\* A row that a handler has read exists: rows are never deleted.
RowsExist ==
  /\ \A i \in 1..Len(buys) : trades[buys[i].trade] # NoTrade
  /\ \A r \in resolving : trades[r.trade] # NoTrade

\* A refund job that waits to run has an attempt left.
AttemptsLeft ==
  \A t \in TradeIds : \A n \in 1..Len(refunds[t]) :
    refunds[t][n].state \in {"fresh", "queued"} => refunds[t][n].attempts < MaxAttempts

LEMMA TypeOKInit == Init => TypeOK
<1> SUFFICES ASSUME Init PROVE TypeOK
  OBVIOUS
<1>1. trades \in [TradeIds -> TradeOffer \cup {NoTrade}] /\ settled \in [TradeIds -> Nat]
  BY DEF Init
<1>2. escrow \in [TradeIds -> Escrow] /\ inFlight \subseteq Transaction
  BY DEF Init, Escrow
<1>3. posting \subseteq TradeIds \X Users /\ resolving \subseteq Resolving
  BY DEF Init
<1>4. buys \in Seq(Buy) /\ runs \in Seq(Run) /\ refunds \in [TradeIds -> Seq(Refund)]
  BY EmptySeq DEF Init
<1>5. crashes \in 0..MaxCrashes
  BY TradeAssumption DEF Init, TradeAssumption
<1>6. QED
  BY <1>1, <1>2, <1>3, <1>4, <1>5 DEF TypeOK

LEMMA TypeOKNext == TypeOK /\ RowsExist /\ AttemptsLeft /\ [Next]_vars => TypeOK'
<1> SUFFICES ASSUME TypeOK, RowsExist, AttemptsLeft, [Next]_vars PROVE TypeOK'
  OBVIOUS
<1> USE DEF table, chain, handlers
<1>1. CASE UNCHANGED vars
  BY <1>1 DEF vars, TypeOK
<1>2. ASSUME NEW tx \in inFlight, LandLate(tx) PROVE TypeOK'
  <2>1. tx \in Transaction
    BY <1>2 DEF TypeOK
  <2>2. escrow' \in [TradeIds -> Escrow] /\ inFlight' \subseteq Transaction
    BY <1>2, <2>1, LandedEscrow DEF LandLate, TypeOK
  <2>3. QED
    BY <1>2, <2>2 DEF LandLate, TypeOK
<1>3. ASSUME NEW t \in TradeIds, NEW s \in Sellers, ListOnChain(t, s) PROVE TypeOK'
  <2>1. escrow' \in [TradeIds -> Escrow]
    BY <1>3 DEF ListOnChain, TypeOK, Escrow
  <2>2. posting' \subseteq TradeIds \X Users
    BY <1>3, TradeAssumption DEF ListOnChain, TypeOK, TradeAssumption
  <2>3. QED
    BY <1>3, <2>1, <2>2 DEF ListOnChain, TypeOK
<1>4. ASSUME NEW t \in TradeIds, NEW s \in Sellers, InsertTrade(t, s) PROVE TypeOK'
  <2>1. [seller |-> s, buyer |-> NoOne, status |-> "Active", deposit |-> 0] \in TradeOffer
    BY TradeAssumption DEF TradeOffer, TradeStatus, TradeAssumption, Deposit
  <2>2. trades' \in [TradeIds -> TradeOffer \cup {NoTrade}]
    BY <1>4, <2>1 DEF InsertTrade, TypeOK
  <2>3. QED
    BY <1>4, <2>2 DEF InsertTrade, TypeOK
<1>5. ASSUME NEW t \in TradeIds, NEW b \in Users, StartBuy(t, b) PROVE TypeOK'
  <2>1. [trade |-> t, buyer |-> b, step |-> "checked", deposit |-> 0] \in Buy
    BY DEF Buy, Deposit
  <2>2. buys' \in Seq(Buy)
    BY <1>5, <2>1, AppendProperties DEF StartBuy, TypeOK
  <2>3. QED
    BY <1>5, <2>2 DEF StartBuy, TypeOK
<1>6. ASSUME NEW i \in 1..Len(buys), SubmitDeposit(i) PROVE TypeOK'
  <2>1. PICK answer \in Answers, e \in Deposit :
          /\ IF e = 0 THEN UNCHANGED chain
             ELSE Submit([op |-> "deposit", trade |-> e, by |-> buys[i].buyer], answer)
          /\ buys' = [buys EXCEPT ![i] = Submitted(buys[i], e, answer)]
    BY <1>6 DEF SubmitDeposit
  <2>2. buys[i] \in Buy /\ buys[i].buyer \in Users
    BY ListsType DEF Buy
  <2>3. buys' \in Seq(Buy)
    BY <2>1, <2>2, BuyMoved, SubmittedBuy
  <2>4. escrow' \in [TradeIds -> Escrow] /\ inFlight' \subseteq Transaction
    <3>1. CASE e = 0
      BY <2>1, <3>1 DEF TypeOK
    <3>2. CASE e # 0
      <4> DEFINE tx == [op |-> "deposit", trade |-> e, by |-> buys[i].buyer]
      <4>1. tx \in Transaction
        BY <2>2, <3>2 DEF Transaction, Deposit
      <4>2. Submit(tx, answer)
        BY <2>1, <3>2
      <4> HIDE DEF tx
      <4>3. QED
        BY <4>1, <4>2, SubmitType
    <3>3. QED
      BY <3>1, <3>2
  <2>5. QED
    BY <1>6, <2>3, <2>4 DEF SubmitDeposit, TypeOK
<1>7. ASSUME NEW i \in 1..Len(buys), LockTrade(i) PROVE TypeOK'
  <2>1. buys[i] \in Buy /\ buys[i].trade \in TradeIds /\ trades[buys[i].trade] # NoTrade
    BY ListsType DEF Buy, RowsExist
  <2>2. /\ buys' = [buys EXCEPT ![i] = Ended(buys[i])]
        /\ trades' = Locked(buys[i].trade, buys[i]) \/ UNCHANGED trades
    BY <1>7 DEF LockTrade
  <2>3. buys' \in Seq(Buy)
    BY <2>1, <2>2, BuyMoved, EndedBuy
  <2>4. Locked(buys[i].trade, buys[i]) \in [TradeIds -> TradeOffer \cup {NoTrade}]
    <3> DEFINE locked == Locked(buys[i].trade, buys[i])
    <3>1. /\ locked[buys[i].trade] \in TradeOffer
          /\ locked = [trades EXCEPT ![buys[i].trade] = locked[buys[i].trade]]
      BY <2>1, LockedRow
    <3> HIDE DEF locked
    <3>2. locked \in [TradeIds -> TradeOffer \cup {NoTrade}]
      BY <2>1, <3>1 DEF TypeOK
    <3>3. QED
      BY <3>2 DEF locked
  <2>5. trades' \in [TradeIds -> TradeOffer \cup {NoTrade}]
    BY <2>2, <2>4 DEF TypeOK
  <2>6. QED
    BY <1>7, <2>3, <2>5 DEF LockTrade, TypeOK
<1>8. ASSUME NEW t \in TradeIds, ConfirmDelivery(t) PROVE TypeOK'
  <2>1. [trade |-> t, attempt |-> 1, step |-> "releasing"] \in Run
    BY TradeAssumption DEF Run, TradeAssumption
  <2>2. runs' \in Seq(Run)
    BY <1>8, <2>1, AppendProperties DEF ConfirmDelivery, TypeOK
  <2>3. QED
    BY <1>8, <2>2 DEF ConfirmDelivery, TypeOK
<1>9. ASSUME NEW i \in 1..Len(runs), ReleasePayment(i) PROVE TypeOK'
  <2> DEFINE tx == [op |-> "release", trade |-> runs[i].trade, by |-> NoOne]
  <2>1. runs[i] \in Run /\ tx \in Transaction
    BY ListsType DEF Transaction, Run
  <2>2. PICK answer \in Answers :
          Submit(tx, answer) /\ runs' = [runs EXCEPT ![i] = Answered(@, answer)]
    BY <1>9 DEF ReleasePayment
  <2>3. runs' \in Seq(Run)
    BY <2>1, <2>2, AnsweredRun, RunMoved
  <2> HIDE DEF tx
  <2>4. escrow' \in [TradeIds -> Escrow] /\ inFlight' \subseteq Transaction
    BY <2>1, <2>2, SubmitType
  <2>5. QED
    BY <1>9, <2>3, <2>4 DEF ReleasePayment, TypeOK
<1>10. ASSUME NEW i \in 1..Len(runs), Settle(i) PROVE TypeOK'
  <2>1. runs[i] \in Run /\ runs[i].trade \in TradeIds
    BY ListsType DEF Run
  <2>2. [runs[i] EXCEPT !.step = "ended"] \in Run /\ Retried(runs[i]) \in Run
    BY <2>1, AnsweredRun DEF Run, Answers
  <2>3. \/ runs' = [runs EXCEPT ![i] = [runs[i] EXCEPT !.step = "ended"]]
        \/ runs' = [runs EXCEPT ![i] = Retried(runs[i])]
    BY <1>10 DEF Settle
  <2>4. runs' \in Seq(Run)
    BY <2>2, <2>3, RunMoved
  <2>5. HasStatus(runs[i].trade, "Locked") =>
          [trades[runs[i].trade] EXCEPT !.status = "Completed"] \in TradeOffer
    BY <2>1, RowType DEF HasStatus, TradeOffer, TradeStatus
  <2>6. \/ UNCHANGED table
        \/ /\ HasStatus(runs[i].trade, "Locked")
           /\ trades' = [trades EXCEPT ![runs[i].trade] = [@ EXCEPT !.status = "Completed"]]
           /\ settled' = [settled EXCEPT ![runs[i].trade] = @ + 1]
    BY <1>10 DEF Settle
  <2>7. trades' \in [TradeIds -> TradeOffer \cup {NoTrade}]
    BY <2>1, <2>5, <2>6 DEF TypeOK
  <2>8. settled' \in [TradeIds -> Nat]
    <3>1. settled \in [TradeIds -> Nat]
      BY DEF TypeOK
    <3>2. settled' = settled \/ settled' = [settled EXCEPT ![runs[i].trade] = @ + 1]
      BY <2>6
    <3>3. QED
      BY <2>1, <3>1, <3>2
  <2>9. QED
    BY <1>10, <2>4, <2>7, <2>8 DEF Settle, TypeOK
<1>11. ASSUME NEW i \in 1..Len(runs), Escalate(i) PROVE TypeOK'
  <2>1. runs[i] \in Run /\ runs[i].trade \in TradeIds
    BY ListsType DEF Run
  <2>2. [runs[i] EXCEPT !.step = "ended"] \in Run
    BY <2>1 DEF Run
  <2>3. runs' = [runs EXCEPT ![i] = [runs[i] EXCEPT !.step = "ended"]]
    BY <1>11 DEF Escalate
  <2>4. runs' \in Seq(Run)
    BY <2>2, <2>3, RunMoved
  <2>5. HasStatus(runs[i].trade, "Locked") =>
          [trades[runs[i].trade] EXCEPT !.status = "Disputed"] \in TradeOffer
    BY <2>1, RowType DEF HasStatus, TradeOffer, TradeStatus
  <2>6. trades' \in [TradeIds -> TradeOffer \cup {NoTrade}]
    BY <1>11, <2>1, <2>5 DEF Escalate, TypeOK
  <2>7. QED
    BY <1>11, <2>4, <2>6 DEF Escalate, TypeOK
<1>12. ASSUME NEW t \in TradeIds, FileDispute(t) PROVE TypeOK'
  <2>1. [trades[t] EXCEPT !.status = "Disputed"] \in TradeOffer
    BY <1>12, RowType DEF FileDispute, HasStatus, TradeOffer, TradeStatus
  <2>2. trades' \in [TradeIds -> TradeOffer \cup {NoTrade}]
    BY <1>12, <2>1 DEF FileDispute, TypeOK
  <2>3. QED
    BY <1>12, <2>2 DEF FileDispute, TypeOK
<1>13. ASSUME NEW t \in TradeIds, NEW resolution \in Resolution, StartResolve(t, resolution)
       PROVE  TypeOK'
  <2>1. [trade |-> t, resolution |-> resolution, confirmed |-> FALSE] \in Resolving
    BY DEF Resolving
  <2>2. resolving' \subseteq Resolving
    BY <1>13, <2>1 DEF StartResolve, TypeOK
  <2>3. QED
    BY <1>13, <2>2 DEF StartResolve, TypeOK
<1>14. ASSUME NEW r \in resolving, ResolveOnChain(r) PROVE TypeOK'
  <2> DEFINE tx == [op |-> IF r.resolution = "RELEASE" THEN "release" ELSE "refund",
                    trade |-> r.trade, by |-> NoOne]
  <2>1. r \in Resolving
    BY <1>14 DEF TypeOK
  <2>2. tx \in Transaction /\ [r EXCEPT !.confirmed = TRUE] \in Resolving
    BY <2>1 DEF Transaction, Resolving
  <2>3. PICK answer \in Answers :
          /\ Submit(tx, answer)
          /\ resolving' = (resolving \ {r}) \cup
               IF Confirmed(answer) THEN {[r EXCEPT !.confirmed = TRUE]} ELSE {}
    BY <1>14 DEF ResolveOnChain
  <2>4. resolving' \subseteq Resolving
    BY <2>2, <2>3 DEF TypeOK
  <2> HIDE DEF tx
  <2>5. escrow' \in [TradeIds -> Escrow] /\ inFlight' \subseteq Transaction
    BY <2>2, <2>3, SubmitType
  <2>6. QED
    BY <1>14, <2>4, <2>5 DEF ResolveOnChain, TypeOK
<1>15. ASSUME NEW r \in resolving, CommitResolve(r) PROVE TypeOK'
  <2>1. r.trade \in TradeIds /\ trades[r.trade] \in TradeOffer
    BY <1>15, RowType DEF TypeOK, Resolving, RowsExist
  <2>2. \A s \in TradeStatus : [trades[r.trade] EXCEPT !.status = s] \in TradeOffer
    BY <2>1 DEF TradeOffer
  <2>3. trades' \in [TradeIds -> TradeOffer \cup {NoTrade}]
    BY <1>15, <2>1, <2>2 DEF CommitResolve, TypeOK, TradeStatus
  <2>4. QED
    BY <1>15, <2>3 DEF CommitResolve, TypeOK
<1>16. ASSUME NEW u \in Users, DeleteAccount(u) PROVE TypeOK'
  <2>1. \A t \in Cancellable(u) : [trades[t] EXCEPT !.status = "Cancelled"] \in TradeOffer
    BY RowType DEF Cancellable, HasStatus, TradeOffer, TradeStatus
  <2>2. trades' \in [TradeIds -> TradeOffer \cup {NoTrade}]
    <3> DEFINE after(t) == IF t \in Cancellable(u)
                           THEN [trades[t] EXCEPT !.status = "Cancelled"] ELSE trades[t]
    <3>1. trades' = [t \in TradeIds |-> after(t)] \/ UNCHANGED trades
      BY <1>16 DEF DeleteAccount
    <3>2. \A t \in TradeIds : after(t) \in TradeOffer \cup {NoTrade}
      BY <2>1 DEF TypeOK
    <3> HIDE DEF after
    <3>3. QED
      BY <3>1, <3>2 DEF TypeOK
  <2>3. [attempts |-> 0, state |-> "fresh"] \in Refund
    BY TradeAssumption DEF Refund, TradeAssumption
  <2>4. \A t \in TradeIds :
          Append(refunds[t], [attempts |-> 0, state |-> "fresh"]) \in Seq(Refund)
    BY <2>3, ListsType, AppendProperties
  <2>5. refunds' \in [TradeIds -> Seq(Refund)]
    BY <1>16, <2>4 DEF DeleteAccount, TypeOK
  <2>6. QED
    BY <1>16, <2>2, <2>5 DEF DeleteAccount, TypeOK
<1>17. ASSUME NEW t \in TradeIds, NEW n \in 1..Len(refunds[t]), EnqueueRefund(t, n)
       PROVE  TypeOK'
  <2>1. PICK s \in {"queued", "lost"} : refunds' = [refunds EXCEPT ![t][n].state = s]
    BY <1>17 DEF EnqueueRefund
  <2>2. [refunds[t][n] EXCEPT !.state = s] \in Refund
    BY ListsType DEF Refund
  <2>3. RefundBecomes(t, n, [refunds[t][n] EXCEPT !.state = s])
    BY <2>1 DEF RefundBecomes
  <2>4. refunds' \in [TradeIds -> Seq(Refund)]
    BY <2>2, <2>3, RefundMoved
  <2>5. QED
    BY <1>17, <2>4 DEF EnqueueRefund, TypeOK
<1>18. ASSUME NEW t \in TradeIds, NEW n \in 1..Len(refunds[t]), StartRefund(t, n)
       PROVE  TypeOK'
  <2> DEFINE job == [attempts |-> refunds[t][n].attempts + 1, state |-> "running"]
  <2>1. RefundBecomes(t, n, job)
    BY <1>18 DEF StartRefund, RefundBecomes
  <2>2. refunds[t][n] \in Refund /\ refunds[t][n].attempts < MaxAttempts
    BY <1>18, ListsType DEF StartRefund, AttemptsLeft
  <2>3. job \in Refund
    BY <2>2, TradeAssumption DEF Refund, TradeAssumption
  <2>4. refunds' \in [TradeIds -> Seq(Refund)]
    BY <2>1, <2>3, RefundMoved
  <2>5. QED
    BY <1>18, <2>4 DEF StartRefund, TypeOK
<1>19. ASSUME NEW t \in TradeIds, NEW n \in 1..Len(refunds[t]), RefundOnChain(t, n)
       PROVE  TypeOK'
  <2> DEFINE tx == [op |-> "refund", trade |-> t, by |-> NoOne]
  <2>1. tx \in Transaction
    BY DEF Transaction
  <2>2. PICK answer \in Answers :
          /\ Submit(tx, answer)
          /\ refunds' = [refunds EXCEPT ![t][n].state =
               IF answer = "success" THEN "done"
               ELSE IF refunds[t][n].attempts < MaxAttempts THEN "queued" ELSE "dead"]
    BY <1>19 DEF RefundOnChain
  <2>3. PICK s \in {"done", "queued", "dead"} :
          RefundBecomes(t, n, [refunds[t][n] EXCEPT !.state = s])
    BY <2>2 DEF RefundBecomes
  <2>4. [refunds[t][n] EXCEPT !.state = s] \in Refund
    BY ListsType DEF Refund
  <2>5. refunds' \in [TradeIds -> Seq(Refund)]
    BY <2>3, <2>4, RefundMoved
  <2> HIDE DEF tx
  <2>6. escrow' \in [TradeIds -> Escrow] /\ inFlight' \subseteq Transaction
    BY <2>1, <2>2, SubmitType
  <2>7. QED
    BY <1>19, <2>5, <2>6 DEF RefundOnChain, TypeOK
<1>20. ASSUME Crash PROVE TypeOK'
  <2>1. \A i \in 1..Len(buys) : Ended(buys[i]) \in Buy
    BY ListsType, EndedBuy
  <2>2. buys' \in Seq(Buy)
    BY <1>20, <2>1, ListsType, IsASeq DEF Crash
  <2>3. \A i \in 1..Len(runs) : [runs[i] EXCEPT !.step = "ended"] \in Run
    BY ListsType DEF Run
  <2>4. runs' \in Seq(Run)
    <3> DEFINE after(i) == [runs[i] EXCEPT !.step = "ended"]
    <3>1. runs' = [i \in 1..Len(runs) |-> after(i)]
      BY <1>20 DEF Crash
    <3>2. \A i \in 1..Len(runs) : after(i) \in Run
      BY <2>3
    <3> HIDE DEF after
    <3>3. QED
      BY <3>1, <3>2, ListsType, IsASeq
  <2>5. ASSUME NEW t \in TradeIds PROVE refunds'[t] \in Seq(Refund)
    <3> DEFINE after(n) == IF refunds[t][n].state \in {"fresh", "running"}
                           THEN [refunds[t][n] EXCEPT !.state = "lost"] ELSE refunds[t][n]
    <3>1. \A n \in 1..Len(refunds[t]) : after(n) \in Refund
      BY ListsType DEF Refund
    <3>2. refunds'[t] = [n \in 1..Len(refunds[t]) |-> after(n)]
      BY <1>20 DEF Crash
    <3>3. QED
      BY <3>1, <3>2, ListsType, SeqDef
  <2>6. refunds' \in [TradeIds -> Seq(Refund)]
    BY <1>20, <2>5 DEF Crash
  <2>7. crashes' \in 0..MaxCrashes
    BY <1>20, TradeAssumption DEF Crash, TypeOK, TradeAssumption
  <2>8. QED
    BY <1>20, <2>2, <2>4, <2>6, <2>7 DEF Crash, TypeOK
<1>21. QED
  BY <1>1, <1>2, <1>3, <1>4, <1>5, <1>6, <1>7, <1>8, <1>9, <1>10, <1>11, <1>12, <1>13,
     <1>14, <1>15, <1>16, <1>17, <1>18, <1>19, <1>20
  DEF Next, Verification, Dispute, Deletion

-----------------------------------------------------------------------------
(* Rows, buys and resolutions.                                             *)

\* No step removes a row.
LEMMA RowsStay ==
  ASSUME TypeOK, RowsExist, [Next]_vars, NEW t \in TradeIds, trades[t] # NoTrade
  PROVE  trades'[t] # NoTrade
<1> USE DEF table, chain, handlers
<1>1. trades[t] \in TradeOffer /\ trades \in [TradeIds -> TradeOffer \cup {NoTrade}]
  BY RowType DEF TypeOK
<1>3. \A status \in TradeStatus : [trades[t] EXCEPT !.status = status] \in TradeOffer
  BY <1>1 DEF TradeOffer
<1>4. NoTrade \notin TradeOffer
  BY NoTradeAssumption
<1>5. CASE UNCHANGED trades
  BY <1>5
<1>6. ASSUME NEW u \in TradeIds, NEW s \in Sellers, InsertTrade(u, s)
      PROVE  trades'[t] # NoTrade
  <2>1. [seller |-> s, buyer |-> NoOne, status |-> "Active", deposit |-> 0] \in TradeOffer
    BY TradeAssumption DEF TradeOffer, TradeStatus, TradeAssumption, Deposit
  <2>2. QED
    BY <1>1, <1>4, <1>6, <2>1 DEF InsertTrade
<1>7. ASSUME NEW i \in 1..Len(buys), LockTrade(i) PROVE trades'[t] # NoTrade
  <2>1. buys[i] \in Buy /\ buys[i].trade \in TradeIds /\ trades[buys[i].trade] # NoTrade
    BY ListsType DEF Buy, RowsExist
  <2> DEFINE locked == Locked(buys[i].trade, buys[i])
  <2>2. trades' = locked \/ UNCHANGED trades
    BY <1>7 DEF LockTrade
  <2>3. /\ locked[buys[i].trade] \in TradeOffer
        /\ locked = [trades EXCEPT ![buys[i].trade] = locked[buys[i].trade]]
    BY <2>1, LockedRow
  <2> HIDE DEF locked
  <2>4. locked[t] = trades[t] \/ locked[t] \in TradeOffer
    BY <1>1, <2>1, <2>3
  <2>5. QED
    BY <1>1, <1>4, <2>2, <2>4
<1>8. ASSUME NEW i \in 1..Len(runs), Settle(i) PROVE trades'[t] # NoTrade
  BY <1>1, <1>3, <1>4, <1>8 DEF Settle, TradeStatus
<1>9. ASSUME NEW i \in 1..Len(runs), Escalate(i) PROVE trades'[t] # NoTrade
  BY <1>1, <1>3, <1>4, <1>9 DEF Escalate, TradeStatus
<1>10. ASSUME NEW u \in TradeIds, FileDispute(u) PROVE trades'[t] # NoTrade
  BY <1>1, <1>3, <1>4, <1>10 DEF FileDispute, TradeStatus
<1>11. ASSUME NEW r \in resolving, CommitResolve(r) PROVE trades'[t] # NoTrade
  BY <1>1, <1>3, <1>4, <1>11 DEF CommitResolve, TradeStatus
<1>12. ASSUME NEW u \in Users, DeleteAccount(u) PROVE trades'[t] # NoTrade
  BY <1>1, <1>3, <1>4, <1>12 DEF DeleteAccount, TradeStatus
<1>13. QED
  <2>1. CASE UNCHANGED vars
    BY <1>5, <2>1 DEF vars
  <2>2. ASSUME NEW tx \in inFlight, LandLate(tx) PROVE UNCHANGED trades
    BY <2>2 DEF LandLate
  <2>3. ASSUME NEW u \in TradeIds, NEW s \in Users, ListOnChain(u, s) \/ StartBuy(u, s)
        PROVE  UNCHANGED trades
    BY <2>3 DEF ListOnChain, StartBuy
  <2>4. ASSUME NEW i, SubmitDeposit(i) \/ ReleasePayment(i) PROVE UNCHANGED trades
    BY <2>4 DEF SubmitDeposit, ReleasePayment
  <2>5. ASSUME NEW u, ConfirmDelivery(u) PROVE UNCHANGED trades
    BY <2>5 DEF ConfirmDelivery
  <2>6. ASSUME NEW u, NEW resolution, StartResolve(u, resolution) PROVE UNCHANGED trades
    BY <2>6 DEF StartResolve
  <2>7. ASSUME NEW r \in resolving, ResolveOnChain(r) PROVE UNCHANGED trades
    BY <2>7 DEF ResolveOnChain
  <2>8. ASSUME NEW u, NEW n, EnqueueRefund(u, n) \/ StartRefund(u, n) \/ RefundOnChain(u, n)
        PROVE  UNCHANGED trades
    BY <2>8 DEF EnqueueRefund, StartRefund, RefundOnChain
  <2>9. CASE Crash
    BY <1>5, <2>9 DEF Crash
  <2>10. Sellers \subseteq Users
    BY TradeAssumption DEF TradeAssumption
  <2>11. CASE Next
    BY <2>11, <1>5, <1>6, <1>7, <1>8, <1>9, <1>10, <1>11, <1>12, <2>2, <2>3, <2>4, <2>5,
       <2>6, <2>7, <2>8, <2>9, <2>10
    DEF Next, Verification, Dispute, Deletion
  <2>12. QED
    BY <2>1, <2>11

\* What a handler has read stays.
LEMMA RowsExistNext ==
  ASSUME TypeOK, RowsExist, [Next]_vars
  PROVE  RowsExist'
<1> USE DEF table, chain, handlers
<1>1. \A i \in 1..Len(buys) :
        buys[i].trade \in TradeIds /\ trades[buys[i].trade] # NoTrade
  BY ListsType DEF Buy, RowsExist
<1>2. \A r \in resolving : r.trade \in TradeIds /\ trades[r.trade] # NoTrade
  BY DEF TypeOK, Resolving, RowsExist
<1>3. CASE UNCHANGED <<buys, resolving>>
  BY <1>1, <1>2, <1>3, RowsStay DEF RowsExist
<1>4. ASSUME NEW t \in TradeIds, NEW b \in Users, StartBuy(t, b) PROVE RowsExist'
  <2>1. [trade |-> t, buyer |-> b, step |-> "checked", deposit |-> 0] \in Buy /\ buys \in Seq(Buy)
    BY DEF Buy, TypeOK, Deposit
  <2>2. /\ Len(buys') = Len(buys) + 1
        /\ \A i \in 1..Len(buys) : buys'[i] = buys[i]
        /\ buys'[Len(buys) + 1].trade = t
    BY <1>4, <2>1, AppendProperties DEF StartBuy
  <2>3. trades[t] # NoTrade /\ trades' = trades /\ resolving' = resolving
    BY <1>4 DEF StartBuy, HasStatus
  <2>4. \A i \in 1..Len(buys') : i \in 1..Len(buys) \/ i = Len(buys) + 1
    BY <2>2, ListsType
  <2>5. QED
    BY <1>1, <1>2, <2>2, <2>3, <2>4 DEF RowsExist
<1>5. ASSUME NEW i \in 1..Len(buys), NEW buy \in Buy, buy.trade = buys[i].trade,
             buys' = [buys EXCEPT ![i] = buy], UNCHANGED resolving
      PROVE  RowsExist'
  <2>1. /\ Len(buys') = Len(buys)
        /\ \A j \in 1..Len(buys) : buys'[j].trade = buys[j].trade
    BY <1>5, BuyMoved
  <2>2. QED
    BY <1>1, <1>2, <1>5, <2>1, RowsStay DEF RowsExist
<1>6. ASSUME NEW i \in 1..Len(buys), SubmitDeposit(i) PROVE RowsExist'
  <2>1. PICK answer \in Answers, e \in Deposit :
          buys' = [buys EXCEPT ![i] = Submitted(buys[i], e, answer)]
    BY <1>6 DEF SubmitDeposit
  <2>2. /\ Submitted(buys[i], e, answer) \in Buy
        /\ Submitted(buys[i], e, answer).trade = buys[i].trade
    BY ListsType, SubmittedBuy
  <2>3. QED
    BY <1>5, <1>6, <2>1, <2>2 DEF SubmitDeposit
<1>7. ASSUME NEW i \in 1..Len(buys), LockTrade(i) PROVE RowsExist'
  <2>1. buys' = [buys EXCEPT ![i] = Ended(buys[i])]
    BY <1>7 DEF LockTrade
  <2>2. buys[i] \in Buy
    BY ListsType
  <2>3. QED
    BY <1>5, <1>7, <2>1, <2>2, EndedBuy DEF LockTrade
<1>8. ASSUME NEW t \in TradeIds, NEW resolution \in Resolution, StartResolve(t, resolution)
      PROVE  RowsExist'
  <2>1. trades[t] # NoTrade /\ UNCHANGED <<trades, buys>>
    BY <1>8 DEF StartResolve, HasStatus
  <2>2. \A r \in resolving' : r \in resolving \/ r.trade = t
    BY <1>8 DEF StartResolve
  <2>3. QED
    BY <1>1, <1>2, <2>1, <2>2 DEF RowsExist
<1>9. ASSUME NEW r \in resolving, ResolveOnChain(r) PROVE RowsExist'
  <2>1. UNCHANGED <<trades, buys>>
    BY <1>9 DEF ResolveOnChain
  <2>2. \A s \in resolving' : s \in resolving \/ s = [r EXCEPT !.confirmed = TRUE]
    BY <1>9 DEF ResolveOnChain
  <2>3. [r EXCEPT !.confirmed = TRUE].trade = r.trade
    BY <1>9 DEF TypeOK, Resolving
  <2>4. QED
    BY <1>1, <1>2, <2>1, <2>2, <2>3 DEF RowsExist
<1>10. ASSUME NEW r \in resolving, CommitResolve(r) PROVE RowsExist'
  BY <1>1, <1>2, <1>10, RowsStay DEF CommitResolve, RowsExist
<1>11. ASSUME Crash PROVE RowsExist'
  <2>1. UNCHANGED trades /\ resolving' = {}
        /\ buys' = [i \in 1..Len(buys) |-> Ended(buys[i])]
    BY <1>11 DEF Crash
  <2>2. Len(buys') = Len(buys) /\ \A i \in 1..Len(buys) : buys'[i].trade = buys[i].trade
    BY <2>1, ListsType, EndedBuy
  <2>3. QED
    BY <1>1, <2>1, <2>2 DEF RowsExist
<1>12. CASE Next
  <2>1. ASSUME NEW tx \in inFlight, LandLate(tx) PROVE RowsExist'
    BY <1>3, <2>1 DEF LandLate
  <2>2. ASSUME NEW t, NEW u, ListOnChain(t, u) \/ InsertTrade(t, u) PROVE RowsExist'
    BY <1>3, <2>2 DEF ListOnChain, InsertTrade
  <2>3. ASSUME NEW t, ConfirmDelivery(t) \/ FileDispute(t) PROVE RowsExist'
    BY <1>3, <2>3 DEF ConfirmDelivery, FileDispute
  <2>4. ASSUME NEW i, Verification(i) PROVE RowsExist'
    BY <1>3, <2>4 DEF Verification, ReleasePayment, Settle, Escalate
  <2>5. ASSUME NEW u, DeleteAccount(u) PROVE RowsExist'
    BY <1>3, <2>5 DEF DeleteAccount
  <2>6. ASSUME NEW t, NEW n, EnqueueRefund(t, n) \/ StartRefund(t, n) \/ RefundOnChain(t, n)
        PROVE  RowsExist'
    BY <1>3, <2>6 DEF EnqueueRefund, StartRefund, RefundOnChain
  <2>7. QED
    BY <1>4, <1>6, <1>7, <1>8, <1>9, <1>10, <1>11, <1>12, <2>1, <2>2, <2>3, <2>4, <2>5, <2>6
    DEF Next, Dispute, Deletion
<1>13. QED
  BY <1>3, <1>12 DEF vars

\* A job is put back in the queue only when it has an attempt left.
LEMMA AttemptsLeftNext ==
  ASSUME TypeOK, AttemptsLeft, [Next]_vars
  PROVE  AttemptsLeft'
<1> USE DEF table, chain, handlers
<1>1. CASE UNCHANGED refunds
  BY <1>1 DEF AttemptsLeft
<1>2. ASSUME NEW t \in TradeIds, NEW n \in 1..Len(refunds[t]), NEW job \in Refund,
             RefundBecomes(t, n, job),
             job.state \in {"fresh", "queued"} => job.attempts < MaxAttempts
      PROVE  AttemptsLeft'
  BY <1>2, RefundMoved DEF AttemptsLeft
<1>3. ASSUME NEW u \in Users, DeleteAccount(u) PROVE AttemptsLeft'
  <2> DEFINE job == [attempts |-> 0, state |-> "fresh"]
  <2>1. job \in Refund /\ 0 < MaxAttempts
    BY TradeAssumption DEF Refund, TradeAssumption
  <2>2. \A t \in TradeIds : refunds'[t] = refunds[t] \/ refunds'[t] = Append(refunds[t], job)
    BY <1>3 DEF DeleteAccount
  <2>3. ASSUME NEW t \in TradeIds, refunds'[t] = Append(refunds[t], job)
        PROVE  \A n \in 1..Len(refunds'[t]) :
                 \/ n \in 1..Len(refunds[t]) /\ refunds'[t][n] = refunds[t][n]
                 \/ refunds'[t][n] = job
    <3>1. /\ Len(refunds'[t]) = Len(refunds[t]) + 1
          /\ \A n \in 1..Len(refunds[t]) : refunds'[t][n] = refunds[t][n]
          /\ refunds'[t][Len(refunds[t]) + 1] = job
      BY <2>1, <2>3, ListsType, AppendProperties
    <3>2. \A n \in 1..Len(refunds'[t]) : n \in 1..Len(refunds[t]) \/ n = Len(refunds[t]) + 1
      BY <3>1, ListsType
    <3>3. QED
      BY <3>1, <3>2
  <2>4. QED
    BY <2>1, <2>2, <2>3 DEF AttemptsLeft
<1>4. ASSUME NEW t \in TradeIds, NEW n \in 1..Len(refunds[t]), EnqueueRefund(t, n)
      PROVE  AttemptsLeft'
  <2>1. PICK s \in {"queued", "lost"} :
          RefundBecomes(t, n, [refunds[t][n] EXCEPT !.state = s])
    BY <1>4 DEF EnqueueRefund, RefundBecomes
  <2>2. refunds[t][n] \in Refund /\ refunds[t][n].attempts < MaxAttempts
    BY <1>4, ListsType DEF EnqueueRefund, AttemptsLeft
  <2>3. /\ [refunds[t][n] EXCEPT !.state = s] \in Refund
        /\ [refunds[t][n] EXCEPT !.state = s].attempts = refunds[t][n].attempts
    BY <2>2 DEF Refund
  <2>4. QED
    BY <1>2, <2>1, <2>2, <2>3
<1>5. ASSUME NEW t \in TradeIds, NEW n \in 1..Len(refunds[t]), StartRefund(t, n)
      PROVE  AttemptsLeft'
  <2> DEFINE job == [attempts |-> refunds[t][n].attempts + 1, state |-> "running"]
  <2>1. RefundBecomes(t, n, job)
    BY <1>5 DEF StartRefund, RefundBecomes
  <2>2. refunds[t][n] \in Refund /\ refunds[t][n].attempts < MaxAttempts
    BY <1>5, ListsType DEF StartRefund, AttemptsLeft
  <2>3. job \in Refund
    BY <2>2, TradeAssumption DEF Refund, TradeAssumption
  <2>4. job.state \notin {"fresh", "queued"}
    OBVIOUS
  <2> HIDE DEF job
  <2>5. QED
    BY <1>2, <2>1, <2>3, <2>4
<1>6. ASSUME NEW t \in TradeIds, NEW n \in 1..Len(refunds[t]), RefundOnChain(t, n)
      PROVE  AttemptsLeft'
  <2>1. PICK s \in {"done", "queued", "dead"} :
          /\ RefundBecomes(t, n, [refunds[t][n] EXCEPT !.state = s])
          /\ s = "queued" => refunds[t][n].attempts < MaxAttempts
    BY <1>6 DEF RefundOnChain, RefundBecomes
  <2>2. refunds[t][n] \in Refund
    BY ListsType
  <2>3. /\ [refunds[t][n] EXCEPT !.state = s] \in Refund
        /\ [refunds[t][n] EXCEPT !.state = s].state = s
        /\ [refunds[t][n] EXCEPT !.state = s].attempts = refunds[t][n].attempts
    BY <2>2 DEF Refund
  <2>4. QED
    BY <1>2, <2>1, <2>3
<1>7. ASSUME Crash PROVE AttemptsLeft'
  <2>1. ASSUME NEW t \in TradeIds
        PROVE  /\ Len(refunds'[t]) = Len(refunds[t])
               /\ \A n \in 1..Len(refunds[t]) :
                    refunds'[t][n] = refunds[t][n] \/ refunds'[t][n].state = "lost"
    BY <1>7, ListsType DEF Crash, Refund
  <2>2. QED
    BY <2>1 DEF AttemptsLeft
<1>8. CASE Next
  <2>1. ASSUME NEW tx \in inFlight, LandLate(tx) PROVE AttemptsLeft'
    BY <1>1, <2>1 DEF LandLate
  <2>2. ASSUME NEW t, NEW u, ListOnChain(t, u) \/ InsertTrade(t, u) \/ StartBuy(t, u)
        PROVE  AttemptsLeft'
    BY <1>1, <2>2 DEF ListOnChain, InsertTrade, StartBuy
  <2>3. ASSUME NEW t, ConfirmDelivery(t) \/ FileDispute(t) PROVE AttemptsLeft'
    BY <1>1, <2>3 DEF ConfirmDelivery, FileDispute
  <2>4. ASSUME NEW i, SubmitDeposit(i) \/ LockTrade(i) \/ Verification(i) PROVE AttemptsLeft'
    BY <1>1, <2>4 DEF SubmitDeposit, LockTrade, Verification, ReleasePayment, Settle, Escalate
  <2>5. ASSUME NEW t, NEW resolution, StartResolve(t, resolution) PROVE AttemptsLeft'
    BY <1>1, <2>5 DEF StartResolve
  <2>6. ASSUME NEW r \in resolving, ResolveOnChain(r) \/ CommitResolve(r) PROVE AttemptsLeft'
    BY <1>1, <2>6 DEF ResolveOnChain, CommitResolve
  <2>7. QED
    BY <1>3, <1>4, <1>5, <1>6, <1>7, <1>8, <2>1, <2>2, <2>3, <2>4, <2>5, <2>6
    DEF Next, Dispute, Deletion
<1>9. QED
  BY <1>1, <1>8 DEF vars

\* Rows, ledger, chain and handlers have their types: together with rows that are
\* never deleted and retries that stop, this is an invariant.
THEOREM TypeCorrect == Spec => []TypeOK
<1> DEFINE TypeInv == TypeOK /\ RowsExist /\ AttemptsLeft
<1>1. Init => TypeInv
  <2>1. ASSUME Init PROVE RowsExist /\ AttemptsLeft
    <3>1. Len(buys) = 0 /\ resolving = {} /\ \A t \in TradeIds : Len(refunds[t]) = 0
      BY <2>1, EmptySeq DEF Init
    <3>2. QED
      BY <3>1 DEF RowsExist, AttemptsLeft
  <2>2. QED
    BY <2>1, TypeOKInit
<1>2. TypeInv /\ [Next]_vars => TypeInv'
  BY TypeOKNext, RowsExistNext, AttemptsLeftNext
<1>3. TypeInv => TypeOK
  OBVIOUS
<1> HIDE DEF TypeInv
<1>4. QED
  BY <1>1, <1>2, <1>3, PTL DEF Spec

-----------------------------------------------------------------------------
(* The escrow and those who believe something about it.                    *)

\* Nobody has paid into an escrow that is not funded yet.
EscrowShape ==
  \A t \in TradeIds : escrow[t].state \in {"none", "open"} => escrow[t].depositor = NoOne

\* A buy that was told of the success of a deposit has made it.
DepositedIsDepositor ==
  \A i \in 1..Len(buys) :
    buys[i].step = "submitted" /\ buys[i].deposit # 0 =>
      escrow[buys[i].deposit].depositor = buys[i].buyer

\* A run that was told of success has paid the seller, is the only one of its trade
\* that was, and is not settled yet.
ReleasedRuns ==
  \A i \in 1..Len(runs) : runs[i].step = "released" =>
    /\ escrow[runs[i].trade].state = "released"
    /\ settled[runs[i].trade] = 0
    /\ \A j \in 1..Len(runs) :
         runs[j].step = "released" /\ runs[j].trade = runs[i].trade => j = i

\* A resolution that was told of success has ended the escrow its way.
ConfirmedEnded ==
  \A r \in resolving : r.confirmed =>
    escrow[r.trade].state = IF r.resolution = "RELEASE" THEN "released" ELSE "refunded"

\* A refund job that is done has refunded.
DoneRefunds ==
  \A t \in TradeIds : \A n \in 1..Len(refunds[t]) :
    refunds[t][n].state = "done" => escrow[t].state = "refunded"

ActiveHasNoBuyer ==
  \A t \in TradeIds : HasStatus(t, "Active") => trades[t].buyer = NoOne

\* Only a row with a buyer has a deposit.
DepositHasBuyer ==
  \A t \in TradeIds : trades[t] # NoTrade /\ trades[t].deposit # 0 => trades[t].buyer # NoOne

\* A cancelled trade with a buyer whose escrow has not ended, funded by now or not (the
\* deposit may land late), has a refund job that did not succeed.
CancelledKeepAJob ==
  \A t \in TradeIds :
    /\ HasStatus(t, "Cancelled") /\ trades[t].buyer # NoOne
    /\ escrow[t].state \notin {"released", "refunded"}
    => \E n \in 1..Len(refunds[t]) : refunds[t][n].state # "done"

LEMMA JobKept == CancelledKeepAJob => CancelledTradesKeepARefund
BY DEF CancelledKeepAJob, CancelledTradesKeepARefund

RowsRight == BuyerHasDeposited /\ DepositHasBuyer /\ CompletedIsPaid /\ ActiveHasNoBuyer

Money ==
  /\ EscrowShape
  /\ RowsRight
  /\ DepositedIsDepositor
  /\ ReleasedRuns /\ SettledOnceWhenPaid
  /\ ConfirmedEnded
  /\ DoneRefunds /\ CancelledKeepAJob

IInv == TypeOK /\ RowsExist /\ AttemptsLeft /\ Money

\* What no step does to an escrow: change how it ended or who paid, or fund it twice.
EscrowStep ==
  \A t \in TradeIds :
    /\ escrow[t].state \in {"released", "refunded"} => escrow'[t] = escrow[t]
    /\ escrow[t].depositor # NoOne => escrow'[t].depositor = escrow[t].depositor
    /\ escrow'[t].state = "funded" => escrow[t].state = "funded" \/ escrow[t].depositor = NoOne
    /\ escrow'[t].state \in {"none", "open"} => escrow'[t].depositor = NoOne

LEMMA SameEscrow ==
  ASSUME EscrowShape, UNCHANGED escrow
  PROVE  EscrowStep
BY DEF EscrowShape, EscrowStep

LEMMA LandedStep ==
  ASSUME TypeOK, EscrowShape, NEW tx \in Transaction, Accepted(tx), escrow' = Landed(tx)
  PROVE  /\ EscrowStep
         /\ tx.op = "deposit" => escrow'[tx.trade].depositor = tx.by
         /\ tx.op = "release" => escrow[tx.trade].state = "funded"
                                 /\ escrow'[tx.trade].state = "released"
         /\ tx.op = "refund" => escrow'[tx.trade].state = "refunded"
<1>1. tx.trade \in TradeIds /\ tx.op \in {"deposit", "release", "refund"}
  BY DEF Transaction
<1>2. /\ tx.op = "deposit" => escrow[tx.trade].state = "open"
      /\ tx.op # "deposit" => escrow[tx.trade].state = "funded"
  BY DEF Accepted
<1>3. \A t \in TradeIds : t # tx.trade => escrow'[t] = escrow[t]
  BY LandedEscrow
<1>4. /\ tx.op = "deposit" => escrow'[tx.trade].state = "funded"
                              /\ escrow'[tx.trade].depositor = tx.by
      /\ tx.op = "release" => escrow'[tx.trade].state = "released"
                              /\ escrow'[tx.trade].depositor = escrow[tx.trade].depositor
      /\ tx.op = "refund" => escrow'[tx.trade].state = "refunded"
                             /\ escrow'[tx.trade].depositor = escrow[tx.trade].depositor
  <2>1. /\ tx.op = "deposit" =>
             escrow'[tx.trade] = [state |-> "funded", depositor |-> tx.by]
        /\ tx.op = "release" => escrow'[tx.trade] =
             [state |-> "released", depositor |-> escrow[tx.trade].depositor]
        /\ tx.op = "refund" => escrow'[tx.trade] =
             [state |-> "refunded", depositor |-> escrow[tx.trade].depositor]
    BY LandedEscrow
  <2> DEFINE e == escrow'[tx.trade]
             d == escrow[tx.trade].depositor
  <2> HIDE DEF e, d
  <2>2. /\ tx.op = "deposit" => e = [state |-> "funded", depositor |-> tx.by]
        /\ tx.op = "release" => e = [state |-> "released", depositor |-> d]
        /\ tx.op = "refund" => e = [state |-> "refunded", depositor |-> d]
    BY <2>1 DEF e, d
  <2>3. /\ tx.op = "deposit" => e.state = "funded" /\ e.depositor = tx.by
        /\ tx.op = "release" => e.state = "released" /\ e.depositor = d
        /\ tx.op = "refund" => e.state = "refunded" /\ e.depositor = d
    BY <2>2
  <2>4. QED
    BY <2>3 DEF e, d
<1>5. escrow[tx.trade].state = "open" => escrow[tx.trade].depositor = NoOne
  BY <1>1 DEF EscrowShape
<1>6. ASSUME NEW t \in TradeIds
      PROVE  /\ escrow[t].state \in {"released", "refunded"} => escrow'[t] = escrow[t]
             /\ escrow[t].depositor # NoOne => escrow'[t].depositor = escrow[t].depositor
             /\ escrow'[t].state = "funded" =>
                  escrow[t].state = "funded" \/ escrow[t].depositor = NoOne
             /\ escrow'[t].state \in {"none", "open"} => escrow'[t].depositor = NoOne
  <2>1. CASE t # tx.trade
    BY <1>3, <2>1 DEF EscrowShape
  <2>2. CASE t = tx.trade
    BY <1>1, <1>2, <1>4, <1>5, <2>2
  <2>3. QED
    BY <2>1, <2>2
<1>7. QED
  BY <1>2, <1>4, <1>6 DEF EscrowStep

\* What a success says about the escrow.
LEMMA SubmitStep ==
  ASSUME TypeOK, EscrowShape, NEW tx \in Transaction, NEW answer \in Answers, Submit(tx, answer)
  PROVE  /\ EscrowStep
         /\ answer = "success" =>
              /\ tx.op = "deposit" => escrow'[tx.trade].depositor = tx.by
              /\ tx.op = "release" => escrow[tx.trade].state = "funded"
                                      /\ escrow'[tx.trade].state = "released"
              /\ tx.op = "refund" => escrow'[tx.trade].state = "refunded"
<1>1. CASE Accepted(tx) /\ escrow' = Landed(tx)
  BY <1>1, LandedStep
<1>2. CASE UNCHANGED escrow
  <2>1. EscrowStep
    BY <1>2, SameEscrow
  <2>2. CASE answer = "success" /\ ~AlreadyLanded(tx)
    <3>1. Accepted(tx) /\ escrow' = Landed(tx)
      BY <2>2 DEF Submit
    <3>2. QED
      BY <1>1, <3>1
  <2>3. CASE answer = "success" /\ AlreadyLanded(tx)
    BY <1>2, <2>1, <2>3 DEF AlreadyLanded
  <2>4. QED
    BY <2>1, <2>2, <2>3
<1>3. QED
  BY <1>1, <1>2 DEF Submit, chain

\* What is believed about an escrow stays true, whatever the chain does.
LEMMA Undisturbed ==
  ASSUME TypeOK, Money, EscrowStep
  PROVE  /\ EscrowShape'
         /\ UNCHANGED trades => RowsRight'
         /\ UNCHANGED buys => DepositedIsDepositor'
         /\ UNCHANGED <<runs, settled>> => ReleasedRuns'
         /\ UNCHANGED settled => SettledOnceWhenPaid'
         /\ UNCHANGED resolving => ConfirmedEnded'
         /\ UNCHANGED refunds => DoneRefunds'
         /\ UNCHANGED <<trades, refunds>> => CancelledKeepAJob'
<1> USE DEF Money, EscrowStep
<1>1. EscrowShape'
  BY DEF EscrowShape
<1>2. UNCHANGED trades => RowsRight'
  <2>1. UNCHANGED trades => CompletedIsPaid' /\ ActiveHasNoBuyer' /\ DepositHasBuyer'
    BY DEF RowsRight, CompletedIsPaid, ActiveHasNoBuyer, DepositHasBuyer, HasStatus
  <2>2. ASSUME UNCHANGED trades, NEW t \in TradeIds, trades[t] # NoTrade, trades[t].deposit # 0
        PROVE  escrow'[trades[t].deposit].depositor = trades[t].buyer
    <3>1. trades[t].deposit \in TradeIds /\ trades[t].buyer # NoOne
      BY <2>2, RowType DEF RowsRight, DepositHasBuyer, TradeOffer, Deposit
    <3>2. escrow[trades[t].deposit].depositor = trades[t].buyer
      BY <2>2 DEF RowsRight, BuyerHasDeposited
    <3>3. QED
      BY <3>1, <3>2
  <2>3. QED
    BY <2>1, <2>2 DEF RowsRight, BuyerHasDeposited
<1>3. UNCHANGED buys => DepositedIsDepositor'
  <2>1. \A i \in 1..Len(buys) : buys[i].deposit \in Deposit /\ buys[i].buyer # NoOne
    BY ListsType, TradeAssumption DEF Buy, TradeAssumption
  <2>2. QED
    BY <2>1 DEF DepositedIsDepositor, Deposit
<1>4. UNCHANGED <<runs, settled>> => ReleasedRuns'
  <2>1. \A i \in 1..Len(runs) : runs[i].trade \in TradeIds
    BY ListsType DEF Run
  <2>2. QED
    BY <2>1 DEF ReleasedRuns
<1>5. UNCHANGED settled => SettledOnceWhenPaid'
  BY DEF SettledOnceWhenPaid
<1>6. UNCHANGED resolving => ConfirmedEnded'
  <2>1. \A r \in resolving : r.trade \in TradeIds
    BY DEF TypeOK, Resolving
  <2>2. QED
    BY <2>1 DEF ConfirmedEnded
<1>7. UNCHANGED refunds => DoneRefunds'
  BY DEF DoneRefunds
<1>8. UNCHANGED <<trades, refunds>> => CancelledKeepAJob'
  BY DEF CancelledKeepAJob, HasStatus
<1>9. QED
  BY <1>1, <1>2, <1>3, <1>4, <1>5, <1>6, <1>7, <1>8

\* A row written with a deposit its buyer has made, and with an end the escrow has reached.
LEMMA RowWritten ==
  ASSUME TypeOK, Money, UNCHANGED escrow,
         NEW t \in TradeIds, NEW row \in TradeOffer, trades' = [trades EXCEPT ![t] = row],
         row.deposit # 0 => row.buyer # NoOne /\ escrow[row.deposit].depositor = row.buyer,
         row.status = "Active" => row.buyer = NoOne,
         row.status = "Completed" => escrow[t].state = "released",
         row.status = "Cancelled" => escrow[t].state = "refunded"
  PROVE  RowsRight' /\ (UNCHANGED refunds => CancelledKeepAJob')
<1>1. \A u \in TradeIds : trades'[u] = IF u = t THEN row ELSE trades[u]
  BY DEF TypeOK
<1>2. RowsRight'
  BY <1>1 DEF Money, RowsRight, BuyerHasDeposited, DepositHasBuyer, CompletedIsPaid,
              ActiveHasNoBuyer, HasStatus
<1>3. UNCHANGED refunds => CancelledKeepAJob'
  BY <1>1 DEF Money, CancelledKeepAJob, HasStatus
<1>4. QED
  BY <1>2, <1>3

\* A row whose status alone changes.
LEMMA StatusWritten ==
  ASSUME TypeOK, Money, UNCHANGED escrow,
         NEW t \in TradeIds, NEW status \in TradeStatus, trades[t] # NoTrade,
         trades' = [trades EXCEPT ![t] = [@ EXCEPT !.status = status]],
         status # "Active",
         status = "Completed" => escrow[t].state = "released",
         status = "Cancelled" => escrow[t].state = "refunded"
  PROVE  RowsRight' /\ (UNCHANGED refunds => CancelledKeepAJob')
<1> DEFINE row == [trades[t] EXCEPT !.status = status]
<1>1. trades[t] \in TradeOffer
  BY RowType
<1>2. /\ row \in TradeOffer /\ row.status = status
      /\ row.buyer = trades[t].buyer /\ row.deposit = trades[t].deposit
  BY <1>1 DEF TradeOffer
<1>3. row.deposit # 0 => row.buyer # NoOne /\ escrow[row.deposit].depositor = row.buyer
  BY <1>2 DEF Money, RowsRight, BuyerHasDeposited, DepositHasBuyer
<1>4. trades' = [trades EXCEPT ![t] = row]
  OBVIOUS
<1> HIDE DEF row
<1>5. QED
  BY <1>2, <1>3, <1>4, RowWritten

\* A run that moves, other than to "released".
LEMMA RunWritten ==
  ASSUME TypeOK, Money, EscrowStep, UNCHANGED settled,
         NEW i \in 1..Len(runs), NEW run \in Run, runs' = [runs EXCEPT ![i] = run],
         run.step # "released"
  PROVE  ReleasedRuns'
<1>1. /\ Len(runs') = Len(runs)
      /\ \A j \in 1..Len(runs) : runs'[j] = IF j = i THEN run ELSE runs[j]
  BY RunMoved
<1>2. \A j \in 1..Len(runs) : runs[j].trade \in TradeIds
  BY ListsType DEF Run
<1>3. QED
  BY <1>1, <1>2 DEF Money, ReleasedRuns, EscrowStep

\* A buy that moves, to "submitted" with a deposit only when its buyer has made it.
LEMMA BuyWritten ==
  ASSUME TypeOK, Money, EscrowStep,
         NEW i \in 1..Len(buys), NEW buy \in Buy, buys' = [buys EXCEPT ![i] = buy],
         buy.step = "submitted" /\ buy.deposit # 0 =>
           escrow'[buy.deposit].depositor = buy.buyer
  PROVE  DepositedIsDepositor'
<1>1. /\ Len(buys') = Len(buys)
      /\ \A j \in 1..Len(buys) : buys'[j] = IF j = i THEN buy ELSE buys[j]
  BY BuyMoved
<1>2. \A j \in 1..Len(buys) : buys[j].deposit \in Deposit /\ buys[j].buyer # NoOne
  BY ListsType, TradeAssumption DEF Buy, TradeAssumption
<1>3. \A j \in 1..Len(buys) : buys[j].step = "submitted" /\ buys[j].deposit # 0 =>
        escrow'[buys[j].deposit].depositor = buys[j].buyer
  BY <1>2 DEF Money, DepositedIsDepositor, EscrowStep, Deposit
<1>4. QED
  BY <1>1, <1>3 DEF DepositedIsDepositor

\* A refund job that moves, to "done" only when the buyer has its tokens back.
LEMMA RefundWritten ==
  ASSUME TypeOK, Money, EscrowStep, UNCHANGED trades,
         NEW t \in TradeIds, NEW n \in 1..Len(refunds[t]), NEW job \in Refund,
         RefundBecomes(t, n, job),
         job.state = "done" => escrow'[t].state = "refunded"
  PROVE  DoneRefunds' /\ CancelledKeepAJob'
<1>1. /\ \A u \in TradeIds : Len(refunds'[u]) = Len(refunds[u])
      /\ refunds'[t][n] = job
      /\ \A u \in TradeIds : \A m \in 1..Len(refunds[u]) :
           u # t \/ m # n => refunds'[u][m] = refunds[u][m]
  BY RefundMoved
<1>2. DoneRefunds'
  BY <1>1 DEF Money, DoneRefunds, EscrowStep
<1>3. ASSUME NEW u \in TradeIds, HasStatus(u, "Cancelled"), trades[u].buyer # NoOne,
             escrow'[u].state \notin {"released", "refunded"}
      PROVE  \E m \in 1..Len(refunds'[u]) : refunds'[u][m].state # "done"
  <2>2. escrow[u].state \notin {"released", "refunded"}
    BY <1>3 DEF EscrowStep
  <2>3. PICK m \in 1..Len(refunds[u]) : refunds[u][m].state # "done"
    BY <1>3, <2>2 DEF Money, CancelledKeepAJob
  <2>4. refunds'[u][m].state # "done"
    BY <1>1, <1>3, <2>3
  <2>5. QED
    BY <1>1, <2>3, <2>4
<1>4. QED
  BY <1>2, <1>3 DEF CancelledKeepAJob, HasStatus

-----------------------------------------------------------------------------
(* Every step preserves Money; under each action, the parts it disturbs.   *)

LEMMA TableSteps ==
  ASSUME IInv, UNCHANGED escrow,
         \/ \E t \in TradeIds, s \in Sellers : InsertTrade(t, s)
         \/ \E t \in TradeIds : FileDispute(t)
         \/ \E i \in 1..Len(buys) : LockTrade(i)
         \/ \E r \in resolving : CommitResolve(r)
  PROVE  Money'
<1> USE DEF handlers
<1>1. TypeOK /\ Money /\ RowsExist /\ EscrowStep
  BY SameEscrow DEF IInv, Money
<1>2. ASSUME NEW t \in TradeIds, NEW s \in Sellers, InsertTrade(t, s) PROVE Money'
  <2> DEFINE row == [seller |-> s, buyer |-> NoOne, status |-> "Active", deposit |-> 0]
  <2>1. row \in TradeOffer /\ row.buyer = NoOne /\ row.status = "Active" /\ row.deposit = 0
    BY TradeAssumption DEF TradeOffer, TradeStatus, TradeAssumption, Deposit
  <2>2. UNCHANGED trades \/ trades' = [trades EXCEPT ![t] = row]
    BY <1>2 DEF InsertTrade
  <2>3. UNCHANGED <<settled, buys, runs, resolving, refunds>>
    BY <1>2 DEF InsertTrade
  <2> HIDE DEF row
  <2>4. RowsRight' /\ CancelledKeepAJob'
    BY <1>1, <2>1, <2>2, <2>3, RowWritten, Undisturbed
  <2>5. QED
    BY <1>1, <2>3, <2>4, Undisturbed DEF Money
<1>3. ASSUME NEW t \in TradeIds, FileDispute(t) PROVE Money'
  <2>1. /\ trades[t] # NoTrade
        /\ trades' = [trades EXCEPT ![t] = [@ EXCEPT !.status = "Disputed"]]
        /\ UNCHANGED <<settled, buys, runs, resolving, refunds>>
    BY <1>3 DEF FileDispute, HasStatus
  <2>2. RowsRight' /\ CancelledKeepAJob'
    BY <1>1, <2>1, StatusWritten DEF TradeStatus
  <2>3. QED
    BY <1>1, <2>1, <2>2, Undisturbed DEF Money
<1>4. ASSUME NEW i \in 1..Len(buys), LockTrade(i) PROVE Money'
  <2> DEFINE t == buys[i].trade
             row == Locked(t, buys[i])[t]
             ended == Ended(buys[i])
  <2>1. /\ buys[i] \in Buy /\ t \in TradeIds /\ trades[t] # NoTrade
        /\ buys[i].buyer # NoOne /\ ended \in Buy /\ ended.step = "ended"
    BY <1>1, ListsType, EndedBuy, TradeAssumption DEF Buy, RowsExist, TradeAssumption
  <2>2. /\ row \in TradeOffer /\ row.buyer = buys[i].buyer /\ row.status = "Locked"
        /\ row.deposit = buys[i].deposit
        /\ Locked(t, buys[i]) = [trades EXCEPT ![t] = row]
    BY <1>1, <2>1, LockedRow
  <2>3. row.deposit # 0 => row.buyer # NoOne /\ escrow[row.deposit].depositor = row.buyer
    BY <1>1, <1>4, <2>1, <2>2 DEF LockTrade, Money, DepositedIsDepositor
  <2>4. /\ UNCHANGED trades \/ trades' = [trades EXCEPT ![t] = row]
        /\ buys' = [buys EXCEPT ![i] = ended]
        /\ UNCHANGED <<settled, runs, resolving, refunds>>
    BY <1>4, <2>2 DEF LockTrade
  <2> HIDE DEF t, row, ended
  <2>5. RowsRight' /\ CancelledKeepAJob'
    BY <1>1, <2>1, <2>2, <2>3, <2>4, RowWritten, Undisturbed
  <2>6. DepositedIsDepositor'
    BY <1>1, <2>1, <2>4, BuyWritten
  <2>7. QED
    BY <1>1, <2>4, <2>5, <2>6, Undisturbed DEF Money
<1>5. ASSUME NEW r \in resolving, CommitResolve(r) PROVE Money'
  <2>1. r.trade \in TradeIds /\ trades[r.trade] # NoTrade
    BY <1>1 DEF TypeOK, Resolving, RowsExist
  <2>2. escrow[r.trade].state = IF r.resolution = "RELEASE" THEN "released" ELSE "refunded"
    BY <1>1, <1>5 DEF CommitResolve, Money, ConfirmedEnded
  <2>3. PICK status \in {"Completed", "Cancelled"} :
          /\ \/ trades' = [trades EXCEPT ![r.trade] = [@ EXCEPT !.status = status]]
             \/ UNCHANGED trades
          /\ status = "Completed" <=> r.resolution = "RELEASE"
    BY <1>5 DEF CommitResolve
  <2>4. UNCHANGED <<settled, buys, runs, refunds>> /\ resolving' = resolving \ {r}
    BY <1>5 DEF CommitResolve
  <2>5. RowsRight' /\ CancelledKeepAJob'
    <3>1. CASE UNCHANGED trades
      BY <1>1, <2>4, <3>1, Undisturbed
    <3>2. CASE trades' = [trades EXCEPT ![r.trade] = [@ EXCEPT !.status = status]]
      <4>1. /\ status \in TradeStatus /\ status # "Active"
            /\ status = "Completed" => escrow[r.trade].state = "released"
            /\ status = "Cancelled" => escrow[r.trade].state = "refunded"
        BY <2>2, <2>3 DEF TradeStatus
      <4>2. QED
        BY <1>1, <2>1, <2>4, <3>2, <4>1, StatusWritten
    <3>3. QED
      BY <2>3, <3>1, <3>2
  <2>6. ConfirmedEnded'
    BY <1>1, <2>4 DEF Money, ConfirmedEnded
  <2>7. QED
    BY <1>1, <2>4, <2>5, <2>6, Undisturbed DEF Money
<1>6. QED
  BY <1>2, <1>3, <1>4, <1>5

\* The calls to the chain.
LEMMA ChainSteps ==
  ASSUME IInv,
         \/ \E tx \in inFlight : LandLate(tx)
         \/ \E t \in TradeIds, s \in Sellers : ListOnChain(t, s)
         \/ \E i \in 1..Len(buys) : SubmitDeposit(i)
         \/ \E r \in resolving : ResolveOnChain(r)
         \/ \E t \in TradeIds : \E n \in 1..Len(refunds[t]) : RefundOnChain(t, n)
  PROVE  Money'
<1> USE DEF table, handlers
<1>1. TypeOK /\ Money /\ EscrowShape
  BY DEF IInv, Money
<1>2. ASSUME EscrowStep, UNCHANGED <<trades, settled, buys, runs, resolving, refunds>>
      PROVE  Money'
  BY <1>1, <1>2, Undisturbed DEF Money
<1>3. ASSUME NEW tx \in inFlight, LandLate(tx) PROVE Money'
  <2>1. tx \in Transaction
    BY <1>1 DEF TypeOK
  <2>2. (Accepted(tx) /\ escrow' = Landed(tx)) \/ UNCHANGED escrow
    BY <1>3 DEF LandLate
  <2>3. EscrowStep
    BY <1>1, <2>1, <2>2, LandedStep, SameEscrow
  <2>4. QED
    BY <1>2, <1>3, <2>3 DEF LandLate
<1>4. ASSUME NEW t \in TradeIds, NEW s \in Sellers, ListOnChain(t, s) PROVE Money'
  <2>1. /\ escrow' = [escrow EXCEPT ![t].state = "open"]
        /\ escrow[t].state = "none"
        /\ UNCHANGED <<trades, settled, buys, runs, resolving, refunds>>
    BY <1>4 DEF ListOnChain
  <2>2. escrow'[t].state = "open" /\ escrow'[t].depositor = escrow[t].depositor
    BY <1>1, <2>1 DEF TypeOK, Escrow
  <2>3. \A u \in TradeIds : u # t => escrow'[u] = escrow[u]
    BY <1>1, <2>1 DEF TypeOK
  <2>4. EscrowStep
    BY <1>1, <2>1, <2>2, <2>3 DEF EscrowStep, EscrowShape
  <2>5. QED
    BY <1>2, <2>1, <2>4
<1>5. ASSUME NEW i \in 1..Len(buys), SubmitDeposit(i) PROVE Money'
  <2>1. PICK answer \in Answers, e \in Deposit :
          /\ IF e = 0 THEN UNCHANGED chain
             ELSE Submit([op |-> "deposit", trade |-> e, by |-> buys[i].buyer], answer)
          /\ buys' = [buys EXCEPT ![i] = Submitted(buys[i], e, answer)]
    BY <1>5 DEF SubmitDeposit
  <2>2. buys[i] \in Buy /\ buys[i].buyer \in Users /\ buys[i].step = "checked"
    BY <1>1, <1>5, ListsType DEF Buy, SubmitDeposit
  <2>3. EscrowStep /\ (answer = "success" /\ e # 0 => escrow'[e].depositor = buys[i].buyer)
    <3>1. CASE e = 0
      BY <1>1, <2>1, <3>1, SameEscrow DEF chain
    <3>2. CASE e # 0
      <4> DEFINE tx == [op |-> "deposit", trade |-> e, by |-> buys[i].buyer]
      <4>1. tx \in Transaction /\ tx.op = "deposit" /\ tx.trade = e /\ tx.by = buys[i].buyer
        BY <2>2, <3>2 DEF Transaction, Deposit
      <4>2. Submit(tx, answer)
        BY <2>1, <3>2
      <4> HIDE DEF tx
      <4>3. QED
        BY <1>1, <4>1, <4>2, SubmitStep
    <3>3. QED
      BY <3>1, <3>2
  <2> DEFINE buy == Submitted(buys[i], e, answer)
  <2>4. /\ buy \in Buy /\ buy.buyer = buys[i].buyer
        /\ buy.step = "submitted" => answer = "success" /\ buy.deposit = e
    BY <2>2, SubmittedBuy
  <2> HIDE DEF buy
  <2>5. buys' = [buys EXCEPT ![i] = buy]
    BY <2>1 DEF buy
  <2>6. DepositedIsDepositor'
    BY <1>1, <2>3, <2>4, <2>5, BuyWritten
  <2>7. UNCHANGED <<trades, settled, runs, resolving, refunds>>
    BY <1>5 DEF SubmitDeposit
  <2>8. QED
    BY <1>1, <2>3, <2>6, <2>7, Undisturbed DEF Money
<1>6. ASSUME NEW r \in resolving, ResolveOnChain(r) PROVE Money'
  <2> DEFINE tx == [op |-> IF r.resolution = "RELEASE" THEN "release" ELSE "refund",
                    trade |-> r.trade, by |-> NoOne]
  <2>1. r \in Resolving
    BY <1>1 DEF TypeOK
  <2>2. tx \in Transaction /\ tx.trade = r.trade
        /\ tx.op = IF r.resolution = "RELEASE" THEN "release" ELSE "refund"
    BY <2>1 DEF Transaction, Resolving
  <2>3. PICK answer \in Answers :
          /\ Submit(tx, answer)
          /\ resolving' = (resolving \ {r}) \cup
               IF Confirmed(answer) THEN {[r EXCEPT !.confirmed = TRUE]} ELSE {}
    BY <1>6 DEF ResolveOnChain
  <2> HIDE DEF tx
  <2>4. EscrowStep
        /\ (answer = "success" =>
              escrow'[r.trade].state = IF r.resolution = "RELEASE" THEN "released" ELSE "refunded")
    BY <1>1, <2>2, <2>3, SubmitStep
  <2> DEFINE confirmed == [r EXCEPT !.confirmed = TRUE]
  <2>5. confirmed.trade = r.trade /\ confirmed.resolution = r.resolution
    BY <2>1 DEF Resolving
  <2>6. \A x \in resolving' : x \in resolving \/ (answer = "success" /\ x = confirmed)
    <3>1. CASE Confirmed(answer)
      <4>1. resolving' = (resolving \ {r}) \cup {confirmed}
        BY <2>3, <3>1
      <4> HIDE DEF confirmed
      <4>2. \A x \in resolving' : x \in resolving \/ x = confirmed
        BY <4>1
      <4>3. QED
        BY <3>1, <4>2 DEF Confirmed
    <3>2. CASE ~Confirmed(answer)
      <4>1. resolving' = (resolving \ {r}) \cup {}
        BY <2>3, <3>2
      <4>2. QED
        BY <4>1
    <3>3. QED
      BY <3>1, <3>2
  <2> HIDE DEF confirmed
  <2>7. \A x \in resolving : x.confirmed =>
          escrow'[x.trade].state = IF x.resolution = "RELEASE" THEN "released" ELSE "refunded"
    <3>1. \A x \in resolving : x.trade \in TradeIds
      BY <1>1 DEF TypeOK, Resolving
    <3>2. QED
      BY <1>1, <2>4, <3>1 DEF Money, ConfirmedEnded, EscrowStep
  <2>8. ConfirmedEnded'
    BY <2>4, <2>5, <2>6, <2>7 DEF ConfirmedEnded
  <2>9. UNCHANGED <<trades, settled, buys, runs, refunds>>
    BY <1>6 DEF ResolveOnChain
  <2>10. QED
    BY <1>1, <2>4, <2>8, <2>9, Undisturbed DEF Money
<1>7. ASSUME NEW t \in TradeIds, NEW n \in 1..Len(refunds[t]), RefundOnChain(t, n)
      PROVE  Money'
  <2> DEFINE tx == [op |-> "refund", trade |-> t, by |-> NoOne]
  <2>1. tx \in Transaction /\ tx.op = "refund" /\ tx.trade = t
    BY DEF Transaction
  <2>2. PICK answer \in Answers :
          /\ Submit(tx, answer)
          /\ refunds' = [refunds EXCEPT ![t][n].state =
               IF answer = "success" THEN "done"
               ELSE IF refunds[t][n].attempts < MaxAttempts THEN "queued" ELSE "dead"]
    BY <1>7 DEF RefundOnChain
  <2> HIDE DEF tx
  <2>3. EscrowStep /\ (answer = "success" => escrow'[t].state = "refunded")
    BY <1>1, <2>1, <2>2, SubmitStep
  <2>4. PICK s \in {"done", "queued", "dead"} :
          /\ RefundBecomes(t, n, [refunds[t][n] EXCEPT !.state = s])
          /\ s = "done" => answer = "success"
    BY <2>2 DEF RefundBecomes
  <2>5. /\ [refunds[t][n] EXCEPT !.state = s] \in Refund
        /\ [refunds[t][n] EXCEPT !.state = s].state = s
    BY <1>1, ListsType DEF Refund
  <2>6. UNCHANGED <<trades, settled, buys, runs, resolving>>
    BY <1>7 DEF RefundOnChain
  <2>7. DoneRefunds' /\ CancelledKeepAJob'
    BY <1>1, <2>3, <2>4, <2>5, <2>6, RefundWritten
  <2>8. QED
    BY <1>1, <2>3, <2>6, <2>7, Undisturbed DEF Money
<1>8. QED
  BY <1>3, <1>4, <1>5, <1>6, <1>7

\* The background runs.
LEMMA RunSteps ==
  ASSUME IInv,
         \/ \E t \in TradeIds : ConfirmDelivery(t)
         \/ \E i \in 1..Len(runs) : Verification(i)
  PROVE  Money'
<1> USE DEF table, chain
<1>1. TypeOK /\ Money /\ EscrowShape
  BY DEF IInv, Money
<1>2. UNCHANGED escrow => EscrowStep
  BY <1>1, SameEscrow
<1>3. ASSUME NEW t \in TradeIds, ConfirmDelivery(t) PROVE Money'
  <2> DEFINE run == [trade |-> t, attempt |-> 1, step |-> "releasing"]
  <2>1. run \in Run /\ run.step # "released"
    BY TradeAssumption DEF Run, TradeAssumption
  <2>2. runs' = Append(runs, run)
        /\ UNCHANGED <<trades, settled, escrow, buys, resolving, refunds>>
    BY <1>3 DEF ConfirmDelivery
  <2> HIDE DEF run
  <2>3. /\ Len(runs') = Len(runs) + 1
        /\ \A j \in 1..Len(runs) : runs'[j] = runs[j]
        /\ runs'[Len(runs) + 1] = run
    BY <1>1, <2>1, <2>2, AppendProperties DEF TypeOK
  <2>4. \A j \in 1..Len(runs') : runs'[j].step = "released" => j \in 1..Len(runs)
    BY <1>1, <2>1, <2>3, ListsType
  <2>5. ReleasedRuns'
    BY <1>1, <2>2, <2>3, <2>4 DEF Money, ReleasedRuns
  <2>6. QED
    BY <1>1, <1>2, <2>2, <2>5, Undisturbed DEF Money
<1>4. ASSUME NEW i \in 1..Len(runs), ReleasePayment(i) PROVE Money'
  <2> DEFINE tx == [op |-> "release", trade |-> runs[i].trade, by |-> NoOne]
  <2>1. runs[i] \in Run /\ runs[i].trade \in TradeIds
    BY <1>1, ListsType DEF Run
  <2>2. tx \in Transaction /\ tx.op = "release" /\ tx.trade = runs[i].trade
    BY <2>1 DEF Transaction
  <2>3. PICK answer \in Answers :
          Submit(tx, answer) /\ runs' = [runs EXCEPT ![i] = Answered(runs[i], answer)]
    BY <1>4 DEF ReleasePayment
  <2> HIDE DEF tx
  <2>4. EscrowStep
        /\ (answer = "success" => /\ escrow[runs[i].trade].state = "funded"
                                  /\ escrow'[runs[i].trade].state = "released")
    BY <1>1, <2>2, <2>3, SubmitStep
  <2>5. UNCHANGED <<trades, settled, buys, resolving, refunds>>
    BY <1>4 DEF ReleasePayment
  <2>6. /\ Answered(runs[i], answer) \in Run
        /\ Answered(runs[i], answer).trade = runs[i].trade
        /\ Answered(runs[i], answer).step = "released" => answer = "success"
    BY <2>1, AnsweredRun
  <2>7. ReleasedRuns'
    <3>1. CASE Answered(runs[i], answer).step # "released"
      BY <1>1, <2>3, <2>4, <2>5, <2>6, <3>1, RunWritten
    <3>2. CASE Answered(runs[i], answer).step = "released"
      <4>1. /\ escrow[runs[i].trade].state = "funded"
            /\ escrow'[runs[i].trade].state = "released"
        BY <2>4, <2>6, <3>2
      <4>2. settled[runs[i].trade] = 0
        <5>1. settled[runs[i].trade] \in Nat /\ settled[runs[i].trade] <= 1
          BY <1>1, <2>1 DEF Money, SettledOnceWhenPaid, TypeOK
        <5>2. settled[runs[i].trade] # 1
          BY <1>1, <2>1, <4>1 DEF Money, SettledOnceWhenPaid
        <5>3. QED
          BY <5>1, <5>2
      <4>3. \A j \in 1..Len(runs) : runs[j].step = "released" => runs[j].trade # runs[i].trade
        BY <1>1, <4>1 DEF Money, ReleasedRuns
      <4>4. \A j \in 1..Len(runs) : runs[j].step = "released" =>
              escrow'[runs[j].trade].state = "released" /\ settled[runs[j].trade] = 0
        <5>1. \A j \in 1..Len(runs) : runs[j].trade \in TradeIds
          BY <1>1, ListsType DEF Run
        <5>2. QED
          BY <1>1, <2>4, <5>1 DEF Money, ReleasedRuns, EscrowStep
      <4>5. /\ Len(runs') = Len(runs)
            /\ \A j \in 1..Len(runs) :
                 runs'[j] = IF j = i THEN Answered(runs[i], answer) ELSE runs[j]
        BY <1>1, <2>3, <2>6, RunMoved
      <4>6. QED
        BY <1>1, <2>5, <2>6, <4>1, <4>2, <4>3, <4>4, <4>5 DEF Money, ReleasedRuns
    <3>3. QED
      BY <3>1, <3>2
  <2>8. QED
    BY <1>1, <2>4, <2>5, <2>7, Undisturbed DEF Money
<1>5. ASSUME NEW i \in 1..Len(runs), Settle(i) PROVE Money'
  <2> DEFINE t == runs[i].trade
             ended == [runs[i] EXCEPT !.step = "ended"]
  <2>1. runs[i] \in Run /\ t \in TradeIds /\ runs[i].step = "released"
    BY <1>1, <1>5, ListsType DEF Run, Settle
  <2>2. ended \in Run /\ ended.step = "ended"
    BY <2>1 DEF Run
  <2>3. Retried(runs[i]) \in Run /\ Retried(runs[i]).step # "released"
    BY <2>1, AnsweredRun DEF Answers
  <2>4. UNCHANGED <<escrow, buys, resolving, refunds>>
    BY <1>5 DEF Settle
  <2>5. \/ /\ HasStatus(t, "Locked")
           /\ trades' = [trades EXCEPT ![t] = [@ EXCEPT !.status = "Completed"]]
           /\ settled' = [settled EXCEPT ![t] = @ + 1]
           /\ runs' = [runs EXCEPT ![i] = ended]
        \/ /\ runs' = [runs EXCEPT ![i] = ended] \/ runs' = [runs EXCEPT ![i] = Retried(runs[i])]
           /\ UNCHANGED <<trades, settled>>
    BY <1>5 DEF Settle
  <2>6. /\ escrow[t].state = "released"
        /\ settled[t] = 0
        /\ \A j \in 1..Len(runs) : runs[j].step = "released" /\ runs[j].trade = t => j = i
    BY <1>1, <2>1 DEF Money, ReleasedRuns
  <2> HIDE DEF t, ended
  <2>7. CASE /\ runs' = [runs EXCEPT ![i] = ended] \/ runs' = [runs EXCEPT ![i] = Retried(runs[i])]
             /\ UNCHANGED <<trades, settled>>
    <3>1. ReleasedRuns'
      BY <1>1, <1>2, <2>2, <2>3, <2>4, <2>7, RunWritten
    <3>2. QED
      BY <1>1, <1>2, <2>4, <2>7, <3>1, Undisturbed DEF Money
  <2>8. CASE /\ HasStatus(t, "Locked")
             /\ trades' = [trades EXCEPT ![t] = [@ EXCEPT !.status = "Completed"]]
             /\ settled' = [settled EXCEPT ![t] = @ + 1]
             /\ runs' = [runs EXCEPT ![i] = ended]
    <3>1. RowsRight' /\ CancelledKeepAJob'
      BY <1>1, <2>1, <2>4, <2>6, <2>8, StatusWritten DEF TradeStatus, HasStatus
    <3>2. settled'[t] = 1 /\ \A u \in TradeIds : u # t => settled'[u] = settled[u]
      BY <1>1, <2>1, <2>6, <2>8 DEF TypeOK
    <3>3. SettledOnceWhenPaid'
      BY <1>1, <2>4, <2>6, <3>2 DEF Money, SettledOnceWhenPaid
    <3>4. ReleasedRuns'
      <4>1. /\ Len(runs') = Len(runs)
            /\ \A j \in 1..Len(runs) : runs'[j] = IF j = i THEN ended ELSE runs[j]
        BY <1>1, <2>2, <2>8, RunMoved
      <4>2. \A j \in 1..Len(runs) : runs'[j].step = "released" =>
              j # i /\ runs'[j] = runs[j] /\ runs[j].trade # t /\ runs[j].trade \in TradeIds
        BY <1>1, <2>2, <2>6, <4>1, ListsType DEF Run
      <4>3. QED
        BY <1>1, <2>4, <3>2, <4>1, <4>2 DEF Money, ReleasedRuns
    <3>5. QED
      BY <1>1, <1>2, <2>4, <3>1, <3>3, <3>4, Undisturbed DEF Money
  <2>9. QED
    BY <2>5, <2>7, <2>8
<1>6. ASSUME NEW i \in 1..Len(runs), Escalate(i) PROVE Money'
  <2> DEFINE t == runs[i].trade
             ended == [runs[i] EXCEPT !.step = "ended"]
  <2>1. ended \in Run /\ ended.step = "ended" /\ t \in TradeIds
    BY <1>1, ListsType DEF Run
  <2>2. /\ runs' = [runs EXCEPT ![i] = ended]
        /\ \/ /\ HasStatus(t, "Locked")
              /\ trades' = [trades EXCEPT ![t] = [@ EXCEPT !.status = "Disputed"]]
           \/ UNCHANGED trades
        /\ UNCHANGED <<settled, escrow, buys, resolving, refunds>>
    BY <1>6 DEF Escalate
  <2> HIDE DEF t, ended
  <2>3. ReleasedRuns'
    BY <1>1, <1>2, <2>1, <2>2, RunWritten
  <2>4. RowsRight' /\ CancelledKeepAJob'
    <3>1. CASE UNCHANGED trades
      BY <1>1, <1>2, <2>2, <3>1, Undisturbed
    <3>2. CASE /\ HasStatus(t, "Locked")
               /\ trades' = [trades EXCEPT ![t] = [@ EXCEPT !.status = "Disputed"]]
      BY <1>1, <2>1, <2>2, <3>2, StatusWritten DEF TradeStatus, HasStatus
    <3>3. QED
      BY <2>2, <3>1, <3>2
  <2>5. QED
    BY <1>1, <1>2, <2>2, <2>3, <2>4, Undisturbed DEF Money
<1>7. QED
  BY <1>3, <1>4, <1>5, <1>6 DEF Verification

\* What handlers and jobs do beside the chain, and a crash.
LEMMA HandlerSteps ==
  ASSUME IInv,
         \/ \E t \in TradeIds, b \in Users : StartBuy(t, b)
         \/ \E t \in TradeIds, resolution \in Resolution : StartResolve(t, resolution)
         \/ \E u \in Users : DeleteAccount(u)
         \/ \E t \in TradeIds : \E n \in 1..Len(refunds[t]) :
              EnqueueRefund(t, n) \/ StartRefund(t, n)
         \/ Crash
  PROVE  Money'
<1> USE DEF table, chain
<1>1. TypeOK /\ Money /\ EscrowShape
  BY DEF IInv, Money
<1>2. UNCHANGED escrow => EscrowStep
  BY <1>1, SameEscrow
<1>3. ASSUME NEW t \in TradeIds, NEW b \in Users, StartBuy(t, b) PROVE Money'
  <2> DEFINE buy == [trade |-> t, buyer |-> b, step |-> "checked", deposit |-> 0]
  <2>1. buy \in Buy /\ buy.step = "checked"
    BY DEF Buy, Deposit
  <2>2. buys' = Append(buys, buy)
        /\ UNCHANGED <<trades, settled, escrow, runs, resolving, refunds>>
    BY <1>3 DEF StartBuy
  <2> HIDE DEF buy
  <2>3. /\ Len(buys') = Len(buys) + 1
        /\ \A i \in 1..Len(buys) : buys'[i] = buys[i]
        /\ buys'[Len(buys) + 1] = buy
    BY <1>1, <2>1, <2>2, AppendProperties DEF TypeOK
  <2>4. \A i \in 1..Len(buys') : buys'[i].step = "submitted" => i \in 1..Len(buys)
    BY <1>1, <2>1, <2>3, ListsType
  <2>5. DepositedIsDepositor'
    BY <1>1, <2>2, <2>3, <2>4 DEF Money, DepositedIsDepositor
  <2>6. QED
    BY <1>1, <1>2, <2>2, <2>5, Undisturbed DEF Money
<1>4. ASSUME NEW t \in TradeIds, NEW resolution \in Resolution, StartResolve(t, resolution)
      PROVE  Money'
  <2>1. UNCHANGED <<trades, settled, escrow, buys, runs, refunds>>
    BY <1>4 DEF StartResolve
  <2>2. \A r \in resolving' : r \in resolving \/ ~r.confirmed
    BY <1>4 DEF StartResolve
  <2>3. ConfirmedEnded'
    BY <1>1, <2>1, <2>2 DEF Money, ConfirmedEnded
  <2>4. QED
    BY <1>1, <1>2, <2>1, <2>3, Undisturbed DEF Money
<1>5. ASSUME NEW u \in Users, DeleteAccount(u) PROVE Money'
  <2> DEFINE job == [attempts |-> 0, state |-> "fresh"]
  <2>1. job \in Refund /\ job.state = "fresh"
    BY TradeAssumption DEF Refund, TradeAssumption
  <2>2. UNCHANGED <<settled, escrow, buys, runs, resolving>>
    BY <1>5 DEF DeleteAccount
  <2>3. \A t \in TradeIds : \/ trades'[t] = trades[t]
                            \/ /\ t \in Cancellable(u)
                               /\ trades'[t] = [trades[t] EXCEPT !.status = "Cancelled"]
    BY <1>5 DEF DeleteAccount
  <2>4. \A t \in Cancellable(u) :
          trades[t] \in TradeOffer /\ (HasStatus(t, "Active") \/ HasStatus(t, "Locked"))
    BY <1>1, RowType DEF Cancellable, HasStatus
  <2>5. ASSUME NEW t \in Cancellable(u)
        PROVE  \/ trades'[t] = trades[t]
               \/ /\ trades'[t] \in TradeOffer
                  /\ trades'[t].status = "Cancelled" /\ trades'[t].buyer = trades[t].buyer
                  /\ trades'[t].deposit = trades[t].deposit
    <3>1. trades[t] \in TradeOffer
      BY <2>4
    <3>2. trades'[t] = trades[t] \/ trades'[t] = [trades[t] EXCEPT !.status = "Cancelled"]
      BY <2>3 DEF Cancellable
    <3>3. CASE trades'[t] = [trades[t] EXCEPT !.status = "Cancelled"]
      BY <3>1, <3>3 DEF TradeOffer, TradeStatus
    <3>4. QED
      BY <3>2, <3>3
  <2>6. RowsRight'
    <3>1. ASSUME NEW t \in TradeIds
          PROVE  \/ trades'[t] = trades[t]
                 \/ /\ trades[t] # NoTrade
                    /\ trades'[t].buyer = trades[t].buyer /\ trades'[t].deposit = trades[t].deposit
      BY <2>3, <2>4, <2>5, NoTradeAssumption
    <3>2. BuyerHasDeposited' /\ DepositHasBuyer'
      BY <1>1, <2>2, <3>1 DEF Money, RowsRight, BuyerHasDeposited, DepositHasBuyer
    <3>3. CompletedIsPaid' /\ ActiveHasNoBuyer'
      BY <1>1, <2>2, <2>3, <2>5 DEF Money, RowsRight, CompletedIsPaid, ActiveHasNoBuyer, HasStatus
    <3>4. QED
      BY <3>2, <3>3 DEF RowsRight
  <2>7. \A t \in TradeIds : /\ t \notin NeedRefund(u) => refunds'[t] = refunds[t]
                            /\ t \in NeedRefund(u) => refunds'[t] = Append(refunds[t], job)
    BY <1>5 DEF DeleteAccount
  <2> HIDE DEF job
  <2>8. ASSUME NEW t \in NeedRefund(u), t \in TradeIds
        PROVE  /\ Len(refunds'[t]) = Len(refunds[t]) + 1
               /\ Len(refunds[t]) \in Nat
               /\ \A n \in 1..Len(refunds[t]) : refunds'[t][n] = refunds[t][n]
               /\ refunds'[t][Len(refunds[t]) + 1] = job
    BY <1>1, <2>1, <2>7, <2>8, ListsType, AppendProperties
  <2>9. DoneRefunds'
    <3>1. ASSUME NEW t \in TradeIds, NEW n \in 1..Len(refunds'[t]), refunds'[t][n].state = "done"
          PROVE  escrow[t].state = "refunded"
      <4>1. n \in 1..Len(refunds[t]) /\ refunds'[t][n] = refunds[t][n]
        BY <2>1, <2>7, <2>8, <3>1
      <4>2. QED
        BY <1>1, <3>1, <4>1 DEF Money, DoneRefunds
    <3>2. QED
      BY <2>2, <3>1 DEF DoneRefunds
  <2>10. CancelledKeepAJob'
    <3>1. ASSUME NEW t \in TradeIds, trades'[t] # NoTrade, trades'[t].status = "Cancelled",
                 trades'[t].buyer # NoOne, escrow[t].state \notin {"released", "refunded"}
          PROVE  \E n \in 1..Len(refunds'[t]) : refunds'[t][n].state # "done"
      <4>1. CASE t \in NeedRefund(u)
        <5>1. Len(refunds[t]) + 1 \in 1..Len(refunds'[t])
          BY <2>8, <4>1
        <5>2. QED
          BY <2>1, <2>8, <4>1, <5>1
      <4>2. CASE t \notin NeedRefund(u) /\ t \in Cancellable(u)
        <5>1. HasStatus(t, "Active")
          BY <2>4, <4>2 DEF NeedRefund
        <5>2. trades[t].buyer = NoOne
          BY <1>1, <5>1 DEF Money, RowsRight, ActiveHasNoBuyer
        <5>3. QED
          BY <2>5, <3>1, <4>2, <5>1, <5>2 DEF HasStatus
      <4>3. CASE t \notin Cancellable(u)
        <5>1. HasStatus(t, "Cancelled") /\ trades[t].buyer # NoOne
          BY <2>3, <3>1, <4>3 DEF HasStatus
        <5>2. PICK n \in 1..Len(refunds[t]) : refunds[t][n].state # "done"
          BY <1>1, <3>1, <5>1 DEF Money, CancelledKeepAJob
        <5>3. refunds'[t] = refunds[t]
          BY <2>7, <4>3 DEF NeedRefund
        <5>4. QED
          BY <5>2, <5>3
      <4>4. QED
        BY <4>1, <4>2, <4>3
    <3>2. QED
      BY <2>2, <3>1 DEF CancelledKeepAJob, HasStatus
  <2>11. QED
    BY <1>1, <1>2, <2>2, <2>6, <2>9, <2>10, Undisturbed DEF Money
<1>6. ASSUME NEW t \in TradeIds, NEW n \in 1..Len(refunds[t]), NEW job \in Refund,
             RefundBecomes(t, n, job), job.state # "done",
             UNCHANGED <<trades, settled, escrow, buys, runs, resolving>>
      PROVE  Money'
  <2>1. DoneRefunds' /\ CancelledKeepAJob'
    BY <1>1, <1>2, <1>6, RefundWritten
  <2>2. QED
    BY <1>1, <1>2, <1>6, <2>1, Undisturbed DEF Money
<1>7. ASSUME NEW t \in TradeIds, NEW n \in 1..Len(refunds[t]), EnqueueRefund(t, n)
      PROVE  Money'
  <2>1. PICK s \in {"queued", "lost"} :
          RefundBecomes(t, n, [refunds[t][n] EXCEPT !.state = s])
    BY <1>7 DEF EnqueueRefund, RefundBecomes
  <2>2. /\ [refunds[t][n] EXCEPT !.state = s] \in Refund
        /\ [refunds[t][n] EXCEPT !.state = s].state # "done"
    BY <1>1, ListsType DEF Refund
  <2>3. QED
    BY <1>6, <1>7, <2>1, <2>2 DEF EnqueueRefund
<1>8. ASSUME NEW t \in TradeIds, NEW n \in 1..Len(refunds[t]), StartRefund(t, n)
      PROVE  Money'
  <2> DEFINE job == [attempts |-> refunds[t][n].attempts + 1, state |-> "running"]
  <2>1. RefundBecomes(t, n, job)
    BY <1>8 DEF StartRefund, RefundBecomes
  <2>2. refunds[t][n] \in Refund /\ refunds[t][n].attempts < MaxAttempts
    BY <1>1, <1>8, ListsType DEF IInv, AttemptsLeft, StartRefund
  <2>3. job \in Refund /\ job.state # "done"
    BY <2>2, TradeAssumption DEF Refund, TradeAssumption
  <2> HIDE DEF job
  <2>4. QED
    BY <1>6, <1>8, <2>1, <2>3 DEF StartRefund
<1>9. ASSUME Crash PROVE Money'
  <2>1. UNCHANGED <<trades, settled, escrow>> /\ resolving' = {}
    BY <1>9 DEF Crash
  <2>2. Len(buys') = Len(buys) /\ \A i \in 1..Len(buys) : buys'[i].step = "ended"
    BY <1>1, <1>9, ListsType, EndedBuy DEF Crash
  <2>3. Len(runs') = Len(runs) /\ \A i \in 1..Len(runs) : runs'[i].step = "ended"
    BY <1>1, <1>9, ListsType DEF Crash, Run
  <2>4. DepositedIsDepositor' /\ ReleasedRuns' /\ ConfirmedEnded'
    BY <2>1, <2>2, <2>3 DEF DepositedIsDepositor, ReleasedRuns, ConfirmedEnded
  <2>5. \A t \in TradeIds :
          /\ Len(refunds'[t]) = Len(refunds[t])
          /\ \A n \in 1..Len(refunds[t]) :
               refunds'[t][n] = refunds[t][n] \/ refunds'[t][n].state = "lost"
    BY <1>1, <1>9, ListsType DEF Crash, Refund
  <2>6. DoneRefunds'
    BY <1>1, <2>1, <2>5 DEF Money, DoneRefunds
  <2>7. CancelledKeepAJob'
    <3>1. ASSUME NEW t \in TradeIds, NEW n \in 1..Len(refunds[t]), refunds[t][n].state # "done"
          PROVE  refunds'[t][n].state # "done"
      BY <2>5, <3>1
    <3>2. QED
      BY <1>1, <2>1, <2>5, <3>1 DEF Money, CancelledKeepAJob, HasStatus
  <2>8. QED
    BY <1>1, <1>2, <2>1, <2>4, <2>6, <2>7, Undisturbed DEF Money
<1>10. QED
  BY <1>3, <1>4, <1>5, <1>7, <1>8, <1>9

-----------------------------------------------------------------------------
(* The theorems.                                                           *)

\* IInv is inductive: who has paid, who was paid, and who has been told so.
THEOREM Inductive == Spec => []IInv
<1>1. Init => IInv
  <2>1. ASSUME Init PROVE RowsExist /\ AttemptsLeft /\ Money
    <3>1. /\ Len(buys) = 0 /\ Len(runs) = 0 /\ resolving = {}
          /\ \A t \in TradeIds : /\ Len(refunds[t]) = 0
                                 /\ trades[t] = NoTrade
                                 /\ settled[t] = 0
                                 /\ escrow[t].depositor = NoOne
      BY <2>1, EmptySeq DEF Init
    <3>2. QED
      BY <3>1 DEF RowsExist, AttemptsLeft, Money, EscrowShape, RowsRight, BuyerHasDeposited,
                  DepositHasBuyer, CompletedIsPaid, ActiveHasNoBuyer, DepositedIsDepositor,
                  ReleasedRuns, SettledOnceWhenPaid, ConfirmedEnded, DoneRefunds,
                  CancelledKeepAJob, HasStatus
  <2>2. QED
    BY <2>1, TypeOKInit DEF IInv
<1>2. IInv /\ [Next]_vars => IInv'
  <2> SUFFICES ASSUME IInv, [Next]_vars PROVE IInv'
    OBVIOUS
  <2>1. TypeOK' /\ RowsExist' /\ AttemptsLeft'
    BY TypeOKNext, RowsExistNext, AttemptsLeftNext DEF IInv
  <2>2. CASE UNCHANGED vars
    <3>1. UNCHANGED <<escrow, trades, settled, buys, runs, resolving, refunds>>
      BY <2>2 DEF vars, table, chain, handlers
    <3>2. TypeOK /\ Money /\ EscrowStep
      BY <3>1, SameEscrow DEF IInv, Money
    <3>3. Money'
      BY <3>1, <3>2, Undisturbed DEF Money
    <3>4. QED
      BY <2>1, <3>3 DEF IInv
  <2>3. CASE Next
    <3>1. ASSUME NEW t \in TradeIds, NEW s \in Sellers, InsertTrade(t, s) PROVE Money'
      BY <3>1, TableSteps DEF InsertTrade, chain
    <3>2. ASSUME NEW t \in TradeIds, FileDispute(t) PROVE Money'
      BY <3>2, TableSteps DEF FileDispute, chain
    <3>3. ASSUME NEW i \in 1..Len(buys), LockTrade(i) PROVE Money'
      BY <3>3, TableSteps DEF LockTrade, chain
    <3>4. ASSUME NEW r \in resolving, CommitResolve(r) PROVE Money'
      BY <3>4, TableSteps DEF CommitResolve, chain
    <3>5. Money'
      BY <2>3, <3>1, <3>2, <3>3, <3>4, ChainSteps, RunSteps, HandlerSteps
      DEF Next, Dispute, Deletion
    <3>6. QED
      BY <2>1, <3>5 DEF IInv
  <2>4. QED
    BY <2>2, <2>3
<1>3. QED
  BY <1>1, <1>2, PTL DEF Spec

\* No order of lost answers, retries, disputes and restarts completes a trade
\* whose seller was not paid.
THEOREM PaidWhenCompleted == Spec => []CompletedIsPaid
<1>1. IInv => CompletedIsPaid
  BY DEF IInv, Money, RowsRight
<1>2. QED
  BY <1>1, Inductive, PTL

\* A row whose transaction was a deposit has for its buyer the one the escrow took it from:
\* the loser of a race for a trade gets no row by his refused deposit.  It says nothing of a
\* row locked by another transaction of its buyer, which POST /trades/:id/buy takes as well.
THEOREM DepositedWhenBuyer == Spec => []BuyerHasDeposited
<1>1. IInv => BuyerHasDeposited
  BY DEF IInv, Money, RowsRight
<1>2. QED
  BY <1>1, Inductive, PTL

\* The ledger settles a trade at most once, after the escrow has paid.
THEOREM SettledOnce == Spec => []SettledOnceWhenPaid
<1>1. IInv => SettledOnceWhenPaid
  BY DEF IInv, Money
<1>2. QED
  BY <1>1, Inductive, PTL

\* No cancelled trade with a buyer and tokens in escrow is without a refund job.
THEOREM RefundKept == Spec => []CancelledTradesKeepARefund
<1>1. IInv => CancelledTradesKeepARefund
  BY JobKept DEF IInv, Money
<1>2. QED
  BY <1>1, Inductive, PTL

\* A disputed trade becomes Cancelled only by a resolution that has refunded it.
LEMMA CancelledByResolution ==
  ASSUME IInv, [Next]_vars, NEW t \in TradeIds,
         HasStatus(t, "Disputed"), HasStatus(t, "Cancelled")'
  PROVE  escrow'[t].state = "refunded"
<1> USE DEF table, chain, handlers
<1>1. /\ TypeOK /\ RowsExist /\ ConfirmedEnded
      /\ trades \in [TradeIds -> TradeOffer \cup {NoTrade}]
      /\ trades[t] \in TradeOffer /\ trades[t].status = "Disputed"
      /\ trades'[t].status = "Cancelled"
  BY RowType DEF IInv, Money, TypeOK, HasStatus
<1>2. trades'[t] # trades[t]
  BY <1>1
<1>3. ASSUME NEW u \in TradeIds, NEW s \in Sellers, InsertTrade(u, s) PROVE FALSE
  BY <1>1, <1>2, <1>3 DEF InsertTrade
<1>4. ASSUME NEW i \in 1..Len(buys), LockTrade(i) PROVE FALSE
  <2> DEFINE locked == Locked(buys[i].trade, buys[i])
  <2>1. buys[i] \in Buy /\ buys[i].trade \in TradeIds /\ trades[buys[i].trade] # NoTrade
    BY <1>1, ListsType DEF Buy, RowsExist
  <2>2. trades' = locked \/ UNCHANGED trades
    BY <1>4 DEF LockTrade
  <2>3. /\ locked[buys[i].trade].status = "Locked"
        /\ locked = [trades EXCEPT ![buys[i].trade] = locked[buys[i].trade]]
    BY <1>1, <2>1, LockedRow
  <2> HIDE DEF locked
  <2>4. locked[t] = trades[t] \/ locked[t].status = "Locked"
    BY <1>1, <2>1, <2>3
  <2>5. QED
    BY <1>1, <1>2, <2>2, <2>4
<1>5. ASSUME NEW status \in {"Completed", "Disputed"}, NEW u \in TradeIds,
             trades' = [trades EXCEPT ![u] = [@ EXCEPT !.status = status]]
      PROVE  FALSE
  <2> DEFINE row == [trades[t] EXCEPT !.status = status]
  <2>1. row.status = status
    BY <1>1 DEF TradeOffer
  <2>2. trades'[t] = trades[t] \/ trades'[t] = row
    BY <1>1, <1>5
  <2> HIDE DEF row
  <2>3. QED
    BY <1>1, <1>2, <2>1, <2>2
<1>6. ASSUME NEW i \in 1..Len(runs), Settle(i) \/ Escalate(i) PROVE FALSE
  <2>1. runs[i].trade \in TradeIds
    BY <1>1, ListsType DEF Run
  <2>2. CASE UNCHANGED trades
    BY <1>2, <2>2
  <2>3. CASE ~UNCHANGED trades
    <3>1. \/ trades' = [trades EXCEPT ![runs[i].trade] = [@ EXCEPT !.status = "Completed"]]
          \/ trades' = [trades EXCEPT ![runs[i].trade] = [@ EXCEPT !.status = "Disputed"]]
      BY <1>6, <2>3 DEF Settle, Escalate
    <3>2. QED
      BY <1>5, <2>1, <3>1
  <2>4. QED
    BY <2>2, <2>3
<1>7. ASSUME NEW u \in TradeIds, FileDispute(u) PROVE FALSE
  BY <1>5, <1>7 DEF FileDispute
<1>8. ASSUME NEW r \in resolving, CommitResolve(r) PROVE escrow'[t].state = "refunded"
  <2>1. r.confirmed /\ UNCHANGED escrow
    BY <1>8 DEF CommitResolve
  <2>2. /\ r.trade \in TradeIds
        /\ escrow[r.trade].state = IF r.resolution = "RELEASE" THEN "released" ELSE "refunded"
    BY <1>1, <2>1 DEF TypeOK, Resolving, ConfirmedEnded
  <2>3. CASE r.resolution = "RELEASE"
    <3>1. \/ trades' = [trades EXCEPT ![r.trade] = [@ EXCEPT !.status = "Completed"]]
          \/ UNCHANGED trades
      BY <1>8, <2>3 DEF CommitResolve
    <3>2. QED
      BY <1>2, <1>5, <2>2, <3>1
  <2>4. CASE r.resolution # "RELEASE"
    <3>1. r.trade = t
      BY <1>1, <1>2, <1>8 DEF CommitResolve
    <3>2. QED
      BY <2>1, <2>2, <2>4, <3>1
  <2>5. QED
    BY <2>3, <2>4
<1>9. ASSUME NEW u \in Users, DeleteAccount(u) PROVE FALSE
  <2>1. t \notin Cancellable(u)
    BY <1>1 DEF Cancellable, HasStatus
  <2>2. QED
    BY <1>2, <1>9, <2>1 DEF DeleteAccount
<1>10. CASE UNCHANGED vars
  BY <1>2, <1>10 DEF vars
<1>11. CASE Next
  <2>1. ASSUME NEW tx \in inFlight, LandLate(tx) PROVE FALSE
    BY <1>2, <2>1 DEF LandLate
  <2>2. ASSUME NEW u, NEW s, ListOnChain(u, s) \/ StartBuy(u, s) PROVE FALSE
    BY <1>2, <2>2 DEF ListOnChain, StartBuy
  <2>3. ASSUME NEW i, SubmitDeposit(i) \/ ReleasePayment(i) PROVE FALSE
    BY <1>2, <2>3 DEF SubmitDeposit, ReleasePayment
  <2>4. ASSUME NEW u, ConfirmDelivery(u) PROVE FALSE
    BY <1>2, <2>4 DEF ConfirmDelivery
  <2>5. ASSUME NEW u, NEW resolution, StartResolve(u, resolution) PROVE FALSE
    BY <1>2, <2>5 DEF StartResolve
  <2>6. ASSUME NEW r \in resolving, ResolveOnChain(r) PROVE FALSE
    BY <1>2, <2>6 DEF ResolveOnChain
  <2>7. ASSUME NEW u, NEW n, EnqueueRefund(u, n) \/ StartRefund(u, n) \/ RefundOnChain(u, n)
        PROVE  FALSE
    BY <1>2, <2>7 DEF EnqueueRefund, StartRefund, RefundOnChain
  <2>8. ASSUME Crash PROVE FALSE
    BY <1>2, <2>8 DEF Crash
  <2>9. QED
    BY <1>3, <1>4, <1>6, <1>7, <1>8, <1>9, <1>11, <2>1, <2>2, <2>3, <2>4, <2>5, <2>6, <2>7, <2>8
    DEF Next, Verification, Dispute, Deletion
<1>12. QED
  BY <1>10, <1>11

\* A dispute ends in the table as it ended in the contract: Completed rows are paid
\* (Inductive, of the step's last state), and a Cancelled one comes from a refund.
THEOREM ResolvedAsOnChain == Spec => ResolutionsMatchEscrow
<1> DEFINE Matches ==
      \A t \in TradeIds : HasStatus(t, "Disputed") =>
        /\ HasStatus(t, "Completed")' => escrow'[t].state = "released"
        /\ HasStatus(t, "Cancelled")' => escrow'[t].state = "refunded"
<1>1. IInv /\ IInv' /\ [Next]_vars => Matches
  <2>1. IInv' => CompletedIsPaid'
    BY DEF IInv, Money, RowsRight
  <2>2. IInv' => \A t \in TradeIds : HasStatus(t, "Completed")' => escrow'[t].state = "released"
    BY <2>1 DEF CompletedIsPaid
  <2>3. QED
    BY <2>2, CancelledByResolution
<1>2. ResolutionsMatchEscrow <=> [][Matches]_vars
  BY DEF ResolutionsMatchEscrow
<1> HIDE DEF Matches
<1>3. QED
  BY <1>1, <1>2, Inductive, PTL DEF Spec

-----------------------------------------------------------------------------
(* Submission implements ChainAnswers, whatever its constants: any number  *)
(* of calls, accounts and trades, and of envelopes under way.              *)

CONSTANTS Calls, NoCall, Accounts, Trades, AccountOf, TradeOf, OpOf, Funded, MaxPolls
VARIABLES contract, sequence, call, seqOf, fate

S == INSTANCE Submission

-----------------------------------------------------------------------------
(* The inductive invariant of Submission.                                  *)

\* A call has an envelope from the moment it is built or taken over.
StepsHaveEnvelopes ==
  \A c \in Calls : /\ call[c].step = "idle" <=> call[c].of = NoCall
                   /\ call[c].step \in {"built", "refused"} => call[c].of = c
                   /\ call[c].answer # "none" <=> call[c].step \in {"ended", "refused"}

\* An envelope that is in other hands was signed by the call that built it.
WasSigned(e) == call[e].of = e /\ call[e].step \in {"signed", "polling", "ended"}

SentAreSigned ==
  /\ \A c \in Calls : call[c].of \in Calls \ {c} => WasSigned(call[c].of)
  /\ \A e \in Calls : fate[e] \in {"queued", "landed", "failed"} => WasSigned(e)

\* What a call was told.
ToldTheTruth ==
  \A c \in Calls :
    /\ call[c].answer = "success"  => fate[call[c].of] = "landed"
    /\ call[c].answer = "rejected" => call[c].step = "refused" \/ fate[call[c].of] = "failed"

CallsInv == S!TypeOK /\ StepsHaveEnvelopes /\ SentAreSigned /\ ToldTheTruth

CallRecord == [step : {"idle", "built", "signed", "polling", "ended", "refused"},
               of : Calls \cup {NoCall}, polls : 0..MaxPolls,
               answer : {"none", "success", "rejected", "unknown"}]

\* A step about one call.
OthersKept(c) == \A d \in Calls \ {c} : call'[d] = call[d]

-----------------------------------------------------------------------------
(* The steps.                                                              *)

LEMMA CallType ==
  ASSUME S!Parameters, S!TypeOK, NEW c \in Calls
  PROVE  /\ call[c] \in CallRecord /\ call[c].of \in Calls \cup {NoCall}
         /\ call[c].polls \in Nat /\ call[c].polls <= MaxPolls /\ NoCall \notin Calls
         /\ MaxPolls \in Nat
BY DEF S!Parameters, S!TypeOK, CallRecord

\* An error is told as a rejection or leaves the call in the dark; one without a code of the
\* contract does the latter.
LEMMA ToldFacts ==
  /\ \A code : S!Told(code) \in {"rejected", "unknown"}
  /\ S!Told(S!NoCode) = "unknown"
  /\ S!Failures \subseteq {"rejected", "unknown"}
<1>1. S!ParseContractError(S!NoCode) = "none"
  BY DEF S!ParseContractError
<1>2. QED
  BY <1>1 DEF S!Told, S!Failures

\* The call that moves changes nothing of the others.
LEMMA CallMoves ==
  ASSUME S!TypeOK, NEW c \in Calls, NEW new \in CallRecord, call' = [call EXCEPT ![c] = new]
  PROVE  /\ OthersKept(c) /\ call'[c] = new
         /\ call' \in [Calls -> CallRecord]
<1>1. call \in [Calls -> CallRecord]
  BY DEF S!TypeOK, CallRecord
<1>2. QED
  BY <1>1 DEF OthersKept

LEMMA GotoFacts ==
  ASSUME S!Parameters, S!TypeOK, NEW c \in Calls,
         NEW step \in {"idle", "built", "signed", "polling", "ended", "refused"}, S!Goto(c, step)
  PROVE  /\ OthersKept(c) /\ call' \in [Calls -> CallRecord]
         /\ call'[c].step = step /\ call'[c].of = call[c].of /\ call'[c].answer = call[c].answer
<1> DEFINE new == [call[c] EXCEPT !.step = step]
<1>1. new \in CallRecord /\ new.step = step /\ new.of = call[c].of /\ new.answer = call[c].answer
  BY CallType DEF CallRecord
<1>2. call' = [call EXCEPT ![c] = new]
  BY CallType DEF S!Goto, S!TypeOK, CallRecord
<1> HIDE DEF new
<1>3. QED
  BY <1>1, <1>2, CallMoves

LEMMA AnswerFacts ==
  ASSUME S!Parameters, S!TypeOK, NEW c \in Calls, NEW step \in {"ended", "refused"},
         NEW answer \in {"success", "rejected", "unknown"},
         call' = [call EXCEPT ![c].step = step, ![c].answer = answer]
  PROVE  /\ OthersKept(c) /\ call' \in [Calls -> CallRecord]
         /\ call'[c].step = step /\ call'[c].of = call[c].of /\ call'[c].answer = answer
<1> DEFINE new == [call[c] EXCEPT !.step = step, !.answer = answer]
<1>1. new \in CallRecord /\ new.step = step /\ new.of = call[c].of /\ new.answer = answer
  BY CallType DEF CallRecord
<1>2. call' = [call EXCEPT ![c] = new]
  BY CallType DEF S!TypeOK, CallRecord
<1> HIDE DEF new
<1>3. QED
  BY <1>1, <1>2, CallMoves

\* A call takes an envelope: its own, or one that was signed.
LEMMA TakeFacts ==
  ASSUME S!Parameters, S!TypeOK, NEW c \in Calls, NEW e \in Calls, NEW step \in {"built", "signed"},
         call' = [call EXCEPT ![c].step = step, ![c].of = e]
  PROVE  /\ OthersKept(c) /\ call' \in [Calls -> CallRecord]
         /\ call'[c].step = step /\ call'[c].of = e /\ call'[c].answer = call[c].answer
<1> DEFINE new == [call[c] EXCEPT !.step = step, !.of = e]
<1>1. new \in CallRecord /\ new.step = step /\ new.of = e /\ new.answer = call[c].answer
  BY CallType DEF CallRecord
<1>2. call' = [call EXCEPT ![c] = new]
  BY CallType DEF S!TypeOK, CallRecord
<1> HIDE DEF new
<1>3. QED
  BY <1>1, <1>2, CallMoves

LEMMA PollsFacts ==
  ASSUME S!Parameters, S!TypeOK, NEW c \in Calls, call[c].polls < MaxPolls,
         call' = [call EXCEPT ![c].polls = @ + 1]
  PROVE  /\ OthersKept(c) /\ call' \in [Calls -> CallRecord]
         /\ call'[c].step = call[c].step /\ call'[c].of = call[c].of
         /\ call'[c].answer = call[c].answer
<1> DEFINE new == [call[c] EXCEPT !.polls = @ + 1]
<1>1. call[c] \in CallRecord /\ call[c].polls + 1 \in 0..MaxPolls
  BY CallType
<1>2. new \in CallRecord /\ new.step = call[c].step /\ new.of = call[c].of
      /\ new.answer = call[c].answer
  BY <1>1 DEF CallRecord
<1>3. call' = [call EXCEPT ![c] = new]
  BY <1>1 DEF S!TypeOK, CallRecord
<1> HIDE DEF new
<1>4. QED
  BY <1>2, <1>3, CallMoves

-----------------------------------------------------------------------------
(* The invariant is kept.                                                  *)

Sent == {"queued", "landed", "failed"}

\* What a step about c has to show.
LEMMA CallsInvKept ==
  ASSUME S!Parameters, CallsInv, S!TypeOK', NEW c \in Calls, OthersKept(c),
         call'[c].step = "idle" <=> call'[c].of = NoCall,
         call'[c].step \in {"built", "refused"} => call'[c].of = c,
         call'[c].answer # "none" <=> call'[c].step \in {"ended", "refused"},
         WasSigned(c) => WasSigned(c)',
         call'[c].of \in Calls \ {c} => WasSigned(call'[c].of),
         \A e \in Calls : fate'[e] \in Sent => fate[e] \in Sent \/ WasSigned(e) \/ WasSigned(e)',
         \A e \in Calls : fate[e] \in {"landed", "failed"} => fate'[e] = fate[e],
         call'[c].answer = "success" => fate'[call'[c].of] = "landed",
         call'[c].answer = "rejected" =>
           call'[c].step = "refused" \/ fate'[call'[c].of] = "failed"
  PROVE  CallsInv'
<1>0. S!TypeOK /\ StepsHaveEnvelopes /\ SentAreSigned /\ ToldTheTruth
  BY DEF CallsInv
<1>1. \A d \in Calls \ {c} : call'[d] = call[d]
  BY DEF OthersKept
<1>2. StepsHaveEnvelopes'
  BY <1>0, <1>1 DEF StepsHaveEnvelopes
<1>3. \A e \in Calls : WasSigned(e) => WasSigned(e)'
  BY <1>1 DEF WasSigned
<1>4. SentAreSigned'
  <2>1. ASSUME NEW d \in Calls, NEW e \in Calls \ {d}, call'[d].of = e PROVE WasSigned(e)'
    <3>1. CASE d = c
      BY <1>3, <2>1, <3>1
    <3>2. CASE d # c
      <4>1. call[d].of = e
        BY <1>1, <2>1, <3>2
      <4>2. WasSigned(e)
        BY <1>0, <2>1, <4>1 DEF SentAreSigned
      <4>3. QED
        BY <1>3, <4>2
    <3>3. QED
      BY <3>1, <3>2
  <2>2. ASSUME NEW e \in Calls, fate'[e] \in Sent PROVE WasSigned(e)'
    BY <1>0, <1>3, <2>2 DEF SentAreSigned, Sent
  <2>3. \A d \in Calls : call'[d].of \in Calls \ {d} =>
          \E e \in Calls : e = call'[d].of /\ WasSigned(e)'
    BY <2>1
  <2>4. QED
    BY <2>2, <2>3 DEF SentAreSigned, Sent, WasSigned
<1>5. ToldTheTruth'
  <2> SUFFICES ASSUME NEW d \in Calls
               PROVE  /\ call'[d].answer = "success" => fate'[call'[d].of] = "landed"
                      /\ call'[d].answer = "rejected" =>
                           call'[d].step = "refused" \/ fate'[call'[d].of] = "failed"
    BY DEF ToldTheTruth
  <2>1. CASE d = c
    BY <2>1
  <2>2. CASE d # c
    <3>1. call'[d] = call[d]
      BY <1>1, <2>2
    <3>2. call[d].answer # "none" => call[d].of \in Calls
      BY <1>0, CallType DEF StepsHaveEnvelopes
    <3>3. QED
      BY <1>0, <3>1, <3>2 DEF ToldTheTruth
  <2>3. QED
    BY <2>1, <2>2
<1>6. QED
  BY <1>2, <1>4, <1>5 DEF CallsInv

LEMMA CallsInvInit == S!Parameters /\ S!Init => CallsInv
<1> SUFFICES ASSUME S!Parameters, S!Init PROVE CallsInv
  OBVIOUS
<1>1. S!TypeOK
  BY DEF S!Parameters, S!Init, S!TypeOK, S!Fate
<1>2. QED
  BY <1>1 DEF S!Parameters, S!Init, CallsInv, StepsHaveEnvelopes, SentAreSigned, ToldTheTruth

\* The types of what a step writes.
LEMMA TypeKept ==
  ASSUME S!Parameters, S!TypeOK, call' \in [Calls -> CallRecord],
         UNCHANGED <<contract, sequence>>,
         seqOf' \in [Calls -> Nat],
         fate' = fate \/ \E e \in Calls, f \in S!Fate : fate' = [fate EXCEPT ![e] = f]
  PROVE  S!TypeOK'
<1>1. fate' \in [Calls -> S!Fate]
  BY DEF S!TypeOK
<1>2. QED
  BY <1>1 DEF S!TypeOK, CallRecord

\* What the node is given is queued, and nothing else changes.
Queues(e) == fate[e] = "kept" /\ fate' = [fate EXCEPT ![e] = "queued"]

LEMMA QueueFacts ==
  ASSUME S!TypeOK, NEW e \in Calls, Queues(e) \/ fate' = fate
  PROVE  /\ \A d \in Calls \ {e} : fate'[d] = fate[d]
         /\ fate[e] \in {"landed", "failed"} => fate'[e] = fate[e]
         /\ \A d \in Calls : fate'[d] = "landed" <=> fate[d] = "landed"
         /\ \E d \in Calls, f \in S!Fate : fate' = fate \/ fate' = [fate EXCEPT ![d] = f]
BY DEF S!TypeOK, Queues, S!Fate

LEMMA CallsInvNext ==
  ASSUME S!Parameters, CallsInv, [S!Next]_S!vars
  PROVE  CallsInv'
<1>0. /\ S!TypeOK /\ StepsHaveEnvelopes /\ SentAreSigned /\ ToldTheTruth /\ NoCall \notin Calls
  BY DEF CallsInv, S!Parameters
<1>1. CASE UNCHANGED S!vars
  BY <1>0, <1>1
     DEF S!vars, CallsInv, S!TypeOK, StepsHaveEnvelopes, SentAreSigned, ToldTheTruth, WasSigned
<1>2. ASSUME NEW c \in Calls, S!Build(c) PROVE CallsInv'
  <2>1. /\ OthersKept(c) /\ call' \in [Calls -> CallRecord]
        /\ call'[c].step = "built" /\ call'[c].of = c /\ call'[c].answer = call[c].answer
    BY <1>0, <1>2, TakeFacts DEF S!Build
  <2>2. call[c].step = "idle" /\ call[c].of = NoCall /\ call[c].answer = "none"
    BY <1>0, <1>2 DEF S!Build, StepsHaveEnvelopes
  <2>3. fate' = fate
    BY <1>2 DEF S!Build
  <2>4. S!TypeOK'
    <3>1. sequence[AccountOf[c]] + 1 \in Nat
      BY <1>0 DEF S!Parameters, S!TypeOK
    <3>2. seqOf' \in [Calls -> Nat]
      BY <1>0, <1>2, <3>1 DEF S!Build, S!TypeOK
    <3>3. QED
      BY <1>0, <1>2, <2>1, <3>2, TypeKept DEF S!Build
  <2>5. ~WasSigned(c)
    BY <2>2 DEF WasSigned
  <2>6. QED
    BY <1>0, <2>1, <2>2, <2>3, <2>4, <2>5, CallsInvKept
<1>3. ASSUME NEW c \in Calls, S!Prepare(c) PROVE CallsInv'
  <2>1. /\ call[c].step = "built" /\ call[c].of = c /\ call[c].answer = "none"
        /\ fate' = fate /\ UNCHANGED <<contract, sequence, seqOf>>
    BY <1>0, <1>3 DEF S!Prepare, StepsHaveEnvelopes
  <2>2. ~WasSigned(c)
    BY <2>1 DEF WasSigned
  <2>3. CASE S!Goto(c, "signed")
    <3>1. /\ OthersKept(c) /\ call' \in [Calls -> CallRecord]
          /\ call'[c].step = "signed" /\ call'[c].of = c /\ call'[c].answer = "none"
      BY <1>0, <2>1, <2>3, GotoFacts
    <3>2. S!TypeOK'
      BY <1>0, <2>1, <3>1, TypeKept DEF S!TypeOK
    <3>3. QED
      BY <1>0, <2>1, <2>2, <3>1, <3>2, CallsInvKept
  <2>4. ASSUME NEW a \in {"rejected", "unknown"}, S!Refuse(c, a) PROVE CallsInv'
    <3>1. /\ OthersKept(c) /\ call' \in [Calls -> CallRecord]
          /\ call'[c].step = "refused" /\ call'[c].of = c /\ call'[c].answer = a
      BY <1>0, <2>1, <2>4, AnswerFacts DEF S!Refuse
    <3>2. S!TypeOK'
      BY <1>0, <2>1, <3>1, TypeKept DEF S!TypeOK
    <3>3. QED
      BY <1>0, <2>1, <2>2, <3>1, <3>2, CallsInvKept
  <2>5. QED
    BY <1>3, <2>3, <2>4, ToldFacts DEF S!Prepare
<1>4. ASSUME NEW c \in Calls, NEW d \in Calls, S!Resend(c, d) PROVE CallsInv'
  <2>1. /\ OthersKept(c) /\ call' \in [Calls -> CallRecord]
        /\ call'[c].step = "signed" /\ call'[c].of = d /\ call'[c].answer = call[c].answer
    BY <1>0, <1>4, TakeFacts DEF S!Resend
  <2>2. call[c].step = "idle" /\ call[c].of = NoCall /\ call[c].answer = "none" /\ fate' = fate
    BY <1>0, <1>4 DEF S!Resend, StepsHaveEnvelopes
  <2>3. WasSigned(d) /\ ~WasSigned(c)
    BY <1>4, <2>2 DEF S!Resend, WasSigned
  <2>4. S!TypeOK'
    BY <1>0, <1>4, <2>1, TypeKept DEF S!Resend, S!TypeOK
  <2>5. QED
    BY <1>0, <2>1, <2>2, <2>3, <2>4, CallsInvKept
<1>5. ASSUME NEW c \in Calls, call[c].step \in {"signed", "polling"},
             UNCHANGED <<contract, sequence, seqOf>>,
             Queues(call[c].of) \/ fate' = fate,
             \/ S!Goto(c, "polling")
             \/ \E a \in {"success", "rejected", "unknown"} :
                  /\ S!End(c, a)
                  /\ a = "success" => fate'[call[c].of] = "landed"
                  /\ a = "rejected" => fate'[call[c].of] = "failed"
             \/ call[c].polls < MaxPolls /\ call' = [call EXCEPT ![c].polls = @ + 1]
      PROVE  CallsInv'
  <2>1. call[c].of \in Calls /\ call[c].answer = "none"
    BY <1>0, <1>5, CallType DEF StepsHaveEnvelopes
  <2>2. PICK e \in Calls : e = call[c].of
    BY <2>1
  <2>3. WasSigned(e)
    BY <1>0, <1>5, <2>2 DEF SentAreSigned, WasSigned
  <2>4. /\ OthersKept(c) /\ call' \in [Calls -> CallRecord]
        /\ call'[c].of = e
        /\ \/ call'[c].step \in {"signed", "polling"} /\ call'[c].answer = "none"
           \/ /\ call'[c].step = "ended" /\ call'[c].answer \in {"success", "rejected", "unknown"}
              /\ call'[c].answer = "success" => fate'[e] = "landed"
              /\ call'[c].answer = "rejected" => fate'[e] = "failed"
    <3>1. CASE S!Goto(c, "polling")
      BY <1>0, <2>1, <2>2, <3>1, GotoFacts
    <3>2. ASSUME NEW a \in {"success", "rejected", "unknown"}, S!End(c, a)
          PROVE  /\ OthersKept(c) /\ call' \in [Calls -> CallRecord]
                 /\ call'[c].of = e /\ call'[c].step = "ended" /\ call'[c].answer = a
      BY <1>0, <2>2, <3>2, AnswerFacts DEF S!End
    <3>3. CASE call[c].polls < MaxPolls /\ call' = [call EXCEPT ![c].polls = @ + 1]
      BY <1>0, <1>5, <2>1, <2>2, <3>3, PollsFacts
    <3>4. QED
      BY <1>5, <2>2, <3>1, <3>2, <3>3
  <2>5. /\ \A f \in Calls \ {e} : fate'[f] = fate[f]
        /\ fate[e] \in {"landed", "failed"} => fate'[e] = fate[e]
        /\ \E d \in Calls, f \in S!Fate : fate' = fate \/ fate' = [fate EXCEPT ![d] = f]
    BY <1>0, <1>5, <2>2, QueueFacts
  <2>6. S!TypeOK'
    BY <1>0, <1>5, <2>4, <2>5, TypeKept DEF S!TypeOK
  <2>7. WasSigned(c) => WasSigned(c)'
    BY <2>2, <2>4 DEF WasSigned
  <2>8. /\ call'[c].step = "idle" <=> call'[c].of = NoCall
        /\ call'[c].step \in {"built", "refused"} => call'[c].of = c
        /\ call'[c].answer # "none" <=> call'[c].step \in {"ended", "refused"}
        /\ call'[c].of \in Calls \ {c} => WasSigned(call'[c].of)
        /\ call'[c].answer = "success" => fate'[call'[c].of] = "landed"
        /\ call'[c].answer = "rejected" => call'[c].step = "refused" \/ fate'[call'[c].of] = "failed"
    BY <1>0, <2>3, <2>4
  <2>9. /\ \A f \in Calls : fate'[f] \in Sent => fate[f] \in Sent \/ WasSigned(f) \/ WasSigned(f)'
        /\ \A f \in Calls : fate[f] \in {"landed", "failed"} => fate'[f] = fate[f]
    BY <2>3, <2>5
  <2>10. QED
    BY <2>4, <2>6, <2>7, <2>8, <2>9, CallsInvKept
<1>6. ASSUME NEW c \in Calls, S!SendTransaction(c) PROVE CallsInv'
  BY <1>5, <1>6, ToldFacts DEF S!SendTransaction, S!Sendable, Queues
<1>7. ASSUME NEW c \in Calls, S!Poll(c) PROVE CallsInv'
  <2>1. call[c].step = "polling" /\ UNCHANGED <<contract, sequence, seqOf>> /\ fate' = fate
    BY <1>7 DEF S!Poll
  <2>2. \/ \E a \in {"success", "rejected", "unknown"} :
             /\ S!End(c, a)
             /\ a = "success" => fate[call[c].of] = "landed"
             /\ a = "rejected" => fate[call[c].of] = "failed"
        \/ call[c].polls < MaxPolls /\ call' = [call EXCEPT ![c].polls = @ + 1]
    BY <1>7, ToldFacts DEF S!Poll
  <2>3. QED
    BY <1>5, <2>1, <2>2
<1>8. ASSUME NEW c \in Calls, S!Lose(c) PROVE CallsInv'
  BY <1>5, <1>8, ToldFacts DEF S!Lose, S!Sendable, Queues
<1>9. ASSUME NEW e \in Calls, call' = call, S!TypeOK',
             \A f \in Calls \ {e} : fate'[f] = fate[f],
             fate[e] \notin {"landed", "failed"},
             fate'[e] \in Sent => fate[e] \in Sent
      PROVE  CallsInv'
  <2>1. OthersKept(e) /\ (WasSigned(e) => WasSigned(e)')
    BY <1>9 DEF OthersKept, WasSigned
  <2>2. /\ \A f \in Calls : fate'[f] \in Sent => fate[f] \in Sent \/ WasSigned(f) \/ WasSigned(f)'
        /\ \A f \in Calls : fate[f] \in {"landed", "failed"} => fate'[f] = fate[f]
    BY <1>9
  <2>3. call[e].answer # "none" => call[e].of \in Calls
    BY <1>0, CallType DEF StepsHaveEnvelopes
  <2>4. /\ call'[e].answer = "success" => fate'[call'[e].of] = "landed"
        /\ call'[e].answer = "rejected" => call'[e].step = "refused" \/ fate'[call'[e].of] = "failed"
    BY <1>0, <1>9, <2>2, <2>3 DEF ToldTheTruth
  <2>5. /\ call'[e].step = "idle" <=> call'[e].of = NoCall
        /\ call'[e].step \in {"built", "refused"} => call'[e].of = e
        /\ call'[e].answer # "none" <=> call'[e].step \in {"ended", "refused"}
        /\ call'[e].of \in Calls \ {e} => WasSigned(call'[e].of)
    BY <1>0, <1>9 DEF StepsHaveEnvelopes, SentAreSigned
  <2>6. QED
    BY <1>9, <2>1, <2>2, <2>4, <2>5, CallsInvKept
<1>10. ASSUME NEW e \in Calls, S!Include(e) PROVE CallsInv'
  <2>1. call' = call /\ fate[e] = "queued"
    BY <1>10 DEF S!Include
  <2>2. \E f \in {"landed", "failed"} : fate' = [fate EXCEPT ![e] = f]
    BY <1>10 DEF S!Include
  <2>3. fate' \in [Calls -> S!Fate] /\ \A f \in Calls \ {e} : fate'[f] = fate[f]
    BY <1>0, <2>2 DEF S!TypeOK, S!Fate
  <2>4. S!TypeOK'
    <3>1. AccountOf[e] \in Accounts /\ sequence' \in [Accounts -> Nat]
      BY <1>0, <1>10 DEF S!Include, S!Parameters, S!TypeOK
    <3>2. contract' \in [Trades -> {"none", "open", "funded", "released", "refunded"}]
      <4>1. S!After(OpOf[e]) \in {"none", "open", "funded", "released", "refunded"}
        BY DEF S!Parameters, S!Op, S!After
      <4>2. QED
        BY <1>0, <1>10, <4>1 DEF S!Include, S!TypeOK
    <3>3. QED
      BY <1>0, <1>10, <2>1, <2>3, <3>1, <3>2 DEF S!Include, S!TypeOK
  <2>5. QED
    BY <1>9, <2>1, <2>3, <2>4 DEF Sent
<1>11. ASSUME NEW e \in Calls, S!Expire(e) PROVE CallsInv'
  <2>1. call' = call /\ fate[e] \in {"kept", "queued"} /\ fate' = [fate EXCEPT ![e] = "expired"]
    BY <1>11 DEF S!Expire
  <2>2. fate' \in [Calls -> S!Fate] /\ (\A f \in Calls \ {e} : fate'[f] = fate[f])
        /\ fate'[e] = "expired"
    BY <1>0, <2>1 DEF S!TypeOK, S!Fate
  <2>3. S!TypeOK'
    BY <1>0, <1>11, <2>1, <2>2 DEF S!Expire, S!TypeOK
  <2>4. QED
    BY <1>9, <2>1, <2>2, <2>3 DEF Sent
<1>12. QED
  BY <1>1, <1>2, <1>3, <1>4, <1>6, <1>7, <1>8, <1>10, <1>11 DEF S!Next

-----------------------------------------------------------------------------
(* Submission implements ChainAnswers.                                     *)

\* The refinement mapping of Submission!Answers.
ofBar     == [c \in Calls |-> call[c].of]
landedBar == {c \in Calls : fate[c] = "landed"}
answerBar == [c \in Calls |-> call[c].answer]

\* A call gets an envelope.
LEMMA AnswersTake ==
  ASSUME NEW c \in Calls, NEW e \in Calls, OthersKept(c), fate' = fate, NoCall \notin Calls,
         call[c].of = NoCall, e = c \/ call[e].of = e,
         call'[c].of = e, call'[c].answer = call[c].answer
  PROVE  S!Answers!AnswerNext
<1>1. ofBar' = [ofBar EXCEPT ![c] = e]
  BY DEF ofBar, OthersKept
<1>2. answerBar' = answerBar /\ landedBar' = landedBar
  BY DEF answerBar, landedBar, OthersKept
<1>3. e \in ({ofBar[d] : d \in Calls} \ {NoCall}) \cup {c}
  BY DEF ofBar
<1>4. S!Answers!Take(c, e)
  BY <1>1, <1>2, <1>3 DEF S!Answers!Take, S!Answers!Envelopes, ofBar, landedBar, answerBar
<1>5. QED
  BY <1>4 DEF S!Answers!AnswerNext

\* A call is told something.
LEMMA AnswersTell ==
  ASSUME NEW c \in Calls, NEW a \in {"success", "rejected", "unknown"}, OthersKept(c),
         \A e \in Calls : fate'[e] = "landed" <=> fate[e] = "landed",
         call[c].of \in Calls, NoCall \notin Calls, call[c].answer = "none",
         call'[c].of = call[c].of, call'[c].answer = a,
         a = "success"  => fate[call[c].of] = "landed",
         a = "rejected" => fate[call[c].of] # "landed"
  PROVE  S!Answers!AnswerNext
<1>1. ofBar' = ofBar
  BY DEF ofBar, OthersKept
<1>2. answerBar' = [answerBar EXCEPT ![c] = a]
  BY DEF answerBar, OthersKept
<1>3. landedBar' = landedBar
  BY DEF landedBar
<1>4. S!Answers!Answer(c, a)
  BY <1>1, <1>2, <1>3 DEF S!Answers!Answer, ofBar, landedBar, answerBar
<1>5. QED
  BY <1>4 DEF S!Answers!AnswerNext

\* Nothing is told, nothing takes effect and nobody gets an envelope.
LEMMA AnswersSame ==
  ASSUME NEW c \in Calls, OthersKept(c),
         \A e \in Calls : fate'[e] = "landed" <=> fate[e] = "landed",
         call'[c].of = call[c].of, call'[c].answer = call[c].answer
  PROVE  UNCHANGED S!Answers!answerVars
<1>1. ofBar' = ofBar /\ answerBar' = answerBar /\ landedBar' = landedBar
  BY DEF ofBar, answerBar, landedBar, OthersKept
<1>2. QED
  BY <1>1 DEF S!Answers!answerVars, ofBar, landedBar, answerBar

LEMMA AnswersStep ==
  ASSUME S!Parameters, CallsInv, [S!Next]_S!vars
  PROVE  S!Answers!AnswerNext \/ UNCHANGED S!Answers!answerVars
<1>0. /\ S!TypeOK /\ StepsHaveEnvelopes /\ SentAreSigned /\ ToldTheTruth /\ NoCall \notin Calls
  BY DEF CallsInv, S!Parameters
<1>1. CASE UNCHANGED S!vars
  BY <1>1 DEF S!vars, S!Answers!answerVars
<1>2. ASSUME NEW c \in Calls, S!Build(c) PROVE S!Answers!AnswerNext
  <2>1. /\ OthersKept(c) /\ call'[c].of = c /\ call'[c].answer = call[c].answer
    BY <1>0, <1>2, TakeFacts DEF S!Build
  <2>2. call[c].of = NoCall /\ fate' = fate
    BY <1>0, <1>2 DEF S!Build, StepsHaveEnvelopes
  <2>3. QED
    BY <1>0, <2>1, <2>2, AnswersTake
<1>3. ASSUME NEW c \in Calls, S!Prepare(c)
     PROVE  S!Answers!AnswerNext \/ UNCHANGED S!Answers!answerVars
  <2>1. /\ call[c].step = "built" /\ call[c].of = c /\ call[c].answer = "none" /\ fate' = fate
    BY <1>0, <1>3 DEF S!Prepare, StepsHaveEnvelopes
  <2>2. fate[c] # "landed"
    BY <1>0, <2>1 DEF SentAreSigned, WasSigned
  <2>3. CASE S!Goto(c, "signed")
    <3>1. OthersKept(c) /\ call'[c].of = call[c].of /\ call'[c].answer = call[c].answer
      BY <1>0, <2>3, GotoFacts
    <3>2. QED
      BY <2>1, <3>1, AnswersSame
  <2>4. ASSUME NEW a \in {"rejected", "unknown"}, S!Refuse(c, a) PROVE S!Answers!AnswerNext
    <3>1. OthersKept(c) /\ call'[c].of = call[c].of /\ call'[c].answer = a
      BY <1>0, <2>4, AnswerFacts DEF S!Refuse
    <3>2. QED
      BY <1>0, <2>1, <2>2, <3>1, AnswersTell
  <2>5. QED
    BY <1>3, <2>3, <2>4, ToldFacts DEF S!Prepare
<1>4. ASSUME NEW c \in Calls, NEW d \in Calls, S!Resend(c, d) PROVE S!Answers!AnswerNext
  <2>1. /\ OthersKept(c) /\ call'[c].of = d /\ call'[c].answer = call[c].answer
    BY <1>0, <1>4, TakeFacts DEF S!Resend
  <2>2. call[c].of = NoCall /\ fate' = fate /\ call[d].of = d
    BY <1>0, <1>4 DEF S!Resend, StepsHaveEnvelopes
  <2>3. QED
    BY <1>0, <2>1, <2>2, AnswersTake
<1>5. ASSUME NEW c \in Calls, call[c].step \in {"signed", "polling"},
             Queues(call[c].of) \/ fate' = fate,
             \/ S!Goto(c, "polling")
             \/ \E a \in {"success", "rejected", "unknown"} :
                  /\ S!End(c, a)
                  /\ a = "success" => fate[call[c].of] = "landed"
                  /\ a = "rejected" => fate[call[c].of] = "failed"
             \/ call[c].polls < MaxPolls /\ call' = [call EXCEPT ![c].polls = @ + 1]
      PROVE  S!Answers!AnswerNext \/ UNCHANGED S!Answers!answerVars
  <2>1. call[c].of \in Calls /\ call[c].answer = "none"
    BY <1>0, <1>5, CallType DEF StepsHaveEnvelopes
  <2>2. PICK e \in Calls : e = call[c].of
    BY <2>1
  <2>3. \A d \in Calls : fate'[d] = "landed" <=> fate[d] = "landed"
    BY <1>0, <1>5, <2>2, QueueFacts
  <2>4. CASE S!Goto(c, "polling")
    <3>1. OthersKept(c) /\ call'[c].of = call[c].of /\ call'[c].answer = call[c].answer
      BY <1>0, <2>4, GotoFacts
    <3>2. QED
      BY <2>3, <3>1, AnswersSame
  <2>5. ASSUME NEW a \in {"success", "rejected", "unknown"}, S!End(c, a),
               a = "success" => fate[call[c].of] = "landed",
               a = "rejected" => fate[call[c].of] = "failed"
        PROVE  S!Answers!AnswerNext
    <3>1. OthersKept(c) /\ call'[c].of = call[c].of /\ call'[c].answer = a
      BY <1>0, <2>5, AnswerFacts DEF S!End
    <3>2. QED
      BY <1>0, <2>1, <2>3, <2>5, <3>1, AnswersTell
  <2>6. CASE call[c].polls < MaxPolls /\ call' = [call EXCEPT ![c].polls = @ + 1]
    <3>1. OthersKept(c) /\ call'[c].of = call[c].of /\ call'[c].answer = call[c].answer
      BY <1>0, <2>6, PollsFacts
    <3>2. QED
      BY <2>3, <3>1, AnswersSame
  <2>7. QED
    BY <1>5, <2>4, <2>5, <2>6
<1>6. ASSUME NEW c \in Calls, S!SendTransaction(c)
      PROVE  S!Answers!AnswerNext \/ UNCHANGED S!Answers!answerVars
  BY <1>5, <1>6, ToldFacts DEF S!SendTransaction, S!Sendable, Queues
<1>7. ASSUME NEW c \in Calls, S!Poll(c) PROVE S!Answers!AnswerNext \/ UNCHANGED S!Answers!answerVars
  <2>1. call[c].step = "polling" /\ fate' = fate
    BY <1>7 DEF S!Poll
  <2>2. \/ \E a \in {"success", "rejected", "unknown"} :
             /\ S!End(c, a)
             /\ a = "success" => fate[call[c].of] = "landed"
             /\ a = "rejected" => fate[call[c].of] = "failed"
        \/ call[c].polls < MaxPolls /\ call' = [call EXCEPT ![c].polls = @ + 1]
    BY <1>7, ToldFacts DEF S!Poll
  <2>3. QED
    BY <1>5, <2>1, <2>2
<1>8. ASSUME NEW c \in Calls, S!Lose(c) PROVE S!Answers!AnswerNext \/ UNCHANGED S!Answers!answerVars
  BY <1>5, <1>8, ToldFacts DEF S!Lose, S!Sendable, Queues
<1>9. ASSUME NEW e \in Calls, call' = call, fate[e] \in {"kept", "queued"},
             \E f \in {"failed", "expired"} : fate' = [fate EXCEPT ![e] = f]
      PROVE  UNCHANGED S!Answers!answerVars
  <2>1. OthersKept(e) /\ \A f \in Calls : fate'[f] = "landed" <=> fate[f] = "landed"
    BY <1>0, <1>9 DEF S!TypeOK, OthersKept
  <2>2. QED
    BY <1>9, <2>1, AnswersSame
<1>10. ASSUME NEW e \in Calls, S!Include(e)
     PROVE  S!Answers!AnswerNext \/ UNCHANGED S!Answers!answerVars
  <2>1. call' = call /\ fate[e] = "queued"
    BY <1>10 DEF S!Include
  <2>2. CASE fate' = [fate EXCEPT ![e] = "landed"]
    <3>1. landedBar' = landedBar \cup {e} /\ e \notin landedBar
      BY <1>0, <2>1, <2>2 DEF landedBar, S!TypeOK
    <3>2. ofBar' = ofBar /\ answerBar' = answerBar
      BY <2>1 DEF ofBar, answerBar
    <3>3. WasSigned(e)
      BY <1>0, <2>1 DEF SentAreSigned
    <3>4. e \in {ofBar[d] : d \in Calls} \ {NoCall}
      BY <1>0, <3>3 DEF ofBar, WasSigned
    <3>5. ASSUME NEW d \in Calls, call[d].answer = "rejected" PROVE call[d].of # e
      <4>1. call[d].step = "refused" \/ fate[call[d].of] = "failed"
        BY <1>0, <3>5 DEF ToldTheTruth
      <4>2. call[d].step = "refused" => call[d].of = d
        BY <1>0 DEF StepsHaveEnvelopes
      <4>3. call[d].step = "refused" => d # e
        BY <3>3 DEF WasSigned
      <4>4. QED
        BY <2>1, <4>1, <4>2, <4>3
    <3>6. e \notin {ofBar[d] : d \in {f \in Calls : answerBar[f] = "rejected"}}
      BY <3>5 DEF ofBar, answerBar
    <3>7. S!Answers!Land(e)
      BY <3>1, <3>2, <3>4, <3>6
         DEF S!Answers!Land, S!Answers!Envelopes, S!Answers!Rejected, ofBar, landedBar, answerBar
    <3>8. QED
      BY <3>7 DEF S!Answers!AnswerNext
  <2>3. CASE fate' = [fate EXCEPT ![e] = "failed"]
    BY <1>9, <2>1, <2>3
  <2>4. QED
    BY <1>10, <2>2, <2>3 DEF S!Include
<1>11. ASSUME NEW e \in Calls, S!Expire(e) PROVE UNCHANGED S!Answers!answerVars
  BY <1>9, <1>11 DEF S!Expire
<1>12. QED
  BY <1>1, <1>2, <1>3, <1>4, <1>6, <1>7, <1>8, <1>10, <1>11 DEF S!Next

\* The types, whatever the node and the ledger do.
THEOREM SubmissionTypeCorrect == S!Parameters => (S!Spec => []S!TypeOK)
<1> SUFFICES ASSUME S!Parameters PROVE S!Spec => []S!TypeOK
  OBVIOUS
<1>1. S!Init => CallsInv
  BY CallsInvInit
<1>2. CallsInv /\ [S!Next]_S!vars => CallsInv'
  BY CallsInvNext
<1>3. CallsInv => S!TypeOK
  BY DEF CallsInv
<1>4. QED
  BY <1>1, <1>2, <1>3, PTL DEF S!Spec

\* A call that was told success has landed, and one that was told of a contract
\* error never lands, not even through another call with the same envelope.
THEOREM AnswersImplemented == S!Parameters => (S!Spec => S!ImplementsAnswers)
<1> SUFFICES ASSUME S!Parameters PROVE S!Spec => S!ImplementsAnswers
  OBVIOUS
<1>1. S!Init => CallsInv /\ S!Answers!AnswerInit
  <2>1. S!Init => S!Answers!AnswerInit
    BY DEF S!Init, S!Answers!AnswerInit
  <2>2. QED
    BY <2>1, CallsInvInit
<1>2. CallsInv /\ [S!Next]_S!vars => CallsInv'
  BY CallsInvNext
<1>3. CallsInv /\ [S!Next]_S!vars => [S!Answers!AnswerNext]_(S!Answers!answerVars)
  BY AnswersStep
<1>4. QED
  BY <1>1, <1>2, <1>3, PTL DEF S!Spec, S!ImplementsAnswers, S!Answers!AnswerSpec

=============================================================================
