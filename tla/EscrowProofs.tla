---------------------------- MODULE EscrowProofs ----------------------------
(***************************************************************************)
(* Proofs about Escrow, for all values of its constants: its storage; who  *)
(* has a place on a listing; when a refund may be had; what the contract   *)
(* holds and owes; and that Escrow implements EscrowVault.                 *)
(***************************************************************************)
EXTENDS Escrow, SumsTheorems, SequenceTheorems

-----------------------------------------------------------------------------
(* Type correctness.                                                       *)

\* A listing that exists is a TradeOffer.
LEMMA ExistingTrade ==
  ASSUME TypeOK, NEW t \in TradeIds, Exists(t)
  PROVE  trades[t] \in TradeOffer
BY DEF TypeOK, Exists

\* The sub-escrows of a listing have the types the contract declares.
LEMMA FillsType ==
  ASSUME TypeOK, NEW t \in TradeIds
  PROVE  /\ fills[t] \in Seq(SubEscrow)
         /\ Len(fills[t]) \in Nat
         /\ \A i \in 1..Len(fills[t]) :
              /\ fills[t][i] \in SubEscrow
              /\ fills[t][i].amount \in Nat \ {0}
<1>1. fills[t] \in Seq(SubEscrow)
  BY DEF TypeOK
<1>2. Len(fills[t]) \in Nat
  BY <1>1, LenProperties
<1>3. \A i \in 1..Len(fills[t]) : fills[t][i] \in SubEscrow
  BY <1>1, ElementOfSeq
<1>4. \A i \in 1..Len(fills[t]) : fills[t][i].amount \in Nat \ {0}
  BY <1>3 DEF SubEscrow
<1>5. QED
  BY <1>1, <1>2, <1>3, <1>4

\* What a loop over sub-escrows adds up is a natural number that no single
\* amount in it exceeds.
LEMMA SumFillsBounds ==
  ASSUME TypeOK, NEW t \in TradeIds, NEW S
  PROVE  /\ SumFills(t, S) \in Nat
         /\ \A i \in 1..Len(fills[t]) : i \in S => fills[t][i].amount <= SumFills(t, S)
<1> DEFINE n == Len(fills[t])
           v == [i \in 1..n |-> IF i \in S THEN fills[t][i].amount ELSE 0]
<1>1. n \in Nat /\ \A i \in 1..n : v[i] \in Nat
  BY FillsType
<1>2. SumFills(t, S) = SumUpTo(v, n)
  BY DEF SumFills
<1>3. \A i \in 1..n : i \in S => v[i] = fills[t][i].amount
  OBVIOUS
<1> HIDE DEF v, n
<1>4. SumUpTo(v, n) \in Nat /\ \A k \in 1..n : v[k] <= SumUpTo(v, n)
  BY <1>1, SumBounds
<1>5. QED
  BY <1>2, <1>3, <1>4 DEF n

\* A mapping of a listing's sub-escrows to sub-escrows is a list of them.
LEMMA MappedSeq ==
  ASSUME NEW n \in Nat, NEW s, s \in [1..n -> SubEscrow]
  PROVE  s \in Seq(SubEscrow) /\ Len(s) = n
<1>1. s \in Seq(SubEscrow)
  BY SeqDef
<1>2. QED
  BY <1>1, LenProperties

\* The updates of the TradeOffer and of the balances stay within their types.
LEMMA AfterDepositType ==
  ASSUME NEW trade \in TradeOffer, NEW amount \in Int
  PROVE  AfterDeposit(trade, amount) \in TradeOffer
<1> DEFINE filled == trade.filled_amount + amount
           status == IF filled = trade.total_amount THEN "Locked" ELSE "PartiallyFilled"
<1>1. filled \in Int /\ status \in TradeStatus
  BY DEF TradeOffer, TradeStatus
<1>2. AfterDeposit(trade, amount) =
        [trade EXCEPT !.filled_amount = filled, !.status = status]
  BY DEF AfterDeposit
<1> HIDE DEF filled, status
<1>3. QED
  BY <1>1, <1>2 DEF TradeOffer

LEMMA AfterRefundType ==
  ASSUME NEW trade \in TradeOffer, NEW refund \in Int, NEW u
  PROVE  AfterRefund(u, trade, refund) \in TradeOffer
<1> DEFINE remaining == trade.filled_amount - refund
           status == IF u = admin THEN "Cancelled"
                     ELSE IF remaining = 0 THEN "Open"
                     ELSE IF remaining < trade.total_amount THEN "PartiallyFilled"
                     ELSE trade.status
<1>1. remaining \in Int /\ status \in TradeStatus
  BY DEF TradeOffer, TradeStatus
<1>2. AfterRefund(u, trade, refund) =
        [trade EXCEPT !.filled_amount = remaining, !.status = status]
  BY DEF AfterRefund
<1> HIDE DEF remaining, status
<1>3. QED
  BY <1>1, <1>2 DEF TradeOffer

LEMMA TransferredType ==
  ASSUME TypeOK, NEW k \in Tokens, NEW a \in Accounts, NEW b \in Accounts, NEW x \in Int
  PROVE  Transferred(k, a, b, x) \in [Tokens -> [Accounts -> Int]]
<1>1. balance \in [Tokens -> [Accounts -> Int]]
  BY DEF TypeOK
<1>2. [balance[k] EXCEPT ![a] = @ - x] \in [Accounts -> Int]
  BY <1>1
<1>3. [[balance[k] EXCEPT ![a] = @ - x] EXCEPT ![b] = @ + x] \in [Accounts -> Int]
  BY <1>2
<1>4. QED
  BY <1>1, <1>3 DEF Transferred

LEMMA TypeOKInit == Init => TypeOK
<1> SUFFICES ASSUME Init PROVE TypeOK
  OBVIOUS
<1> USE RoleAssumption, NumberAssumption DEF RoleAssumption, NumberAssumption
<1>1. fills \in [TradeIds -> Seq(SubEscrow)]
  BY EmptySeq DEF Init
<1>2. balance \in [Tokens -> [Accounts -> Int]]
  BY DEF Init
<1>3. trades \in [TradeIds -> TradeOffer \cup {NoTrade}]
  BY DEF Init
<1>4. tradeCounter \in 0..MaxTrades
  BY DEF Init
<1>5. windowCloseAt \in [TradeIds -> Nat] /\ recovered \in [Tokens -> Int]
  BY DEF Init
<1>6. now \in Nat /\ pausedAt \in Nat /\ paused \in BOOLEAN /\ admin \in Users \cup {NoAdmin}
  BY DEF Init
<1>7. allowedTokens \subseteq Tokens /\ allowedCategories \subseteq Categories
      /\ disputed \subseteq TradeIds
  BY DEF Init
<1>8. QED
  BY <1>1, <1>2, <1>3, <1>4, <1>5, <1>6, <1>7 DEF TypeOK

LEMMA TypeOKNext == TypeOK /\ [Next]_vars => TypeOK'
<1> SUFFICES ASSUME TypeOK, [Next]_vars PROVE TypeOK'
  OBVIOUS
<1> USE RoleAssumption, NumberAssumption DEF RoleAssumption, NumberAssumption
<1>1. CASE UNCHANGED vars
  BY <1>1 DEF vars, config, escrows, events, TypeOK
<1>2. CASE Tick
  BY <1>2 DEF Tick, config, escrows, events, TypeOK
<1>3. ASSUME NEW a \in Admins, NEW tokens \in SUBSET Tokens, Initialize(a, tokens)
      PROVE  TypeOK'
  <2>1. admin' \in Users \cup {NoAdmin} /\ paused' \in BOOLEAN /\ pausedAt' \in Nat
    BY <1>3 DEF Initialize
  <2>2. allowedTokens' \subseteq Tokens /\ allowedCategories' \subseteq Categories
    BY <1>3 DEF Initialize
  <2>3. tradeCounter' \in 0..MaxTrades
    BY <1>3 DEF Initialize
  <2>4. QED
    BY <1>3, <2>1, <2>2, <2>3 DEF Initialize, events, TypeOK
<1>4. CASE Pause
  BY <1>4 DEF Pause, escrows, events, TypeOK
<1>5. CASE Unpause
  BY <1>5 DEF Unpause, escrows, events, TypeOK
<1>6. ASSUME NEW k \in Tokens, AddAllowedToken(k) \/ RemoveAllowedToken(k)
      PROVE  TypeOK'
  BY <1>6 DEF AddAllowedToken, RemoveAllowedToken, escrows, events, TypeOK
<1>7. ASSUME NEW c \in Categories, AddCategory(c) \/ RemoveCategory(c)
      PROVE  TypeOK'
  BY <1>7 DEF AddCategory, RemoveCategory, escrows, events, TypeOK
<1>8. ASSUME NEW a \in Admins, TransferAdmin(a) PROVE TypeOK'
  BY <1>8 DEF TransferAdmin, escrows, events, TypeOK
<1>9. ASSUME NEW k \in Tokens, NEW u \in Recipients, NEW x \in Amounts,
             EmergencyWithdraw(k, u, x)
      PROVE  TypeOK'
  BY <1>9 DEF EmergencyWithdraw, Transferred, config, TypeOK, Accounts
<1>10. ASSUME NEW u \in Sellers, NEW k \in Tokens, NEW x \in Amounts,
              NEW c \in Categories, NEW e \in 0..Horizon, CreateListing(u, k, x, c, e)
       PROVE  TypeOK'
  <2>1. NewTrade(u, k, x, c, e) \in TradeOffer
    BY <1>10 DEF CreateListing, NewTrade, TradeOffer, TradeStatus
  <2>2. tradeCounter + 1 \in 0..MaxTrades
    BY <1>10 DEF CreateListing, TypeOK
  <2>3. QED
    BY <1>10, <2>1, <2>2 DEF CreateListing, config, events, TypeOK
<1>11. ASSUME NEW u \in Users, NEW t \in TradeIds, NEW x \in Amounts,
              DepositToEscrow(u, t, x)
       PROVE  TypeOK'
  <2> DEFINE sub == [buyer |-> u, amount |-> x, released |-> FALSE, refunded |-> FALSE]
  <2>1. trades[t] \in TradeOffer
    BY <1>11, ExistingTrade DEF DepositToEscrow
  <2>2. AfterDeposit(trades[t], x) \in TradeOffer
    BY <2>1, AfterDepositType
  <2>3. sub \in SubEscrow
    <3>1. x \in Nat \ {0}
      BY <1>11 DEF DepositToEscrow
    <3>2. QED
      BY <3>1 DEF SubEscrow
  <2>4. Append(fills[t], sub) \in Seq(SubEscrow)
    BY <2>3, FillsType
  <2>5. trades' = [trades EXCEPT ![t] = AfterDeposit(trades[t], x)]
        /\ fills' = [fills EXCEPT ![t] = Append(fills[t], sub)]
        /\ windowCloseAt' = [windowCloseAt EXCEPT ![t] = now + DisputeWindow]
        /\ UNCHANGED <<now, config, tradeCounter, events>>
    BY <1>11 DEF DepositToEscrow
  <2>6. balance' \in [Tokens -> [Accounts -> Int]]
    <3>1. trades[t].token \in Tokens /\ u \in Accounts /\ Contract \in Accounts /\ x \in Int
      BY <2>1 DEF TradeOffer, Accounts
    <3>2. balance' = Transferred(trades[t].token, u, Contract, x)
      BY <1>11 DEF DepositToEscrow
    <3>3. QED
      BY <3>1, <3>2, TransferredType
  <2> HIDE DEF sub
  <2>7. QED
    BY <2>2, <2>4, <2>5, <2>6 DEF config, events, TypeOK
<1>12. ASSUME NEW t \in TradeIds, NEW i \in 1..MaxFills, PaySeller(t, i)
       PROVE  TypeOK'
  <2> DEFINE sub == [fills[t][i] EXCEPT !.released = TRUE]
  <2>1. trades[t] \in TradeOffer
    BY <1>12, ExistingTrade DEF PaySeller
  <2>2. i \in 1..Len(fills[t]) /\ fills[t][i] \in SubEscrow
    BY <1>12, FillsType DEF PaySeller
  <2>3. [fills[t] EXCEPT ![i] = sub] \in Seq(SubEscrow)
    <3>1. sub \in SubEscrow
      BY <2>2 DEF SubEscrow
    <3> HIDE DEF sub
    <3>2. QED
      BY <2>2, <3>1, FillsType, ExceptSeq
  <2>4. trades' \in [TradeIds -> TradeOffer \cup {NoTrade}]
    BY <1>12, <2>1 DEF PaySeller, TradeOffer, TradeStatus, TypeOK
  <2>5. balance' \in [Tokens -> [Accounts -> Int]]
    <3>1. /\ trades[t].token \in Tokens /\ trades[t].seller \in Accounts
          /\ Contract \in Accounts /\ fills[t][i].amount \in Int
      BY <2>1, <2>2 DEF TradeOffer, SubEscrow, Accounts
    <3>2. balance' = Transferred(trades[t].token, Contract, trades[t].seller, fills[t][i].amount)
      BY <1>12 DEF PaySeller
    <3>3. QED
      BY <3>1, <3>2, TransferredType
  <2>6. fills' = [fills EXCEPT ![t] = [fills[t] EXCEPT ![i] = sub]]
        /\ UNCHANGED <<now, config, tradeCounter, windowCloseAt, events>>
    BY <1>12 DEF PaySeller
  <2> HIDE DEF sub
  <2>7. QED
    BY <2>3, <2>4, <2>5, <2>6 DEF config, events, TypeOK
<1>13. ASSUME NEW u \in Users, NEW t \in TradeIds, CancelAndRefund(u, t)
       PROVE  TypeOK'
  <2> DEFINE n == Len(fills[t])
             refunds == Refunds(u, t)
             s == [i \in 1..n |-> IF i \in refunds THEN [fills[t][i] EXCEPT !.refunded = TRUE]
                                                   ELSE fills[t][i]]
  <2>1. trades[t] \in TradeOffer
    BY <1>13, ExistingTrade DEF CancelAndRefund
  <2>2. SumFills(t, refunds) \in Int /\ \A a \in Accounts : Owed(u, t, a) \in Int
    BY SumFillsBounds DEF Owed
  <2>3. AfterRefund(u, trades[t], SumFills(t, refunds)) \in TradeOffer
    BY <2>1, <2>2, AfterRefundType
  <2>4. s \in Seq(SubEscrow)
    <3>1. \A i \in 1..n : [fills[t][i] EXCEPT !.refunded = TRUE] \in SubEscrow
      BY FillsType DEF SubEscrow
    <3>2. s \in [1..n -> SubEscrow]
      BY <3>1, FillsType
    <3> HIDE DEF s
    <3>3. QED
      BY <3>2, MappedSeq, FillsType
  <2>5. balance' \in [Tokens -> [Accounts -> Int]]
    <3>1. trades[t].token \in Tokens
      BY <2>1 DEF TradeOffer
    <3>2. balance' = [balance EXCEPT ![trades[t].token] =
                        [a \in Accounts |-> IF a = Contract
                           THEN balance[trades[t].token][a] - SumFills(t, refunds)
                           ELSE balance[trades[t].token][a] + Owed(u, t, a)]]
      BY <1>13 DEF CancelAndRefund
    <3>3. \A a \in Accounts : balance[trades[t].token][a] \in Int
      BY <3>1 DEF TypeOK
    <3> HIDE DEF refunds
    <3>4. QED
      BY <2>2, <3>1, <3>2, <3>3 DEF TypeOK
  <2>6. /\ trades' = [trades EXCEPT ![t] = AfterRefund(u, trades[t], SumFills(t, refunds))]
        /\ fills' = [fills EXCEPT ![t] = s]
        /\ UNCHANGED <<now, config, tradeCounter, windowCloseAt, events>>
    BY <1>13 DEF CancelAndRefund
  <2> HIDE DEF s, refunds
  <2>7. QED
    BY <2>3, <2>4, <2>5, <2>6 DEF config, events, TypeOK
<1>14. ASSUME NEW t \in TradeIds, CloseExpiredListing(t) PROVE TypeOK'
  BY <1>14 DEF CloseExpiredListing, config, events, TypeOK
<1>15. ASSUME NEW u \in Users, NEW t \in TradeIds, FlagDispute(u, t)
       PROVE  TypeOK'
  <2>1. trades[t] \in TradeOffer
    BY <1>15, ExistingTrade DEF FlagDispute
  <2>2. [trades[t] EXCEPT !.status = "Disputed"] \in TradeOffer
    BY <2>1 DEF TradeOffer, TradeStatus
  <2>3. QED
    BY <1>15, <2>2 DEF FlagDispute, config, TypeOK
<1>16. QED
  BY <1>1, <1>2, <1>3, <1>4, <1>5, <1>6, <1>7, <1>8, <1>9, <1>10, <1>11, <1>12,
     <1>13, <1>14, <1>15
     DEF Next, AdminCall, TradeCall, ReleasePayment, ReleaseByTimelock

\* The storage entries keep the types the contract declares, whatever calls are
\* made in whatever order.
THEOREM TypeCorrect == Spec => []TypeOK
BY TypeOKInit, TypeOKNext, PTL DEF Spec

-----------------------------------------------------------------------------
(* The status of a listing, its filled_amount and its sub-escrows agree.   *)

\* What IInv says of one listing.
Consistent(t) ==
  /\ Exists(t) =>
       LET trade == trades[t]
           full  == trade.filled_amount = trade.total_amount
       IN  /\ trade.filled_amount = SumFills(t, KeptFills(t))
           /\ trade.filled_amount \in 0..trade.total_amount
           /\ trade.status = "Open" => trade.filled_amount = 0
           /\ trade.status = "PartiallyFilled" => trade.filled_amount > 0 /\ ~full
           /\ trade.status \in {"Locked", "Disputed"} => full /\ ActiveFills(t) # {}
           /\ trade.status = "Completed" => full /\ ActiveFills(t) = {}
           /\ trade.status = "Cancelled" => ActiveFills(t) = {}
  /\ ActiveFills(t) # {} => Exists(t)

\* An active sub-escrow is a kept one, and if the kept ones add up to nothing
\* there are none: every amount is positive.
LEMMA NothingKept ==
  ASSUME TypeOK, NEW t \in TradeIds
  PROVE  /\ ActiveFills(t) \subseteq KeptFills(t)
         /\ SumFills(t, KeptFills(t)) = 0 => KeptFills(t) = {}
<1>1. ActiveFills(t) \subseteq KeptFills(t)
  BY DEF ActiveFills, KeptFills, Active
<1>2. ASSUME NEW i \in KeptFills(t) PROVE SumFills(t, KeptFills(t)) # 0
  <2>1. i \in 1..Len(fills[t])
    BY DEF KeptFills
  <2>2. fills[t][i].amount <= SumFills(t, KeptFills(t)) /\ fills[t][i].amount \in Nat \ {0}
    BY <2>1, SumFillsBounds, FillsType
  <2>3. SumFills(t, KeptFills(t)) \in Nat
    BY SumFillsBounds
  <2>4. QED
    BY <2>2, <2>3
<1>3. QED
  BY <1>1, <1>2

\* The invariants say of every listing that it is Consistent, and conversely.
LEMMA IInvIsConsistent ==
  ASSUME TypeOK
  PROVE  FilledIsSumOfKeptFills /\ StatusMatchesFills /\ NoStrandedFills
           <=> \A t \in TradeIds : Consistent(t)
<1>1. ASSUME FilledIsSumOfKeptFills, StatusMatchesFills, NoStrandedFills, NEW t \in TradeIds
      PROVE  Consistent(t)
  BY <1>1 DEF FilledIsSumOfKeptFills, StatusMatchesFills, NoStrandedFills, Consistent
<1>2. ASSUME \A t \in TradeIds : Consistent(t)
      PROVE  FilledIsSumOfKeptFills /\ StatusMatchesFills
  BY <1>2 DEF FilledIsSumOfKeptFills, StatusMatchesFills, Consistent
<1>3. ASSUME \A t \in TradeIds : Consistent(t), NEW t \in TradeIds, ActiveFills(t) # {}
      PROVE  Exists(t) /\ trades[t].status \in {"PartiallyFilled", "Locked", "Disputed"}
  <2>1. Exists(t)
    BY <1>3 DEF Consistent
  <2>2. trades[t].status \in TradeStatus
    BY <2>1, ExistingTrade DEF TradeOffer
  <2>3. trades[t].status # "Open"
    <3>1. trades[t].status = "Open" => SumFills(t, KeptFills(t)) = 0
      BY <1>3, <2>1 DEF Consistent
    <3>2. QED
      BY <3>1, <1>3, NothingKept
  <2>4. trades[t].status \notin {"Completed", "Cancelled"}
    BY <1>3, <2>1 DEF Consistent
  <2>5. QED
    BY <2>1, <2>2, <2>3, <2>4 DEF TradeStatus
<1>4. QED
  BY <1>1, <1>2, <1>3 DEF NoStrandedFills

\* A step that leaves a listing's entries alone leaves it Consistent.
LEMMA Frame ==
  ASSUME NEW t, Consistent(t), trades'[t] = trades[t], fills'[t] = fills[t]
  PROVE  Consistent(t)'
BY DEF Consistent, Exists, SumFills, KeptFills, ActiveFills, Active

LEMMA CreateConsistent ==
  ASSUME IInv, NEW u \in Sellers, NEW k \in Tokens, NEW x \in Amounts, NEW c \in Categories,
         NEW e \in 0..Horizon, CreateListing(u, k, x, c, e),
         NEW t, t = tradeCounter + 1
  PROVE  Consistent(t)'
<1>1. t \in TradeIds /\ t > tradeCounter
  BY NumberAssumption DEF NumberAssumption, CreateListing, IInv, TypeOK, TradeIds
<1>2. fills'[t] = << >>
  BY <1>1 DEF CreateListing, IInv, IdsAreFresh
<1>3. trades'[t] = NewTrade(u, k, x, c, e) /\ x > 0
  BY <1>1 DEF CreateListing, IInv, TypeOK
<1>4. Len(fills'[t]) = 0
  <2>1. Len(<< >>) = 0
    BY EmptySeq
  <2>2. QED
    BY <1>2, <2>1
<1>5. ActiveFills(t)' = {}
  BY <1>4 DEF ActiveFills
<1>6. SumFills(t, KeptFills(t))' = 0
  <2> DEFINE w == [i \in 1..Len(fills'[t]) |-> IF i \in KeptFills(t)' THEN fills'[t][i].amount ELSE 0]
  <2>1. SumFills(t, KeptFills(t))' = SumUpTo(w, 0)
    BY <1>4 DEF SumFills
  <2> HIDE DEF w
  <2>2. SumUpTo(w, 0) = 0
    <3>1. \A i \in 1..0 : w[i] \in Int
      OBVIOUS
    <3>2. QED
      BY <3>1, SumType
  <2>3. QED
    BY <2>1, <2>2
<1>7. QED
  <2>1. x \in Nat \ {0}
    BY <1>3, NumberAssumption DEF NumberAssumption
  <2>2. QED
    BY <1>3, <1>5, <1>6, <2>1 DEF Consistent, NewTrade

LEMMA DepositConsistent ==
  ASSUME IInv, NEW t \in TradeIds, Consistent(t), NEW u, NEW x \in Int,
         DepositToEscrow(u, t, x)
  PROVE  Consistent(t)'
<1> DEFINE n == Len(fills[t])
           sub == [buyer |-> u, amount |-> x, released |-> FALSE, refunded |-> FALSE]
           v == [i \in 1..n |-> IF i \in KeptFills(t) THEN fills[t][i].amount ELSE 0]
           w == [i \in 1..(n+1) |-> IF i \in KeptFills(t)' THEN fills'[t][i].amount ELSE 0]
<1>0. TypeOK
  BY DEF IInv
<1>1. trades[t] \in TradeOffer /\ Exists(t) /\ trades[t].status \in {"Open", "PartiallyFilled"}
  BY <1>0, ExistingTrade DEF DepositToEscrow
<1>2. trades'[t] = AfterDeposit(trades[t], x)
  BY <1>0 DEF DepositToEscrow, TypeOK
<1>3. fills'[t] = Append(fills[t], sub)
  BY <1>0 DEF DepositToEscrow, TypeOK
<1>4. /\ n \in Nat
      /\ Len(fills'[t]) = n + 1
      /\ \A i \in 1..n : fills'[t][i] = fills[t][i]
      /\ fills'[t][n+1] = sub
  <2> HIDE DEF sub
  <2>1. fills[t] \in Seq(SubEscrow)
    BY <1>0, FillsType
  <2>2. QED
    BY <1>3, <2>1
<1>5. x > 0 /\ x <= trades[t].total_amount - trades[t].filled_amount
  BY DEF DepositToEscrow
<1>6. KeptFills(t)' = KeptFills(t) \cup {n+1} /\ n + 1 \in ActiveFills(t)'
  BY <1>4 DEF KeptFills, ActiveFills, Active
<1>7. SumFills(t, KeptFills(t))' = SumFills(t, KeptFills(t)) + x
  <2>1. \A i \in 1..n : v[i] \in Int /\ w[i] = v[i]
    BY <1>0, <1>4, <1>6, FillsType
  <2>2. w[n+1] = x
    BY <1>4, <1>6
  <2>3. SumUpTo(w, n+1) = SumUpTo(v, n) + x
    <3> HIDE DEF v, w, n
    <3>1. n \in Nat
      BY <1>4
    <3>2. QED
      BY <2>1, <2>2, <3>1, SumExtend
  <2>4. SumFills(t, KeptFills(t)) = SumUpTo(v, n)
    BY DEF SumFills
  <2>5. SumFills(t, KeptFills(t))' = SumUpTo(w, n+1)
    BY <1>4 DEF SumFills
  <2>6. QED
    BY <2>3, <2>4, <2>5
<1>8. trades[t].filled_amount = SumFills(t, KeptFills(t))
      /\ trades[t].filled_amount \in 0..trades[t].total_amount
  BY <1>1 DEF Consistent
<1>9. /\ trades'[t].filled_amount = trades[t].filled_amount + x
      /\ trades'[t].total_amount = trades[t].total_amount
      /\ trades'[t].status = IF trades[t].filled_amount + x = trades[t].total_amount
                             THEN "Locked" ELSE "PartiallyFilled"
  BY <1>1, <1>2 DEF AfterDeposit, TradeOffer
<1>10. Exists(t)'
  <2>1. trades'[t] \in TradeOffer
    BY <1>1, <1>2, AfterDepositType
  <2>2. QED
    BY <2>1, NoTradeAssumption DEF NoTradeAssumption, Exists
<1>11. trades[t].filled_amount \in Int /\ trades[t].total_amount \in Nat \ {0}
  BY <1>1 DEF TradeOffer
<1>12. QED
  BY <1>5, <1>6, <1>7, <1>8, <1>9, <1>10, <1>11 DEF Consistent

LEMMA PaySellerConsistent ==
  ASSUME IInv, NEW t \in TradeIds, Consistent(t), NEW i, PaySeller(t, i)
  PROVE  Consistent(t)'
<1> DEFINE n == Len(fills[t])
           others == \A j \in 1..n \ {i} : ~Active(fills[t][j])
           v == [j \in 1..n |-> IF j \in KeptFills(t) THEN fills[t][j].amount ELSE 0]
           w == [j \in 1..n |-> IF j \in KeptFills(t)' THEN fills'[t][j].amount ELSE 0]
<1>0. TypeOK
  BY DEF IInv
<1>1. trades[t] \in TradeOffer /\ Exists(t) /\ trades[t].status \in {"Locked", "PartiallyFilled"}
  BY <1>0, ExistingTrade DEF PaySeller
<1>2. i \in 1..n /\ Active(fills[t][i])
  BY DEF PaySeller
<1>3. fills'[t] = [fills[t] EXCEPT ![i] = [fills[t][i] EXCEPT !.released = TRUE]]
  BY <1>0 DEF PaySeller, TypeOK
<1>4. /\ Len(fills'[t]) = n
      /\ fills'[t][i] = [fills[t][i] EXCEPT !.released = TRUE]
      /\ \A j \in 1..n \ {i} : fills'[t][j] = fills[t][j]
  <2>1. fills[t] \in Seq(SubEscrow) /\ fills[t][i] \in SubEscrow
    BY <1>0, <1>2, FillsType
  <2>2. [fills[t][i] EXCEPT !.released = TRUE] \in SubEscrow
    BY <2>1 DEF SubEscrow
  <2> DEFINE s == [fills[t][i] EXCEPT !.released = TRUE]
  <2> HIDE DEF s
  <2>3. s \in SubEscrow /\ fills'[t] = [fills[t] EXCEPT ![i] = s]
    BY <2>2, <1>3 DEF s
  <2>4. /\ Len(fills'[t]) = n
        /\ \A j \in 1..n : fills'[t][j] = IF j = i THEN s ELSE fills[t][j]
    BY <1>2, <2>1, <2>3, ExceptSeq
  <2>5. QED
    BY <2>4, <1>2 DEF s
<1>5. /\ fills'[t][i].released /\ fills'[t][i].refunded = fills[t][i].refunded
      /\ fills'[t][i].amount = fills[t][i].amount
  <2>1. fills[t][i] \in SubEscrow
    BY <1>0, <1>2, FillsType
  <2>2. QED
    BY <1>4, <2>1 DEF SubEscrow
<1>6. KeptFills(t)' = KeptFills(t) /\ ActiveFills(t)' = ActiveFills(t) \ {i}
  <2>1. KeptFills(t)' = KeptFills(t)
    BY <1>2, <1>4, <1>5 DEF KeptFills
  <2>2. ~Active(fills'[t][i])
    BY <1>5 DEF Active
  <2>3. \A j \in 1..n \ {i} : Active(fills'[t][j]) <=> Active(fills[t][j])
    BY <1>4
  <2>4. QED
    BY <1>2, <1>4, <2>1, <2>2, <2>3 DEF ActiveFills, Active
<1>7. SumFills(t, KeptFills(t))' = SumFills(t, KeptFills(t))
  <2>1. \A j \in 1..n : v[j] \in Int /\ w[j] = v[j]
    <3>1. \A j \in 1..n : fills'[t][j].amount = fills[t][j].amount
      BY <1>4, <1>5
    <3>2. \A j \in 1..n : fills[t][j].amount \in Int
      BY <1>0, FillsType
    <3>3. QED
      BY <1>6, <3>1, <3>2
  <2>2. SumUpTo(w, n) = SumUpTo(v, n)
    <3>1. n \in Nat
      BY <1>0, FillsType
    <3> HIDE DEF v, w, n
    <3>2. QED
      BY <2>1, <3>1, SumExtend
  <2>3. QED
    BY <1>4, <2>2 DEF SumFills
<1>8. others <=> ActiveFills(t)' = {}
  BY <1>6 DEF ActiveFills
<1> HIDE DEF others
<1>9. trades'[t] = [trades[t] EXCEPT !.status =
                      IF trades[t].filled_amount = trades[t].total_amount /\ others
                      THEN "Completed" ELSE trades[t].status]
  BY <1>0 DEF PaySeller, TypeOK, others
<1>10. /\ trades'[t].filled_amount = trades[t].filled_amount
       /\ trades'[t].total_amount = trades[t].total_amount
       /\ trades'[t].status = IF trades[t].filled_amount = trades[t].total_amount /\ others
                              THEN "Completed" ELSE trades[t].status
  BY <1>1, <1>9 DEF TradeOffer
<1>11. Exists(t)'
  <2> DEFINE status == IF trades[t].filled_amount = trades[t].total_amount /\ others
                       THEN "Completed" ELSE trades[t].status
  <2>1. status \in TradeStatus /\ trades'[t] = [trades[t] EXCEPT !.status = status]
    BY <1>1, <1>9 DEF TradeStatus
  <2> HIDE DEF status
  <2>2. trades'[t] \in TradeOffer
    BY <1>1, <2>1 DEF TradeOffer
  <2>3. QED
    BY <2>2, NoTradeAssumption DEF NoTradeAssumption, Exists
<1>12. QED
  BY <1>1, <1>7, <1>8, <1>10, <1>11 DEF Consistent

\* The admin's call refunds every active sub-escrow; a buyer's refunds its own and
\* leaves the rest of the listing for sale.
LEMMA CancelConsistent ==
  ASSUME IInv, NEW t \in TradeIds, Consistent(t), NEW u, CancelAndRefund(u, t)
  PROVE  Consistent(t)'
<1> DEFINE n == Len(fills[t])
           refunds == Refunds(u, t)
           refund == SumFills(t, refunds)
           total == trades[t].total_amount
           filled == trades[t].filled_amount
           remaining == filled - refund
           status == IF u = admin THEN "Cancelled"
                     ELSE IF remaining = 0 THEN "Open"
                     ELSE IF remaining < total THEN "PartiallyFilled"
                     ELSE trades[t].status
           p == [i \in 1..n |-> IF i \in refunds THEN fills[t][i].amount ELSE 0]
           v == [i \in 1..n |-> IF i \in KeptFills(t) THEN fills[t][i].amount ELSE 0]
           w == [i \in 1..n |-> IF i \in KeptFills(t)' THEN fills'[t][i].amount ELSE 0]
<1>0. TypeOK
  BY DEF IInv
<1>1. trades[t] \in TradeOffer /\ Exists(t) /\ trades[t].status \in RefundableStatuses
  BY <1>0, ExistingTrade DEF CancelAndRefund
<1>2. n \in Nat /\ \A i \in 1..n : fills[t][i] \in SubEscrow /\ fills[t][i].amount \in Nat \ {0}
  BY <1>0, FillsType
<1>3. /\ Len(fills'[t]) = n
      /\ \A i \in 1..n : fills'[t][i] = IF i \in refunds
                                         THEN [fills[t][i] EXCEPT !.refunded = TRUE]
                                         ELSE fills[t][i]
  <2> DEFINE s == [i \in 1..n |-> IF i \in refunds THEN [fills[t][i] EXCEPT !.refunded = TRUE]
                                                    ELSE fills[t][i]]
  <2>1. fills'[t] = s
    BY <1>0 DEF CancelAndRefund, TypeOK
  <2>2. s \in [1..n -> SubEscrow]
    <3>1. \A i \in 1..n : [fills[t][i] EXCEPT !.refunded = TRUE] \in SubEscrow
      BY <1>2 DEF SubEscrow
    <3>2. QED
      BY <1>2, <3>1
  <2>3. Len(s) = n
    <3> HIDE DEF s, n
    <3>1. QED
      BY <1>2, <2>2, MappedSeq
  <2>4. QED
    BY <2>1, <2>3
<1>4. \A i \in 1..n : /\ fills'[t][i].released = fills[t][i].released
                       /\ fills'[t][i].refunded <=> (fills[t][i].refunded \/ i \in refunds)
  BY <1>2, <1>3 DEF SubEscrow
<1>4a. \A i \in 1..n : fills'[t][i].amount = fills[t][i].amount
  BY <1>2, <1>3 DEF SubEscrow
<1>5. refunds = {i \in ActiveFills(t) : u = admin \/ fills[t][i].buyer = u}
  BY DEF Refunds, Refundable, ActiveFills
<1>6. KeptFills(t)' = KeptFills(t) \ refunds /\ ActiveFills(t)' = ActiveFills(t) \ refunds
  BY <1>3, <1>4 DEF KeptFills, ActiveFills, Active
<1>7. refunds \subseteq KeptFills(t)
  BY <1>0, <1>5, NothingKept
<1> HIDE DEF refunds
<1>8. SumFills(t, KeptFills(t)) = refund + SumFills(t, KeptFills(t))'
  <2>1. \A i \in 1..n : p[i] \in Int /\ w[i] \in Int /\ v[i] = p[i] + w[i]
    <3>1. \A i \in 1..n : fills[t][i].amount \in Int
      BY <1>2
    <3>2. \A i \in 1..n : fills'[t][i].amount = fills[t][i].amount
      BY <1>4a
    <3>3. \A i \in 1..n : i \in refunds => i \in KeptFills(t) /\ i \notin KeptFills(t)'
      BY <1>6, <1>7
    <3>4. \A i \in 1..n : i \notin refunds => (i \in KeptFills(t)' <=> i \in KeptFills(t))
      BY <1>6
    <3>5. QED
      BY <3>1, <3>2, <3>3, <3>4
  <2>2. SumUpTo(v, n) = SumUpTo(p, n) + SumUpTo(w, n)
    <3> HIDE DEF p, v, w, n
    <3>1. QED
      BY <1>2, <2>1, SumAdds
  <2>3. SumFills(t, KeptFills(t)) = SumUpTo(v, n) /\ refund = SumUpTo(p, n)
    BY DEF SumFills
  <2>4. SumFills(t, KeptFills(t))' = SumUpTo(w, n)
    BY <1>3 DEF SumFills
  <2>5. QED
    BY <2>2, <2>3, <2>4
<1>9. refund \in Nat /\ (refunds # {} => refund > 0)
  <2>1. SumFills(t, refunds) \in Nat
        /\ \A i \in 1..n : i \in refunds => fills[t][i].amount <= SumFills(t, refunds)
    BY <1>0, SumFillsBounds
  <2>2. refunds \subseteq 1..n
    BY DEF refunds, Refunds
  <2>3. QED
    BY <1>2, <2>1, <2>2
<1>10. SumFills(t, KeptFills(t))' \in Nat
  <2>1. \A i \in 1..n : w[i] \in Nat
    BY <1>2, <1>4a
  <2>2. SumUpTo(w, n) \in Nat
    <3> HIDE DEF w, n
    <3>1. QED
      BY <1>2, <2>1, SumBounds
  <2>3. QED
    BY <1>3, <2>2 DEF SumFills
<1>11. trades'[t] = [trades[t] EXCEPT !.filled_amount = remaining, !.status = status]
  BY <1>0 DEF CancelAndRefund, AfterRefund, TypeOK, refunds
<1>12. filled = SumFills(t, KeptFills(t)) /\ filled \in 0..total /\ total \in Nat \ {0}
  BY <1>1 DEF Consistent, TradeOffer
<1>13. u = admin => ActiveFills(t)' = {}
  BY <1>5, <1>6
<1>14. u # admin => refunds # {}
  BY DEF CancelAndRefund, MayRefund, refunds
<1> DEFINE kept == SumFills(t, KeptFills(t))'
<1>15. Exists(t)' /\ trades'[t].filled_amount = remaining /\ trades'[t].total_amount = total
       /\ trades'[t].status = status
  <2>1. remaining \in Int /\ status \in TradeStatus
    BY <1>1, <1>9, <1>12 DEF TradeStatus, TradeOffer
  <2> HIDE DEF remaining, status
  <2>2. trades'[t] \in TradeOffer
    BY <1>1, <1>11, <2>1 DEF TradeOffer
  <2>3. Exists(t)'
    BY <2>2, NoTradeAssumption DEF NoTradeAssumption, Exists
  <2>4. QED
    BY <1>1, <1>11, <2>3 DEF TradeOffer
<1>16. remaining = kept /\ remaining \in 0..total /\ (u # admin => remaining < total)
  <2> HIDE DEF refund, filled, total, kept
  <2>1. kept \in Nat /\ filled = refund + kept
    BY <1>8, <1>10, <1>12 DEF kept
  <2>2. QED
    BY <1>9, <1>12, <1>14, <2>1
<1>17. status = IF u = admin THEN "Cancelled" ELSE IF remaining = 0 THEN "Open" ELSE "PartiallyFilled"
  BY <1>16
<1>18. ActiveFills(t)' # {} => Exists(t)'
  BY <1>15
<1> HIDE DEF remaining, status, total
<1>19. QED
  BY <1>12, <1>13, <1>15, <1>16, <1>17, <1>18 DEF Consistent

\* Only a listing without an active sub-escrow is removed.
LEMMA CloseConsistent ==
  ASSUME IInv, NEW t \in TradeIds, Consistent(t), CloseExpiredListing(t)
  PROVE  Consistent(t)'
<1>1. TypeOK
  BY DEF IInv
<1>2. trades'[t] = NoTrade /\ fills'[t] = fills[t]
  BY <1>1 DEF CloseExpiredListing, TypeOK
<1>3. SumFills(t, KeptFills(t)) = 0
  BY DEF CloseExpiredListing, Consistent
<1>4. ActiveFills(t) = {}
  BY <1>1, <1>3, NothingKept
<1>5. QED
  BY <1>2, <1>4 DEF Consistent, Exists, ActiveFills

LEMMA FlagConsistent ==
  ASSUME IInv, NEW t \in TradeIds, Consistent(t), NEW u, FlagDispute(u, t)
  PROVE  Consistent(t)'
<1>1. TypeOK
  BY DEF IInv
<1>2. trades[t] \in TradeOffer /\ Exists(t) /\ trades[t].status = "Locked"
  BY <1>1, ExistingTrade DEF FlagDispute
<1>3. trades'[t] = [trades[t] EXCEPT !.status = "Disputed"] /\ fills'[t] = fills[t]
  BY <1>1 DEF FlagDispute, TypeOK
<1>4. /\ trades'[t].status = "Disputed"
      /\ trades'[t].filled_amount = trades[t].filled_amount
      /\ trades'[t].total_amount = trades[t].total_amount
  BY <1>2, <1>3 DEF TradeOffer
<1>5. Exists(t)'
  <2>1. trades'[t] \in TradeOffer
    BY <1>2, <1>3 DEF TradeOffer, TradeStatus
  <2>2. QED
    BY <2>1, NoTradeAssumption DEF NoTradeAssumption, Exists
<1>6. ActiveFills(t)' = ActiveFills(t) /\ SumFills(t, KeptFills(t))' = SumFills(t, KeptFills(t))
  BY <1>3 DEF ActiveFills, SumFills, KeptFills
<1>7. QED
  BY <1>2, <1>4, <1>5, <1>6 DEF Consistent

\* A step changes the entries of one listing at most, and leaves it Consistent.
LEMMA ConsistentNext ==
  ASSUME IInv, [Next]_vars, NEW t \in TradeIds
  PROVE  Consistent(t)'
<1>0. TypeOK /\ \A s \in TradeIds : Consistent(s)
  BY IInvIsConsistent DEF IInv
<1>1. CASE UNCHANGED <<trades, fills>>
  BY <1>0, <1>1, Frame
<1>2. ASSUME NEW u \in Sellers, NEW k \in Tokens, NEW x \in Amounts, NEW c \in Categories,
             NEW e \in 0..Horizon, CreateListing(u, k, x, c, e)
      PROVE  Consistent(t)'
  <2>1. CASE t = tradeCounter + 1
    BY <1>2, <2>1, CreateConsistent
  <2>2. CASE t # tradeCounter + 1
    <3>1. trades'[t] = trades[t] /\ fills'[t] = fills[t]
      BY <1>0, <1>2, <2>2 DEF CreateListing, TypeOK
    <3>2. QED
      BY <1>0, <3>1, Frame
  <2>3. QED
    BY <2>1, <2>2
<1>3. ASSUME NEW s \in TradeIds, s # t,
             trades'[t] = trades[t] /\ fills'[t] = fills[t]
      PROVE  Consistent(t)'
  BY <1>0, <1>3, Frame
<1>4. ASSUME NEW u \in Users, NEW s \in TradeIds, NEW x \in Amounts, DepositToEscrow(u, s, x)
      PROVE  Consistent(t)'
  <2>1. x \in Int
    BY NumberAssumption DEF NumberAssumption
  <2>2. s # t => trades'[t] = trades[t] /\ fills'[t] = fills[t]
    BY <1>0, <1>4 DEF DepositToEscrow, TypeOK
  <2>3. QED
    BY <1>0, <1>3, <1>4, <2>1, <2>2, DepositConsistent
<1>5. ASSUME NEW s \in TradeIds, NEW i \in 1..MaxFills, PaySeller(s, i)
      PROVE  Consistent(t)'
  <2>1. s # t => trades'[t] = trades[t] /\ fills'[t] = fills[t]
    BY <1>0, <1>5 DEF PaySeller, TypeOK
  <2>2. QED
    BY <1>0, <1>3, <1>5, <2>1, PaySellerConsistent
<1>6. ASSUME NEW u \in Users, NEW s \in TradeIds, CancelAndRefund(u, s)
      PROVE  Consistent(t)'
  <2>1. s # t => trades'[t] = trades[t] /\ fills'[t] = fills[t]
    BY <1>0, <1>6 DEF CancelAndRefund, TypeOK
  <2>2. QED
    BY <1>0, <1>3, <1>6, <2>1, CancelConsistent
<1>7. ASSUME NEW s \in TradeIds, CloseExpiredListing(s)
      PROVE  Consistent(t)'
  <2>1. s # t => trades'[t] = trades[t] /\ fills'[t] = fills[t]
    BY <1>0, <1>7 DEF CloseExpiredListing, TypeOK
  <2>2. QED
    BY <1>0, <1>3, <1>7, <2>1, CloseConsistent
<1>8. ASSUME NEW u \in Users, NEW s \in TradeIds, FlagDispute(u, s)
      PROVE  Consistent(t)'
  <2>1. s # t => trades'[t] = trades[t] /\ fills'[t] = fills[t]
    BY <1>0, <1>8 DEF FlagDispute, TypeOK
  <2>2. QED
    BY <1>0, <1>3, <1>8, <2>1, FlagConsistent
<1>9. CASE AdminCall \/ Tick \/ UNCHANGED vars
  <2>1. UNCHANGED <<trades, fills>>
    BY <1>9 DEF AdminCall, Tick, vars, escrows, Initialize, Pause, Unpause, AddAllowedToken,
       RemoveAllowedToken, AddCategory, RemoveCategory, TransferAdmin, EmergencyWithdraw
  <2>2. QED
    BY <1>1, <2>1
<1>10. CASE TradeCall
  BY <1>2, <1>4, <1>5, <1>6, <1>7, <1>8, <1>10 DEF TradeCall, ReleasePayment, ReleaseByTimelock
<1>11. QED
  BY <1>9, <1>10 DEF Next

\* Ids stay fresh: initialize, which resets the counter, runs once and before
\* anything can be listed.
LEMMA FreshNext ==
  ASSUME IInv, [Next]_vars
  PROVE  IdsAreFresh'
<1> USE RoleAssumption, NumberAssumption DEF RoleAssumption, NumberAssumption
<1>0. TypeOK /\ IdsAreFresh
  BY DEF IInv
<1>1. ASSUME NEW a \in Admins, NEW tokens \in SUBSET Tokens, Initialize(a, tokens)
      PROVE  IdsAreFresh'
  BY <1>0, <1>1 DEF Initialize, IdsAreFresh, Exists
<1>2. ASSUME NEW u \in Sellers, NEW k \in Tokens, NEW x \in Amounts, NEW c \in Categories,
             NEW e \in 0..Horizon, CreateListing(u, k, x, c, e)
      PROVE  IdsAreFresh'
  <2>1. admin # NoAdmin
    BY <1>0, <1>2 DEF CreateListing, IdsAreFresh
  <2>2. \A t \in TradeIds : t > tradeCounter + 1 => trades'[t] = trades[t]
    BY <1>0, <1>2 DEF CreateListing, TypeOK
  <2>3. QED
    <3>1. admin' = admin /\ fills' = fills /\ tradeCounter' = tradeCounter + 1
      BY <1>2 DEF CreateListing, config
    <3>2. ASSUME NEW t \in TradeIds, t > tradeCounter + 1
          PROVE  ~Exists(t)' /\ fills'[t] = << >>
      <4>1. t > tradeCounter
        BY <1>0, <3>2 DEF TypeOK, TradeIds
      <4>2. QED
        BY <1>0, <2>2, <3>1, <3>2, <4>1 DEF IdsAreFresh, Exists
    <3>3. QED
      BY <2>1, <3>1, <3>2 DEF IdsAreFresh
<1>3. ASSUME NEW s \in TradeIds, s <= tradeCounter,
             UNCHANGED <<admin, allowedTokens, tradeCounter>>,
             \A t \in TradeIds : t # s => trades'[t] = trades[t] /\ fills'[t] = fills[t]
      PROVE  IdsAreFresh'
  <2>1. ASSUME NEW t \in TradeIds, t > tradeCounter PROVE t # s
    BY <1>0, <1>3, <2>1 DEF TypeOK, TradeIds
  <2>2. QED
    BY <1>0, <1>3, <2>1 DEF IdsAreFresh, Exists
<1>4. ASSUME NEW s \in TradeIds, Exists(s) PROVE s <= tradeCounter
  BY <1>0, <1>4 DEF IdsAreFresh, TypeOK, TradeIds
<1>5. ASSUME NEW u \in Users, NEW s \in TradeIds, NEW x \in Amounts, DepositToEscrow(u, s, x)
      PROVE  IdsAreFresh'
  BY <1>0, <1>3, <1>4, <1>5 DEF DepositToEscrow, TypeOK, config
<1>6. ASSUME NEW s \in TradeIds, NEW i \in 1..MaxFills, PaySeller(s, i)
      PROVE  IdsAreFresh'
  BY <1>0, <1>3, <1>4, <1>6 DEF PaySeller, TypeOK, config
<1>7. ASSUME NEW u \in Users, NEW s \in TradeIds, CancelAndRefund(u, s)
      PROVE  IdsAreFresh'
  BY <1>0, <1>3, <1>4, <1>7 DEF CancelAndRefund, TypeOK, config
<1>8. ASSUME NEW s \in TradeIds, CloseExpiredListing(s)
      PROVE  IdsAreFresh'
  BY <1>0, <1>3, <1>4, <1>8 DEF CloseExpiredListing, TypeOK, config
<1>9. ASSUME NEW u \in Users, NEW s \in TradeIds, FlagDispute(u, s)
      PROVE  IdsAreFresh'
  BY <1>0, <1>3, <1>4, <1>9 DEF FlagDispute, TypeOK, config
<1>10. CASE Pause \/ Unpause
  BY <1>0, <1>10 DEF Pause, Unpause, escrows, IdsAreFresh, Exists
<1>11. ASSUME NEW k \in Tokens, AddAllowedToken(k) \/ RemoveAllowedToken(k)
       PROVE  IdsAreFresh'
  BY <1>0, <1>11 DEF AddAllowedToken, RemoveAllowedToken, escrows, IdsAreFresh, Exists
<1>12. ASSUME NEW c \in Categories, AddCategory(c) \/ RemoveCategory(c)
       PROVE  IdsAreFresh'
  BY <1>0, <1>12 DEF AddCategory, RemoveCategory, escrows, IdsAreFresh, Exists
<1>13. ASSUME NEW a \in Admins, TransferAdmin(a) PROVE IdsAreFresh'
  BY <1>0, <1>13 DEF TransferAdmin, escrows, IdsAreFresh, Exists
<1>14. ASSUME NEW k \in Tokens, NEW u \in Recipients, NEW x \in Amounts,
              EmergencyWithdraw(k, u, x)
       PROVE  IdsAreFresh'
  BY <1>0, <1>14 DEF EmergencyWithdraw, config, IdsAreFresh, Exists
<1>15. CASE Tick \/ UNCHANGED vars
  BY <1>0, <1>15 DEF Tick, vars, config, escrows, IdsAreFresh, Exists
<1>16. CASE AdminCall
  BY <1>1, <1>10, <1>11, <1>12, <1>13, <1>14, <1>16 DEF AdminCall
<1>17. CASE TradeCall
  BY <1>2, <1>5, <1>6, <1>7, <1>8, <1>9, <1>17
     DEF TradeCall, ReleasePayment, ReleaseByTimelock
<1>18. QED
  BY <1>15, <1>16, <1>17 DEF Next

LEMMA IInvInit == Init => IInv
<1> SUFFICES ASSUME Init PROVE IInv
  OBVIOUS
<1>1. TypeOK
  BY TypeOKInit
<1>2. \A t \in TradeIds : ~Exists(t) /\ fills[t] = << >>
  BY DEF Init, Exists
<1>3. \A t \in TradeIds : ActiveFills(t) = {}
  <2>1. Len(<< >>) = 0
    BY EmptySeq
  <2>2. QED
    BY <1>2, <2>1 DEF ActiveFills
<1>4. \A t \in TradeIds : Consistent(t)
  BY <1>2, <1>3 DEF Consistent
<1>5. IdsAreFresh
  BY <1>2 DEF Init, IdsAreFresh
<1>6. QED
  BY <1>1, <1>4, <1>5, IInvIsConsistent DEF IInv

LEMMA IInvNext == IInv /\ [Next]_vars => IInv'
<1> SUFFICES ASSUME IInv, [Next]_vars PROVE IInv'
  OBVIOUS
<1>1. TypeOK'
  BY TypeOKNext DEF IInv
<1>2. (\A t \in TradeIds : Consistent(t))'
  BY ConsistentNext
<1>3. (FilledIsSumOfKeptFills /\ StatusMatchesFills /\ NoStrandedFills)'
  BY <1>1, <1>2, IInvIsConsistent, PTL
<1>4. QED
  BY <1>1, <1>3, FreshNext DEF IInv

\* The conjuncts of IInv hold together in every reachable state: each needs the
\* others to be preserved.
THEOREM Inductive == Spec => []IInv
BY IInvInit, IInvNext, PTL DEF Spec

\* filled_amount is what the sub-escrows that were not refunded add up to.
THEOREM FilledCorrect == Spec => []FilledIsSumOfKeptFills
<1>1. IInv => FilledIsSumOfKeptFills
  BY DEF IInv
<1>2. QED
  BY <1>1, Inductive, PTL

\* No listing is oversold, and its status tells how full it is.
THEOREM StatusCorrect == Spec => []StatusMatchesFills
<1>1. IInv => StatusMatchesFills
  BY DEF IInv
<1>2. QED
  BY <1>1, Inductive, PTL

\* Every sub-escrow that still holds tokens belongs to a refundable listing.
THEOREM NothingStranded == Spec => []NoStrandedFills
<1>1. IInv => NoStrandedFills
  BY DEF IInv
<1>2. QED
  BY <1>1, Inductive, PTL

-----------------------------------------------------------------------------
(* What each call on a listing does to its entries.                        *)

\* The entries of every listing but t stay.
OthersKept(t) ==
  \A s \in TradeIds \ {t} : trades'[s] = trades[s] /\ fills'[s] = fills[s]

\* Terms of a listing that no call changes while it exists.
SameTerms(t) ==
  /\ trades[t] \in TradeOffer /\ trades'[t] \in TradeOffer
  /\ trades'[t].token = trades[t].token
  /\ trades'[t].seller = trades[t].seller

\* Offers exist.
LEMMA OfferExists ==
  ASSUME NEW t
  PROVE  /\ trades[t] \in TradeOffer => Exists(t)
         /\ trades'[t] \in TradeOffer => Exists(t)'
BY NoTradeAssumption DEF NoTradeAssumption, Exists

LEMMA DepositFacts ==
  ASSUME TypeOK, NEW t \in TradeIds, NEW u, NEW x \in Int, DepositToEscrow(u, t, x)
  PROVE  /\ OthersKept(t) /\ SameTerms(t)
         /\ trades'[t].status \in {"Locked", "PartiallyFilled"}
         /\ Len(fills'[t]) = Len(fills[t]) + 1
         /\ \A i \in 1..Len(fills[t]) : fills'[t][i] = fills[t][i]
         /\ fills'[t][Len(fills[t]) + 1] =
              [buyer |-> u, amount |-> x, released |-> FALSE, refunded |-> FALSE]
<1> DEFINE sub == [buyer |-> u, amount |-> x, released |-> FALSE, refunded |-> FALSE]
<1>1. trades[t] \in TradeOffer
  BY ExistingTrade DEF DepositToEscrow
<1>2. /\ trades' = [trades EXCEPT ![t] = AfterDeposit(trades[t], x)]
      /\ fills' = [fills EXCEPT ![t] = Append(fills[t], sub)]
  BY DEF DepositToEscrow
<1>3. OthersKept(t) /\ trades'[t] = AfterDeposit(trades[t], x)
      /\ fills'[t] = Append(fills[t], sub)
  BY <1>2 DEF OthersKept, TypeOK
<1>4. /\ trades'[t] \in TradeOffer
      /\ trades'[t].token = trades[t].token /\ trades'[t].seller = trades[t].seller
      /\ trades'[t].status \in {"Locked", "PartiallyFilled"}
  BY <1>1, <1>3, AfterDepositType DEF AfterDeposit, TradeOffer
<1>5. /\ Len(fills'[t]) = Len(fills[t]) + 1
      /\ \A i \in 1..Len(fills[t]) : fills'[t][i] = fills[t][i]
      /\ fills'[t][Len(fills[t]) + 1] = sub
  <2> HIDE DEF sub
  <2>1. fills[t] \in Seq(SubEscrow)
    BY FillsType
  <2>2. QED
    BY <1>3, <2>1
<1>6. QED
  BY <1>1, <1>3, <1>4, <1>5 DEF SameTerms

LEMMA PayFacts ==
  ASSUME TypeOK, NEW t \in TradeIds, NEW i, PaySeller(t, i)
  PROVE  /\ OthersKept(t) /\ SameTerms(t)
         /\ i \in 1..Len(fills[t]) /\ Active(fills[t][i])
         /\ Len(fills'[t]) = Len(fills[t])
         /\ \A j \in 1..Len(fills[t]) : j # i => fills'[t][j] = fills[t][j]
         /\ fills'[t][i] = [fills[t][i] EXCEPT !.released = TRUE]
         /\ trades'[t].status \in {"Completed", trades[t].status}
         /\ trades'[t].status = "Completed" =>
              \A j \in 1..Len(fills[t]) : j # i => ~Active(fills[t][j])
<1> DEFINE sub == [fills[t][i] EXCEPT !.released = TRUE]
           done == /\ trades[t].filled_amount = trades[t].total_amount
                   /\ \A j \in 1..Len(fills[t]) \ {i} : ~Active(fills[t][j])
           status == IF done THEN "Completed" ELSE trades[t].status
<1>1. trades[t] \in TradeOffer /\ trades[t].status \in {"Locked", "PartiallyFilled"}
  BY ExistingTrade DEF PaySeller
<1>2. i \in 1..Len(fills[t]) /\ Active(fills[t][i])
  BY DEF PaySeller
<1>3. /\ trades' = [trades EXCEPT ![t] = [trades[t] EXCEPT !.status = status]]
      /\ fills' = [fills EXCEPT ![t] = [fills[t] EXCEPT ![i] = sub]]
  BY DEF PaySeller
<1>4. status \in {"Completed", trades[t].status}
      /\ (status = "Completed" => \A j \in 1..Len(fills[t]) : j # i => ~Active(fills[t][j]))
  BY <1>1
<1>5. sub \in SubEscrow /\ fills[t] \in Seq(SubEscrow)
  BY <1>2, FillsType DEF SubEscrow
<1> HIDE DEF sub, status
<1>6. /\ OthersKept(t)
      /\ trades'[t] = [trades[t] EXCEPT !.status = status]
      /\ fills'[t] = [fills[t] EXCEPT ![i] = sub]
  BY <1>3 DEF OthersKept, TypeOK
<1>7. status \in TradeStatus
  BY <1>1, <1>4 DEF TradeStatus
<1>8. SameTerms(t) /\ trades'[t].status = status
  BY <1>1, <1>6, <1>7 DEF SameTerms, TradeOffer
<1>9. /\ Len(fills'[t]) = Len(fills[t])
      /\ \A j \in 1..Len(fills[t]) : fills'[t][j] = IF j = i THEN sub ELSE fills[t][j]
  BY <1>2, <1>5, <1>6, ExceptSeq
<1>10. QED
  BY <1>2, <1>4, <1>6, <1>8, <1>9 DEF sub

LEMMA CancelFacts ==
  ASSUME TypeOK, NEW t \in TradeIds, NEW u, CancelAndRefund(u, t)
  PROVE  /\ OthersKept(t) /\ SameTerms(t)
         /\ Refunds(u, t) \subseteq ActiveFills(t)
         /\ u = admin => Refunds(u, t) = ActiveFills(t)
         /\ Len(fills'[t]) = Len(fills[t])
         /\ \A i \in 1..Len(fills[t]) : fills'[t][i] =
              IF i \in Refunds(u, t) THEN [fills[t][i] EXCEPT !.refunded = TRUE]
                                     ELSE fills[t][i]
         /\ trades'[t].status = "Cancelled" <=> u = admin
         /\ trades[t].status # "Completed" => trades'[t].status # "Completed"
<1> DEFINE n == Len(fills[t])
           refunds == Refunds(u, t)
           s == [i \in 1..n |-> IF i \in refunds THEN [fills[t][i] EXCEPT !.refunded = TRUE]
                                                 ELSE fills[t][i]]
           refund == SumFills(t, refunds)
<1>1. trades[t] \in TradeOffer /\ trades[t].status \in RefundableStatuses
  BY ExistingTrade DEF CancelAndRefund
<1>2. refund \in Int
  BY SumFillsBounds
<1>3. s \in [1..n -> SubEscrow] /\ n \in Nat
  <2>1. \A i \in 1..n : [fills[t][i] EXCEPT !.refunded = TRUE] \in SubEscrow
    BY FillsType DEF SubEscrow
  <2>2. QED
    BY <2>1, FillsType
<1>4. /\ trades' = [trades EXCEPT ![t] = AfterRefund(u, trades[t], refund)]
      /\ fills' = [fills EXCEPT ![t] = s]
  BY DEF CancelAndRefund
<1>5. refunds \subseteq ActiveFills(t) /\ (u = admin => refunds = ActiveFills(t))
  BY DEF Refunds, Refundable, ActiveFills
<1>6. \A i \in 1..n : s[i] = IF i \in refunds THEN [fills[t][i] EXCEPT !.refunded = TRUE]
                                              ELSE fills[t][i]
  OBVIOUS
<1> HIDE DEF s, n, refund, refunds
<1>7. /\ OthersKept(t) /\ trades'[t] = AfterRefund(u, trades[t], refund) /\ fills'[t] = s
  BY <1>4 DEF OthersKept, TypeOK
<1>8. Len(s) = n
  BY <1>3, MappedSeq
<1>9. /\ SameTerms(t)
      /\ trades'[t].status = "Cancelled" <=> u = admin
      /\ trades[t].status # "Completed" => trades'[t].status # "Completed"
  <2>1. trades'[t] \in TradeOffer
    BY <1>1, <1>2, <1>7, AfterRefundType
  <2>2. /\ trades'[t].token = trades[t].token /\ trades'[t].seller = trades[t].seller
    BY <1>1, <1>7 DEF AfterRefund, TradeOffer
  <2>3. trades'[t].status = IF u = admin THEN "Cancelled"
                            ELSE IF trades[t].filled_amount - refund = 0 THEN "Open"
                            ELSE IF trades[t].filled_amount - refund < trades[t].total_amount
                                 THEN "PartiallyFilled"
                            ELSE trades[t].status
    BY <1>1, <1>7 DEF AfterRefund, TradeOffer
  <2>4. trades[t].status # "Cancelled"
    BY <1>1 DEF RefundableStatuses
  <2>5. QED
    BY <1>1, <2>1, <2>2, <2>3, <2>4 DEF SameTerms
<1>10. QED
  BY <1>5, <1>6, <1>7, <1>8, <1>9 DEF n, refunds

LEMMA CloseFacts ==
  ASSUME TypeOK, NEW t \in TradeIds, CloseExpiredListing(t)
  PROVE  /\ OthersKept(t) /\ trades[t] \in TradeOffer /\ trades[t].status = "Open"
         /\ trades'[t] = NoTrade /\ fills' = fills
<1>1. trades[t] \in TradeOffer
  BY ExistingTrade DEF CloseExpiredListing
<1>2. QED
  BY <1>1 DEF CloseExpiredListing, OthersKept, TypeOK

LEMMA FlagFacts ==
  ASSUME TypeOK, NEW t \in TradeIds, NEW u, FlagDispute(u, t)
  PROVE  /\ OthersKept(t) /\ SameTerms(t)
         /\ trades[t].status = "Locked" /\ trades'[t].status = "Disputed" /\ fills' = fills
<1>1. trades[t] \in TradeOffer /\ trades[t].status = "Locked"
  BY ExistingTrade DEF FlagDispute
<1>2. OthersKept(t) /\ trades'[t] = [trades[t] EXCEPT !.status = "Disputed"] /\ fills' = fills
  BY DEF FlagDispute, OthersKept, TypeOK
<1>3. SameTerms(t) /\ trades'[t].status = "Disputed"
  BY <1>1, <1>2 DEF SameTerms, TradeOffer, TradeStatus
<1>4. QED
  BY <1>1, <1>2, <1>3

\* Nothing was ever deposited under an id that is not handed out yet.
LEMMA CreateFacts ==
  ASSUME IInv, NEW u \in Sellers, NEW k \in Tokens, NEW x \in Amounts, NEW c \in Categories,
         NEW e \in 0..Horizon, CreateListing(u, k, x, c, e)
  PROVE  /\ tradeCounter + 1 \in TradeIds /\ OthersKept(tradeCounter + 1)
         /\ ~Exists(tradeCounter + 1) /\ fills[tradeCounter + 1] = << >>
         /\ fills' = fills
         /\ trades'[tradeCounter + 1] \in TradeOffer
         /\ trades'[tradeCounter + 1].status = "Open"
<1> USE RoleAssumption, NumberAssumption DEF RoleAssumption, NumberAssumption
<1> DEFINE t == tradeCounter + 1
<1>1. t \in TradeIds /\ t > tradeCounter
  BY DEF CreateListing, IInv, TypeOK, TradeIds
<1>2. NewTrade(u, k, x, c, e) \in TradeOffer /\ NewTrade(u, k, x, c, e).status = "Open"
  BY DEF CreateListing, NewTrade, TradeOffer, TradeStatus
<1>3. fills' = fills /\ trades' = [trades EXCEPT ![t] = NewTrade(u, k, x, c, e)]
  BY DEF CreateListing
<1>4. ~Exists(t) /\ fills[t] = << >>
  BY <1>1 DEF IInv, IdsAreFresh
<1> HIDE DEF t
<1>5. OthersKept(t) /\ trades'[t] = NewTrade(u, k, x, c, e)
  BY <1>1, <1>3 DEF OthersKept, IInv, TypeOK
<1>6. QED
  BY <1>1, <1>2, <1>3, <1>4, <1>5 DEF t

-----------------------------------------------------------------------------
(* One place per buyer; a refund waits for the expiry.                     *)

\* A step is administrative (or none) and leaves every listing alone, or it is
\* one of the calls the lemmas above are about.
LEMMA StepCases ==
  ASSUME IInv, [Next]_vars
  PROVE  \/ /\ UNCHANGED <<trades, fills>>
            /\ \/ UNCHANGED <<balance, recovered>>
               \/ \E k \in Tokens, u \in Recipients, x \in Amounts : EmergencyWithdraw(k, u, x)
            /\ UNCHANGED tradeCounter
         \/ \E u \in Sellers, k \in Tokens, x \in Amounts, c \in Categories, e \in 0..Horizon :
              CreateListing(u, k, x, c, e)
         \/ \E u \in Users, t \in TradeIds, x \in Amounts : DepositToEscrow(u, t, x)
         \/ \E t \in TradeIds, i \in 1..MaxFills : PaySeller(t, i)
         \/ \E u \in Users, t \in TradeIds : CancelAndRefund(u, t)
         \/ \E t \in TradeIds : CloseExpiredListing(t)
         \/ \E u \in Users, t \in TradeIds : FlagDispute(u, t)
<1>1. CASE UNCHANGED vars \/ Tick
  BY <1>1 DEF vars, Tick, escrows, events
<1>2. CASE \E a \in Admins, tokens \in SUBSET Tokens : Initialize(a, tokens)
  BY <1>2 DEF Initialize, events, IInv, IdsAreFresh
<1>3. CASE Pause \/ Unpause
  BY <1>3 DEF Pause, Unpause, escrows, events
<1>4. CASE \E k \in Tokens : AddAllowedToken(k) \/ RemoveAllowedToken(k)
  BY <1>4 DEF AddAllowedToken, RemoveAllowedToken, escrows, events
<1>5. CASE \E c \in Categories : AddCategory(c) \/ RemoveCategory(c)
  BY <1>5 DEF AddCategory, RemoveCategory, escrows, events
<1>6. CASE \E a \in Admins : TransferAdmin(a)
  BY <1>6 DEF TransferAdmin, escrows, events
<1>7. ASSUME NEW k \in Tokens, NEW u \in Recipients, NEW x \in Amounts,
             EmergencyWithdraw(k, u, x)
      PROVE  UNCHANGED <<trades, fills, tradeCounter>>
  BY <1>7 DEF EmergencyWithdraw
<1>8. QED
  BY <1>1, <1>2, <1>3, <1>4, <1>5, <1>6, <1>7
     DEF Next, AdminCall, TradeCall, ReleasePayment, ReleaseByTimelock

\* What OneActiveFillPerBuyer says of one listing, and that no sub-escrow went
\* both ways.
OneFillEach(t) ==
  /\ \A i, j \in ActiveFills(t) : fills[t][i].buyer = fills[t][j].buyer => i = j
  /\ \A i \in 1..Len(fills[t]) : ~(fills[t][i].released /\ fills[t][i].refunded)

LEMMA OneFillEachFrame ==
  ASSUME NEW t, OneFillEach(t), fills'[t] = fills[t]
  PROVE  OneFillEach(t)'
BY DEF OneFillEach, ActiveFills, Active

\* A call that only settles sub-escrows leaves fewer active ones.
LEMMA OneFillEachSettled ==
  ASSUME TypeOK, NEW t \in TradeIds, OneFillEach(t), Len(fills'[t]) = Len(fills[t]),
         \A i \in 1..Len(fills[t]) :
           \/ fills'[t][i] = fills[t][i]
           \/ /\ Active(fills[t][i])
              /\ \/ fills'[t][i] = [fills[t][i] EXCEPT !.released = TRUE]
                 \/ fills'[t][i] = [fills[t][i] EXCEPT !.refunded = TRUE]
  PROVE  OneFillEach(t)'
<1>1. ASSUME NEW i \in 1..Len(fills[t])
      PROVE  /\ fills'[t][i].buyer = fills[t][i].buyer
             /\ Active(fills'[t][i]) => Active(fills[t][i])
             /\ ~(fills'[t][i].released /\ fills'[t][i].refunded)
  <2>1. fills[t][i] \in SubEscrow
    BY FillsType
  <2>2. CASE fills'[t][i] = fills[t][i]
    BY <2>2 DEF OneFillEach
  <2>3. CASE Active(fills[t][i]) /\ fills'[t][i] = [fills[t][i] EXCEPT !.released = TRUE]
    BY <2>1, <2>3 DEF Active, SubEscrow
  <2>4. CASE Active(fills[t][i]) /\ fills'[t][i] = [fills[t][i] EXCEPT !.refunded = TRUE]
    BY <2>1, <2>4 DEF Active, SubEscrow
  <2>5. QED
    BY <2>2, <2>3, <2>4
<1>2. \A i \in ActiveFills(t)' : i \in ActiveFills(t)
  BY <1>1 DEF ActiveFills, Active
<1>3. \A i \in ActiveFills(t) : i \in 1..Len(fills[t])
  BY DEF ActiveFills
<1>4. QED
  BY <1>1, <1>2, <1>3 DEF OneFillEach

LEMMA OneFillEachNext ==
  ASSUME IInv, [Next]_vars, \A t \in TradeIds : OneFillEach(t), NEW t \in TradeIds
  PROVE  OneFillEach(t)'
<1>0. TypeOK /\ OneFillEach(t)
  BY DEF IInv
<1>1. CASE fills'[t] = fills[t]
  BY <1>0, <1>1, OneFillEachFrame
<1>2. ASSUME NEW s \in TradeIds, OthersKept(s), s # t
      PROVE  OneFillEach(t)'
  BY <1>1, <1>2 DEF OthersKept
<1>3. ASSUME NEW u \in Users, NEW s \in TradeIds, NEW x \in Amounts, DepositToEscrow(u, s, x)
      PROVE  OneFillEach(t)'
  <2>1. x \in Int
    BY NumberAssumption DEF NumberAssumption
  <2>2. OthersKept(s)
    BY <1>0, <1>3, <2>1, DepositFacts
  <2>3. CASE s = t
    <3>1. /\ Len(fills'[t]) = Len(fills[t]) + 1 /\ Len(fills[t]) \in Nat
          /\ \A i \in 1..Len(fills[t]) : fills'[t][i] = fills[t][i]
          /\ fills'[t][Len(fills[t]) + 1] =
               [buyer |-> u, amount |-> x, released |-> FALSE, refunded |-> FALSE]
      BY <1>0, <1>3, <2>1, <2>3, DepositFacts, FillsType
    <3>2. ~HasActiveFill(t, u)
      BY <1>3, <2>3 DEF DepositToEscrow
    <3>3. \A i \in ActiveFills(t) : fills[t][i].buyer # u
      BY <3>2 DEF HasActiveFill, ActiveFills
    <3> DEFINE n == Len(fills[t])
    <3>4. \A i \in ActiveFills(t)' : i = n + 1 \/ (i \in 1..n /\ i \in ActiveFills(t))
      BY <3>1 DEF ActiveFills, Active
    <3>5. fills'[t][n + 1].buyer = u /\ ~fills'[t][n + 1].released
      BY <3>1
    <3> HIDE DEF n
    <3>6. \A i, j \in ActiveFills(t)' : fills'[t][i].buyer = fills'[t][j].buyer => i = j
      BY <1>0, <3>1, <3>3, <3>4, <3>5 DEF OneFillEach, n
    <3>7. \A i \in 1..Len(fills'[t]) : ~(fills'[t][i].released /\ fills'[t][i].refunded)
      BY <1>0, <3>1, <3>5 DEF OneFillEach, n
    <3>8. QED
      BY <3>6, <3>7 DEF OneFillEach
  <2>4. QED
    BY <1>2, <2>2, <2>3
<1>4. ASSUME NEW s \in TradeIds, NEW i \in 1..MaxFills, PaySeller(s, i)
      PROVE  OneFillEach(t)'
  <2>1. /\ OthersKept(s) /\ Active(fills[s][i])
        /\ Len(fills'[s]) = Len(fills[s])
        /\ \A j \in 1..Len(fills[s]) : j # i => fills'[s][j] = fills[s][j]
        /\ fills'[s][i] = [fills[s][i] EXCEPT !.released = TRUE]
    BY <1>0, <1>4, PayFacts
  <2>2. s = t => OneFillEach(t)'
    BY <1>0, <2>1, OneFillEachSettled
  <2>3. QED
    BY <1>2, <2>1, <2>2
<1>5. ASSUME NEW u \in Users, NEW s \in TradeIds, CancelAndRefund(u, s)
      PROVE  OneFillEach(t)'
  <2>1. OthersKept(s) /\ (s = t =>
          /\ Refunds(u, t) \subseteq ActiveFills(t)
          /\ Len(fills'[t]) = Len(fills[t])
          /\ \A i \in 1..Len(fills[t]) : fills'[t][i] =
               IF i \in Refunds(u, t) THEN [fills[t][i] EXCEPT !.refunded = TRUE]
                                      ELSE fills[t][i])
    BY <1>0, <1>5, CancelFacts
  <2>2. \A i \in Refunds(u, t) : s = t => Active(fills[t][i])
    BY <2>1 DEF ActiveFills
  <2>3. s = t => OneFillEach(t)'
    BY <1>0, <2>1, <2>2, OneFillEachSettled
  <2>4. QED
    BY <1>2, <2>1, <2>3
<1>6. CASE UNCHANGED fills
  BY <1>1, <1>6
<1>7. QED
  BY <1>3, <1>4, <1>5, <1>6, StepCases
     DEF CreateListing, CloseExpiredListing, FlagDispute

LEMMA OneFillEachInit == Init => \A t \in TradeIds : OneFillEach(t)
<1> SUFFICES ASSUME Init, NEW t \in TradeIds PROVE OneFillEach(t)
  OBVIOUS
<1>1. fills[t] = << >> /\ Len(<< >>) = 0
  BY EmptySeq DEF Init
<1>2. QED
  BY <1>1 DEF OneFillEach, ActiveFills

LEMMA OneFillEachAlways == Spec => [](IInv /\ \A t \in TradeIds : OneFillEach(t))
<1> DEFINE Inv == IInv /\ \A t \in TradeIds : OneFillEach(t)
<1>1. Init => Inv
  BY IInvInit, OneFillEachInit
<1>2. Inv /\ [Next]_vars => Inv'
  <2> SUFFICES ASSUME Inv, [Next]_vars PROVE Inv'
    OBVIOUS
  <2>1. IInv'
    BY IInvNext
  <2>2. (\A t \in TradeIds : OneFillEach(t))'
    BY OneFillEachNext
  <2>3. QED
    BY <2>1, <2>2
<1>3. QED
  BY <1>1, <1>2, PTL DEF Spec

\* A buyer has one active sub-escrow of a listing at most: deposit_to_escrow
\* looks at all of the listing's sub-escrows, whatever was settled in between.
THEOREM OnePlacePerBuyer == Spec => []OneActiveFillPerBuyer
<1>1. (\A t \in TradeIds : OneFillEach(t)) => OneActiveFillPerBuyer
  BY DEF OneFillEach, OneActiveFillPerBuyer
<1>2. QED
  BY <1>1, OneFillEachAlways, PTL

\* No call but a cancel_and_refund returns a deposit to its buyer, and a buyer's
\* own call does so only from the expiry on.
THEOREM RefundsWait == Spec => RefundsWaitForExpiry
<1> DEFINE A == \A t \in TradeIds : \A i \in ActiveFills(t) :
                  fills'[t][i].refunded => now >= trades[t].expires_at
                                           \/ trades'[t].status = "Cancelled"
<1>1. IInv /\ [Next]_vars => [A]_vars
  <2> SUFFICES ASSUME IInv, [Next]_vars, NEW t \in TradeIds, NEW i \in ActiveFills(t),
                      fills'[t][i].refunded
               PROVE  now >= trades[t].expires_at \/ trades'[t].status = "Cancelled"
    OBVIOUS
  <2>0. TypeOK /\ i \in 1..Len(fills[t]) /\ ~fills[t][i].refunded
    BY DEF IInv, ActiveFills, Active
  <2>1. fills'[t][i] # fills[t][i]
    BY <2>0
  <2>2. ASSUME NEW s \in TradeIds, OthersKept(s) PROVE s = t
    BY <2>1, <2>2 DEF OthersKept
  <2>3. ASSUME NEW u \in Users, NEW s \in TradeIds, NEW x \in Amounts, DepositToEscrow(u, s, x)
        PROVE  FALSE
    <3>1. x \in Int
      BY NumberAssumption DEF NumberAssumption
    <3>2. OthersKept(s) /\ \A j \in 1..Len(fills[s]) : fills'[s][j] = fills[s][j]
      BY <2>0, <2>3, <3>1, DepositFacts
    <3>3. QED
      BY <2>0, <2>1, <2>2, <3>2
  <2>4. ASSUME NEW s \in TradeIds, NEW j \in 1..MaxFills, PaySeller(s, j)
        PROVE  FALSE
    <3>1. /\ OthersKept(s)
          /\ \A m \in 1..Len(fills[s]) : m # j => fills'[s][m] = fills[s][m]
          /\ fills'[s][j] = [fills[s][j] EXCEPT !.released = TRUE]
      BY <2>0, <2>4, PayFacts
    <3>2. i = j /\ s = t
      BY <2>0, <2>1, <2>2, <3>1
    <3>3. fills[t][i] \in SubEscrow
      BY <2>0, FillsType
    <3>4. fills'[t][i].refunded = fills[t][i].refunded
      BY <3>1, <3>2, <3>3 DEF SubEscrow
    <3>5. QED
      BY <2>0, <3>4
  <2>5. ASSUME NEW u \in Users, NEW s \in TradeIds, CancelAndRefund(u, s)
        PROVE  now >= trades[t].expires_at \/ trades'[t].status = "Cancelled"
    <3>1. OthersKept(s) /\ (trades'[s].status = "Cancelled" <=> u = admin)
      BY <2>0, <2>5, CancelFacts
    <3>2. s = t
      BY <2>2, <3>1
    <3>3. u # admin => now >= trades[t].expires_at
      BY <2>5, <3>2 DEF CancelAndRefund, MayRefund
    <3>4. QED
      BY <3>1, <3>2, <3>3
  <2>6. CASE UNCHANGED fills
    BY <2>1, <2>6
  <2>7. QED
    BY <2>3, <2>4, <2>5, <2>6, StepCases
       DEF CreateListing, CloseExpiredListing, FlagDispute
<1>2. QED
  BY <1>1, Inductive, PTL DEF Spec, RefundsWaitForExpiry

-----------------------------------------------------------------------------
(* Escrow implements EscrowVault.                                          *)

\* The places of the deposits in a list of sub-escrows.
Places(f) == [i \in 1..Len(f) |-> PlaceOf(f[i])]

\* The refinement mapping of Escrow!Vault.
placeBar == [t \in TradeIds |-> [i \in 1..Len(fills[t]) |-> PlaceOf(fills[t][i])]]
closedBar == {t \in TradeIds : Over(t)}

\* No listing but t goes over, or ceases to be.
OverKept(t) == \A s \in TradeIds \ {t} : Over(s)' <=> Over(s)

LEMMA OverFrame ==
  ASSUME NEW t, OthersKept(t), tradeCounter' = tradeCounter
  PROVE  OverKept(t)
BY DEF OverKept, OthersKept, Over, Exists

LEMMA PlacesType ==
  ASSUME NEW f \in Seq(SubEscrow)
  PROVE  /\ Places(f) \in Seq({"held", "seller", "buyer", "both"})
         /\ Len(Places(f)) = Len(f)
         /\ \A i \in 1..Len(f) : Places(f)[i] = PlaceOf(f[i])
<1> DEFINE T == {"held", "seller", "buyer", "both"}
<1>1. Len(f) \in Nat
  BY LenProperties
<1>2. Places(f) \in [1..Len(f) -> T]
  BY DEF Places, PlaceOf
<1>3. Places(f) \in Seq(T)
  BY <1>1, <1>2, SeqDef
<1>4. Len(Places(f)) = Len(f)
  <2> HIDE DEF T
  <2>1. DOMAIN Places(f) = 1..Len(f)
    BY DEF Places
  <2>2. DOMAIN Places(f) = 1..Len(Places(f)) /\ Len(Places(f)) \in Nat
    BY <1>3, LenProperties
  <2>3. QED
    BY <1>1, <2>1, <2>2
<1>5. QED
  BY <1>3, <1>4 DEF Places

\* The deposits S of t are settled on one side, as EscrowVault allows it.
LEMMA VaultSettles ==
  ASSUME TypeOK, NEW t \in TradeIds, NEW S \in SUBSET (1..Len(fills[t])),
         NEW side \in {"seller", "buyer"},
         OthersKept(t), OverKept(t), ~Over(t),
         Len(fills'[t]) = Len(fills[t]),
         \A i \in S : PlaceOf(fills[t][i]) = "held",
         \A i \in 1..Len(fills[t]) :
           PlaceOf(fills'[t][i]) = IF i \in S THEN side ELSE PlaceOf(fills[t][i]),
         Over(t)' => \A i \in 1..Len(fills[t]) : PlaceOf(fills'[t][i]) # "held"
  PROVE  Vault!VaultNext
<1> DEFINE n == Len(fills[t])
           row == [i \in 1..n |-> IF i \in S THEN side ELSE Places(fills[t])[i]]
<1>0. placeBar = [s \in TradeIds |-> Places(fills[s])]
      /\ placeBar' = [s \in TradeIds |-> Places(fills'[s])]
  BY DEF placeBar, Places
<1>1. Len(placeBar[t]) = n /\ \A i \in 1..n : placeBar[t][i] = PlaceOf(fills[t][i])
  BY <1>0, FillsType, PlacesType
<1>2. Places(fills'[t]) = row
  BY FillsType, PlacesType DEF Places
<1>3. placeBar' = [placeBar EXCEPT ![t] = row]
  <2> HIDE DEF row
  <2>1. \A s \in TradeIds : s # t => fills'[s] = fills[s]
    BY DEF OthersKept
  <2>2. QED
    BY <1>0, <1>2, <2>1
<1>4. placeBar' = [placeBar EXCEPT ![t] =
                     [i \in 1..Len(placeBar[t]) |-> IF i \in S THEN side ELSE placeBar[t][i]]]
  BY <1>0, <1>1, <1>3
<1>5. t \notin closedBar
  BY DEF closedBar
<1>6. \A i \in S : placeBar[t][i] = "held"
  BY <1>1
<1>7. closedBar' = IF Over(t)' THEN closedBar \cup {t} ELSE closedBar
  BY DEF closedBar, OverKept
<1>8. Over(t)' => \A i \in 1..Len(placeBar'[t]) : placeBar'[t][i] # "held"
  <2>1. placeBar'[t] = Places(fills'[t]) /\ Len(placeBar'[t]) = n
    BY <1>0, <1>1, <1>4
  <2>2. \A i \in 1..n : placeBar'[t][i] = PlaceOf(fills'[t][i])
    BY <2>1 DEF Places
  <2>3. QED
    BY <2>1, <2>2
<1>9. S \in SUBSET (1..Len(placeBar[t]))
  BY <1>1
<1>10. Vault!Settle(t, S, side)
  BY <1>4, <1>5, <1>6, <1>7, <1>8 DEF Vault!Settle, Vault!HoldsNone, placeBar, closedBar
<1>11. QED
  BY <1>9, <1>10 DEF Vault!VaultNext, placeBar

\* A deposit is one of EscrowVault.
LEMMA VaultDeposits ==
  ASSUME TypeOK, TypeOK', NEW t \in TradeIds, OthersKept(t), OverKept(t), ~Over(t), ~Over(t)',
         Len(fills'[t]) = Len(fills[t]) + 1,
         \A i \in 1..Len(fills[t]) : fills'[t][i] = fills[t][i],
         PlaceOf(fills'[t][Len(fills[t]) + 1]) = "held"
  PROVE  Vault!VaultNext
<1> DEFINE T == {"held", "seller", "buyer", "both"}
           n == Len(fills[t])
           old == Places(fills[t])
           new == Places(fills'[t])
<1>0. placeBar = [s \in TradeIds |-> Places(fills[s])]
      /\ placeBar' = [s \in TradeIds |-> Places(fills'[s])]
  BY DEF placeBar, Places
<1>1. old \in Seq(T) /\ Len(old) = n /\ n \in Nat
      /\ \A i \in 1..n : old[i] = PlaceOf(fills[t][i])
  BY FillsType, PlacesType
<1>2. fills'[t] \in Seq(SubEscrow)
  BY DEF TypeOK
<1>3. new \in Seq(T) /\ Len(new) = n + 1
      /\ \A i \in 1..(n+1) : new[i] = PlaceOf(fills'[t][i])
  BY <1>2, PlacesType
<1> HIDE DEF T, n, old, new
<1>4. new = Append(old, "held")
  <2>1. "held" \in T
    BY DEF T
  <2> DEFINE app == Append(old, "held")
  <2>2. /\ app \in Seq(T) /\ Len(app) = n + 1 /\ app[n + 1] = "held"
        /\ \A i \in 1..n : app[i] = old[i]
    BY <1>1, <2>1, AppendProperties
  <2> HIDE DEF app
  <2>3. \A i \in 1..(n+1) : app[i] = new[i]
    BY <1>1, <1>3, <2>2 DEF n
  <2>4. app = new
    BY <1>3, <2>2, <2>3, SeqEqual
  <2>5. QED
    BY <2>4 DEF app
<1>5. placeBar' = [placeBar EXCEPT ![t] = Append(@, "held")]
  <2>1. \A s \in TradeIds : s # t => fills'[s] = fills[s]
    BY DEF OthersKept
  <2>2. QED
    BY <1>0, <1>4, <2>1 DEF old, new
<1>6. t \notin closedBar /\ closedBar' = closedBar
  BY DEF closedBar, OverKept
<1>7. Vault!Deposit(t)
  BY <1>5, <1>6 DEF Vault!Deposit, placeBar, closedBar
<1>8. QED
  BY <1>7 DEF Vault!VaultNext

LEMMA VaultStep ==
  ASSUME IInv, IInv', [Next]_vars
  PROVE  Vault!VaultNext \/ UNCHANGED Vault!vaultVars
<1>0. TypeOK /\ TypeOK' /\ IdsAreFresh
  BY DEF IInv
<1>1. ASSUME UNCHANGED fills, closedBar' = closedBar
      PROVE  UNCHANGED Vault!vaultVars
  BY <1>1 DEF Vault!vaultVars, closedBar
<1>2. CASE UNCHANGED <<trades, fills, tradeCounter>>
  BY <1>1, <1>2 DEF closedBar, Over, Exists
<1>3. ASSUME NEW u \in Sellers, NEW k \in Tokens, NEW x \in Amounts, NEW c \in Categories,
             NEW e \in 0..Horizon, CreateListing(u, k, x, c, e)
      PROVE  UNCHANGED Vault!vaultVars
  <2>1. PICK t \in TradeIds :
          /\ t = tradeCounter + 1 /\ OthersKept(t) /\ ~Exists(t) /\ fills' = fills
          /\ trades'[t] \in TradeOffer /\ trades'[t].status = "Open"
    BY <1>3, CreateFacts
  <2>2. tradeCounter' = tradeCounter + 1 /\ tradeCounter \in Nat
    BY <1>0, <1>3, NumberAssumption DEF CreateListing, TypeOK, NumberAssumption
  <2>3. ~Over(t) /\ ~Over(t)'
    BY <2>1, <2>2, OfferExists DEF Over
  <2>4. \A s \in TradeIds : s # t => (s <= tradeCounter' <=> s <= tradeCounter)
    BY <2>1, <2>2 DEF TradeIds
  <2>5. \A s \in TradeIds : s # t => (Over(s)' <=> Over(s))
    BY <2>1, <2>4 DEF Over, Exists, OthersKept
  <2>6. QED
    BY <1>1, <2>1, <2>3, <2>5 DEF closedBar
<1>4. ASSUME NEW u \in Users, NEW t \in TradeIds, NEW x \in Amounts, DepositToEscrow(u, t, x)
      PROVE  Vault!VaultNext
  <2>1. x \in Int /\ tradeCounter' = tradeCounter
    BY <1>4, NumberAssumption DEF NumberAssumption, DepositToEscrow
  <2>2. /\ OthersKept(t) /\ SameTerms(t)
        /\ trades'[t].status \in {"Locked", "PartiallyFilled"}
        /\ Len(fills'[t]) = Len(fills[t]) + 1
        /\ \A i \in 1..Len(fills[t]) : fills'[t][i] = fills[t][i]
        /\ fills'[t][Len(fills[t]) + 1] =
             [buyer |-> u, amount |-> x, released |-> FALSE, refunded |-> FALSE]
    BY <1>0, <1>4, <2>1, DepositFacts
  <2>3. OverKept(t)
    BY <2>1, <2>2, OverFrame
  <2>4. ~Over(t) /\ ~Over(t)'
    BY <1>4, <2>2, OfferExists DEF DepositToEscrow, SameTerms, Over
  <2>5. PlaceOf(fills'[t][Len(fills[t]) + 1]) = "held"
    BY <2>2 DEF PlaceOf
  <2>6. QED
    BY <1>0, <2>2, <2>3, <2>4, <2>5, VaultDeposits
<1>5. ASSUME NEW t \in TradeIds, NEW i \in 1..MaxFills, PaySeller(t, i)
      PROVE  Vault!VaultNext
  <2>1. /\ OthersKept(t) /\ SameTerms(t)
        /\ i \in 1..Len(fills[t]) /\ Active(fills[t][i])
        /\ Len(fills'[t]) = Len(fills[t])
        /\ \A j \in 1..Len(fills[t]) : j # i => fills'[t][j] = fills[t][j]
        /\ fills'[t][i] = [fills[t][i] EXCEPT !.released = TRUE]
        /\ trades'[t].status \in {"Completed", trades[t].status}
        /\ trades'[t].status = "Completed" =>
             \A j \in 1..Len(fills[t]) : j # i => ~Active(fills[t][j])
    BY <1>0, <1>5, PayFacts
  <2>2. OverKept(t)
    BY <1>5, <2>1, OverFrame DEF PaySeller
  <2>3. trades[t].status \in {"Locked", "PartiallyFilled"}
    BY <1>5 DEF PaySeller
  <2>4. ~Over(t) /\ (Over(t)' => trades'[t].status = "Completed")
    BY <2>1, <2>3, OfferExists DEF SameTerms, Over
  <2>5. fills[t][i] \in SubEscrow
    BY <1>0, <2>1, FillsType
  <2>6. PlaceOf(fills[t][i]) = "held" /\ PlaceOf(fills'[t][i]) = "seller"
    BY <2>1, <2>5 DEF SubEscrow, Active, PlaceOf
  <2>7. \A j \in 1..Len(fills[t]) :
          PlaceOf(fills'[t][j]) = IF j \in {i} THEN "seller" ELSE PlaceOf(fills[t][j])
    BY <2>1, <2>6
  <2>8. Over(t)' => \A j \in 1..Len(fills[t]) : PlaceOf(fills'[t][j]) # "held"
    BY <2>1, <2>4, <2>6 DEF Active, PlaceOf
  <2>9. {i} \in SUBSET (1..Len(fills[t])) /\ "seller" \in {"seller", "buyer"}
    BY <2>1
  <2>10. \A j \in {i} : PlaceOf(fills[t][j]) = "held"
    BY <2>6
  <2>11. QED
    BY <1>0, <2>1, <2>2, <2>4, <2>7, <2>8, <2>9, <2>10, VaultSettles
<1>6. ASSUME NEW u \in Users, NEW t \in TradeIds, CancelAndRefund(u, t)
      PROVE  Vault!VaultNext
  <2> DEFINE refunds == Refunds(u, t)
  <2>1. /\ OthersKept(t) /\ SameTerms(t)
        /\ refunds \subseteq ActiveFills(t)
        /\ u = admin => refunds = ActiveFills(t)
        /\ Len(fills'[t]) = Len(fills[t])
        /\ \A i \in 1..Len(fills[t]) : fills'[t][i] =
             IF i \in refunds THEN [fills[t][i] EXCEPT !.refunded = TRUE] ELSE fills[t][i]
        /\ trades'[t].status = "Cancelled" <=> u = admin
        /\ trades[t].status # "Completed" => trades'[t].status # "Completed"
    BY <1>0, <1>6, CancelFacts
  <2> HIDE DEF refunds
  <2>2. OverKept(t)
    BY <1>6, <2>1, OverFrame DEF CancelAndRefund
  <2>3. trades[t].status \in RefundableStatuses
    BY <1>6 DEF CancelAndRefund
  <2>4. ~Over(t) /\ (Over(t)' => u = admin)
    BY <2>1, <2>3, OfferExists DEF SameTerms, Over, RefundableStatuses
  <2>5. \A i \in 1..Len(fills[t]) : fills[t][i] \in SubEscrow
    BY <1>0, FillsType
  <2>6. \A i \in refunds : i \in 1..Len(fills[t]) /\ Active(fills[t][i])
    BY <2>1 DEF ActiveFills
  <2>7. \A i \in refunds : PlaceOf(fills[t][i]) = "held" /\ PlaceOf(fills'[t][i]) = "buyer"
    <3> SUFFICES ASSUME NEW i \in refunds
                 PROVE  PlaceOf(fills[t][i]) = "held" /\ PlaceOf(fills'[t][i]) = "buyer"
      OBVIOUS
    <3>1. fills[t][i] \in SubEscrow /\ Active(fills[t][i])
      BY <2>5, <2>6
    <3>2. fills'[t][i] = [fills[t][i] EXCEPT !.refunded = TRUE]
      BY <2>1, <2>6
    <3>3. QED
      BY <3>1, <3>2 DEF SubEscrow, Active, PlaceOf
  <2>8. \A i \in 1..Len(fills[t]) :
          PlaceOf(fills'[t][i]) = IF i \in refunds THEN "buyer" ELSE PlaceOf(fills[t][i])
    BY <2>1, <2>7
  <2>9. Over(t)' => \A i \in 1..Len(fills[t]) : PlaceOf(fills'[t][i]) # "held"
    <3> SUFFICES ASSUME Over(t)', NEW i \in 1..Len(fills[t]) PROVE PlaceOf(fills'[t][i]) # "held"
      OBVIOUS
    <3>1. i \notin refunds => ~Active(fills[t][i])
      BY <2>1, <2>4 DEF ActiveFills
    <3>2. QED
      BY <2>8, <3>1 DEF Active, PlaceOf
  <2>10. refunds \in SUBSET (1..Len(fills[t])) /\ "buyer" \in {"seller", "buyer"}
    BY <2>6
  <2>11. \A i \in refunds : PlaceOf(fills[t][i]) = "held"
    BY <2>7
  <2>12. QED
    BY <1>0, <2>1, <2>2, <2>4, <2>8, <2>9, <2>10, <2>11, VaultSettles
<1>7. ASSUME NEW t \in TradeIds, CloseExpiredListing(t)
      PROVE  Vault!VaultNext
  <2>1. /\ OthersKept(t) /\ trades[t] \in TradeOffer /\ trades[t].status = "Open"
        /\ fills' = fills
    BY <1>0, <1>7, CloseFacts
  <2>2. OverKept(t)
    BY <1>7, <2>1, OverFrame DEF CloseExpiredListing
  <2>3. ~Over(t)
    BY <2>1, OfferExists DEF Over
  <2>4. ActiveFills(t) = {}
    BY <1>0, <2>1, OfferExists, NothingKept DEF IInv, StatusMatchesFills, FilledIsSumOfKeptFills
  <2>5. \A i \in 1..Len(fills[t]) : PlaceOf(fills'[t][i]) # "held"
    BY <2>1, <2>4 DEF ActiveFills, Active, PlaceOf
  <2>6. {} \in SUBSET (1..Len(fills[t])) /\ "seller" \in {"seller", "buyer"}
    OBVIOUS
  <2>7. \A i \in {} : PlaceOf(fills[t][i]) = "held"
    OBVIOUS
  <2>8. \A i \in 1..Len(fills[t]) :
          PlaceOf(fills'[t][i]) = IF i \in {} THEN "seller" ELSE PlaceOf(fills[t][i])
    BY <2>1
  <2>9. Len(fills'[t]) = Len(fills[t])
    BY <2>1
  <2>10. QED
    BY <1>0, <2>1, <2>2, <2>3, <2>5, <2>6, <2>7, <2>8, <2>9, VaultSettles
<1>8. ASSUME NEW u \in Users, NEW t \in TradeIds, FlagDispute(u, t)
      PROVE  UNCHANGED Vault!vaultVars
  <2>1. /\ OthersKept(t) /\ SameTerms(t) /\ trades[t].status = "Locked"
        /\ trades'[t].status = "Disputed" /\ fills' = fills
    BY <1>0, <1>8, FlagFacts
  <2>2. OverKept(t)
    BY <1>8, <2>1, OverFrame DEF FlagDispute
  <2>3. ~Over(t) /\ ~Over(t)'
    BY <2>1, OfferExists DEF SameTerms, Over
  <2>4. QED
    BY <1>1, <2>1, <2>2, <2>3 DEF closedBar, OverKept
<1>9. QED
  BY <1>2, <1>3, <1>4, <1>5, <1>6, <1>7, <1>8, StepCases

LEMMA VaultStart == Init => Vault!VaultInit
<1> SUFFICES ASSUME Init PROVE Vault!VaultInit
  OBVIOUS
<1>1. \A t \in TradeIds : fills[t] = << >> /\ ~Exists(t) /\ ~(t <= tradeCounter)
  BY DEF Init, Exists, TradeIds
<1>2. Len(<< >>) = 0
  BY EmptySeq
<1>3. placeBar = [t \in TradeIds |-> << >>]
  <2>1. \A t \in TradeIds : [i \in 1..Len(fills[t]) |-> PlaceOf(fills[t][i])] = << >>
    BY <1>1, <1>2
  <2>2. QED
    BY <2>1 DEF placeBar
<1>4. closedBar = {}
  BY <1>1 DEF closedBar, Over
<1>5. QED
  BY <1>3, <1>4 DEF Vault!VaultInit, placeBar, closedBar

\* Every deposit is held until it goes to the seller or back to its buyer, once,
\* and a listing that is over holds nothing and takes no deposit.
THEOREM VaultImplemented == Spec => ImplementsVault
<1>1. Init => Vault!VaultInit
  BY VaultStart
<1>2. IInv /\ IInv' /\ [Next]_vars => [Vault!VaultNext]_(Vault!vaultVars)
  BY VaultStep
<1>3. QED
  BY <1>1, <1>2, Inductive, PTL DEF Spec, ImplementsVault, Vault!VaultSpec

-----------------------------------------------------------------------------
(* Sums over lists of sub-escrows.                                         *)

\* SumFills of a list of sub-escrows.
SumOf(f, S) == SumUpTo([i \in 1..Len(f) |-> IF i \in S THEN f[i].amount ELSE 0], Len(f))

LEMMA SumOfType ==
  ASSUME NEW f \in Seq(SubEscrow), NEW S
  PROVE  /\ SumOf(f, S) \in Int
         /\ Len(f) \in Nat /\ \A i \in 1..Len(f) : f[i] \in SubEscrow /\ f[i].amount \in Int
<1> DEFINE n == Len(f)
           v == [i \in 1..n |-> IF i \in S THEN f[i].amount ELSE 0]
<1>1. n \in Nat
  BY LenProperties
<1>2. \A i \in 1..n : f[i] \in SubEscrow
  BY ElementOfSeq
<1>3. \A i \in 1..n : f[i].amount \in Int
  BY <1>2 DEF SubEscrow
<1>4. \A i \in 1..n : v[i] \in Int
  BY <1>3
<1>5. SumOf(f, S) = SumUpTo(v, n)
  BY DEF SumOf
<1> HIDE DEF n, v
<1>6. SumUpTo(v, n) \in Int
  BY <1>1, <1>4, SumType
<1>7. QED
  BY <1>1, <1>2, <1>3, <1>5, <1>6 DEF n

\* Sub-escrows in the one sum and in the other, and nowhere twice: S is what T1
\* and T2 add up to, in lists that agree on the amounts.
LEMMA SumOfSplit ==
  ASSUME NEW f \in Seq(SubEscrow), NEW g \in Seq(SubEscrow), Len(g) = Len(f), NEW S, NEW T1, NEW T2,
         \A i \in 1..Len(f) : /\ g[i].amount = f[i].amount
                              /\ i \in S <=> i \in T1 \/ i \in T2
                              /\ ~(i \in T1 /\ i \in T2)
  PROVE  SumOf(f, S) = SumOf(f, T1) + SumOf(g, T2)
<1> DEFINE n == Len(f)
           w == [i \in 1..n |-> IF i \in S THEN f[i].amount ELSE 0]
           v1 == [i \in 1..n |-> IF i \in T1 THEN f[i].amount ELSE 0]
           v2 == [i \in 1..n |-> IF i \in T2 THEN g[i].amount ELSE 0]
<1>1. n \in Nat /\ \A i \in 1..n : f[i].amount \in Int
  BY SumOfType
<1>2. \A i \in 1..n : v1[i] \in Int /\ v2[i] \in Int /\ w[i] = v1[i] + v2[i]
  BY <1>1
<1>3. SumOf(f, S) = SumUpTo(w, n) /\ SumOf(f, T1) = SumUpTo(v1, n) /\ SumOf(g, T2) = SumUpTo(v2, n)
  BY DEF SumOf
<1> HIDE DEF n, w, v1, v2
<1>4. SumUpTo(w, n) = SumUpTo(v1, n) + SumUpTo(v2, n)
  BY <1>1, <1>2, SumAdds
<1>5. QED
  BY <1>3, <1>4

\* Sums over no sub-escrow, or over one.
LEMMA SumOfFew ==
  ASSUME NEW f \in Seq(SubEscrow), NEW S
  PROVE  /\ (\A i \in 1..Len(f) : i \notin S) => SumOf(f, S) = 0
         /\ \A k \in 1..Len(f) : (\A i \in 1..Len(f) : i \in S <=> i = k)
                                   => SumOf(f, S) = f[k].amount
<1>1. ASSUME NEW E, \A i \in 1..Len(f) : i \notin E PROVE SumOf(f, E) = 0
  <2>1. SumOf(f, E) = SumOf(f, E) + SumOf(f, E)
    BY <1>1, SumOfSplit
  <2>2. SumOf(f, E) \in Int
    BY SumOfType
  <2>3. QED
    BY <2>1, <2>2
<1>2. ASSUME NEW k \in 1..Len(f), \A i \in 1..Len(f) : i \in S <=> i = k
      PROVE  SumOf(f, S) = f[k].amount
  <2> DEFINE n == Len(f)
             v == [i \in 1..n |-> IF i \in {} THEN f[i].amount ELSE 0]
             w == [i \in 1..n |-> IF i \in S THEN f[i].amount ELSE 0]
             d == f[k].amount
  <2>1. n \in Nat /\ d \in Int /\ k \in 1..n
    BY SumOfType
  <2>2. \A i \in 1..n : v[i] \in Int /\ w[i] \in Int /\ (i # k => w[i] = v[i])
    BY <1>2, SumOfType
  <2>3. w[k] = v[k] + d
    BY <1>2, <2>1
  <2>4. SumOf(f, {}) = SumUpTo(v, n) /\ SumOf(f, S) = SumUpTo(w, n)
    BY DEF SumOf
  <2>5. SumOf(f, {}) = 0
    BY <1>1
  <2> HIDE DEF n, v, w, d
  <2>6. SumUpTo(w, n) = SumUpTo(v, n) + d
    BY <2>1, <2>2, <2>3, SumDiffersAt
  <2>7. QED
    BY <2>1, <2>4, <2>5, <2>6 DEF d
<1>3. QED
  BY <1>1, <1>2

\* A list one longer.
LEMMA SumOfAppend ==
  ASSUME NEW f \in Seq(SubEscrow), NEW g \in Seq(SubEscrow), Len(g) = Len(f) + 1, NEW S, NEW T,
         \A i \in 1..Len(f) : g[i].amount = f[i].amount /\ (i \in T <=> i \in S)
  PROVE  SumOf(g, T) = SumOf(f, S) + IF Len(g) \in T THEN g[Len(g)].amount ELSE 0
<1> DEFINE n == Len(f)
           v == [i \in 1..n |-> IF i \in S THEN f[i].amount ELSE 0]
           w == [i \in 1..(n+1) |-> IF i \in T THEN g[i].amount ELSE 0]
<1>1. n \in Nat /\ (\A i \in 1..n : f[i].amount \in Int) /\ n + 1 \in 1..(n+1)
  BY SumOfType
<1>2. \A i \in 1..n : v[i] \in Int /\ w[i] = v[i]
  BY <1>1
<1>3. w[n+1] \in Int /\ w[n+1] = IF n + 1 \in T THEN g[n+1].amount ELSE 0
  BY <1>1, SumOfType
<1>4. SumOf(f, S) = SumUpTo(v, n) /\ SumOf(g, T) = SumUpTo(w, n+1)
  BY DEF SumOf
<1> HIDE DEF n, v, w
<1>5. SumUpTo(w, n+1) = SumUpTo(v, n) + w[n+1]
  BY <1>1, <1>2, <1>3, SumExtend
<1>6. QED
  BY <1>3, <1>4, <1>5 DEF n

-----------------------------------------------------------------------------
(* The money of one listing.                                               *)

ActiveOf(f) == {i \in 1..Len(f) : Active(f[i])}
BoughtOf(u, f) == {i \in 1..Len(f) : ~f[i].refunded /\ f[i].buyer = u}
SoldOf(u, trade, f) == {i \in 1..Len(f) : trade.seller = u /\ f[i].released}

\* What a listing holds of token k; what u is out in it; what u gained by it.
HeldIn(k, trade, f) ==
  IF trade # NoTrade /\ trade.token = k THEN SumOf(f, ActiveOf(f)) ELSE 0
BoughtIn(u, k, trade, f) ==
  IF trade # NoTrade /\ trade.token = k THEN SumOf(f, BoughtOf(u, f)) ELSE 0
SoldIn(u, k, trade, f) ==
  IF trade # NoTrade /\ trade.token = k THEN SumOf(f, SoldOf(u, trade, f)) ELSE 0

LEMMA MoneyType ==
  ASSUME NEW f \in Seq(SubEscrow), NEW trade, NEW k, NEW u
  PROVE  HeldIn(k, trade, f) \in Int /\ BoughtIn(u, k, trade, f) \in Int
         /\ SoldIn(u, k, trade, f) \in Int
BY SumOfType DEF HeldIn, BoughtIn, SoldIn

\* A listing that holds nothing and sold nothing.
LEMMA MoneyNone ==
  ASSUME NEW f \in Seq(SubEscrow), NEW trade,
         trade = NoTrade \/ \A i \in 1..Len(f) : f[i].refunded /\ ~f[i].released
  PROVE  /\ \A k : HeldIn(k, trade, f) = 0
         /\ \A u, k : BoughtIn(u, k, trade, f) = 0 /\ SoldIn(u, k, trade, f) = 0
<1> SUFFICES ASSUME NEW k, NEW u, \A i \in 1..Len(f) : f[i].refunded /\ ~f[i].released
             PROVE  /\ SumOf(f, ActiveOf(f)) = 0
                    /\ SumOf(f, BoughtOf(u, f)) = 0
                    /\ SumOf(f, SoldOf(u, trade, f)) = 0
  BY DEF HeldIn, BoughtIn, SoldIn
<1>1. \A i \in 1..Len(f) : i \notin ActiveOf(f) /\ i \notin BoughtOf(u, f)
                           /\ i \notin SoldOf(u, trade, f)
  BY DEF ActiveOf, BoughtOf, SoldOf, Active
<1>2. QED
  BY <1>1, SumOfFew

\* A call on a listing changes what it holds by `held`, what each user is out in it
\* by bought[u] and what each user gained by it by sold[u].
Moved(old, f, new, g, held, bought, sold) ==
  /\ old # NoTrade /\ new # NoTrade /\ new.token = old.token
  /\ SumOf(g, ActiveOf(g)) = SumOf(f, ActiveOf(f)) + held
  /\ \A u \in Users : /\ SumOf(g, BoughtOf(u, g)) = SumOf(f, BoughtOf(u, f)) + bought[u]
                      /\ SumOf(g, SoldOf(u, new, g)) = SumOf(f, SoldOf(u, old, f)) + sold[u]

\* A deposit of x by b.
LEMMA MoneyDeposit ==
  ASSUME NEW f \in Seq(SubEscrow), NEW g \in Seq(SubEscrow), Len(g) = Len(f) + 1,
         NEW b, NEW x \in Int,
         \A i \in 1..Len(f) : g[i] = f[i],
         g[Len(g)] = [buyer |-> b, amount |-> x, released |-> FALSE, refunded |-> FALSE],
         NEW old, NEW new, old # NoTrade, new # NoTrade, new.token = old.token,
         new.seller = old.seller,
         NEW bought, NEW sold,
         \A u \in Users : bought[u] = (IF u = b THEN x ELSE 0) /\ sold[u] = 0
  PROVE  Moved(old, f, new, g, x, bought, sold)
<1> SUFFICES /\ SumOf(g, ActiveOf(g)) = SumOf(f, ActiveOf(f)) + x
             /\ \A u \in Users :
                  /\ SumOf(g, BoughtOf(u, g)) = SumOf(f, BoughtOf(u, f)) + IF u = b THEN x ELSE 0
                  /\ SumOf(g, SoldOf(u, new, g)) = SumOf(f, SoldOf(u, old, f)) + 0
  BY DEF Moved
<1> SUFFICES ASSUME NEW u
             PROVE  /\ SumOf(g, ActiveOf(g)) = SumOf(f, ActiveOf(f)) + x
                    /\ SumOf(g, BoughtOf(u, g)) = SumOf(f, BoughtOf(u, f)) + IF u = b THEN x ELSE 0
                    /\ SumOf(g, SoldOf(u, new, g)) = SumOf(f, SoldOf(u, old, f)) + 0
  OBVIOUS
<1>1. Len(f) \in Nat /\ Len(g) \in 1..Len(g) /\ \A i \in 1..Len(f) : i \in 1..Len(g)
  BY SumOfType
<1>2. \A i \in 1..Len(f) : /\ i \in ActiveOf(g) <=> i \in ActiveOf(f)
                           /\ i \in BoughtOf(u, g) <=> i \in BoughtOf(u, f)
                           /\ i \in SoldOf(u, new, g) <=> i \in SoldOf(u, old, f)
  BY <1>1 DEF ActiveOf, BoughtOf, SoldOf, Active
<1>3. \A i \in 1..Len(f) : g[i].amount = f[i].amount
  OBVIOUS
<1>4. Len(g) \in ActiveOf(g) /\ g[Len(g)].amount = x
      /\ (Len(g) \in BoughtOf(u, g) <=> u = b) /\ Len(g) \notin SoldOf(u, new, g)
  BY <1>1 DEF ActiveOf, BoughtOf, SoldOf, Active
<1>5. SumOf(g, ActiveOf(g)) = SumOf(f, ActiveOf(f)) + x
  BY <1>2, <1>3, <1>4, SumOfAppend
<1>6. SumOf(g, BoughtOf(u, g)) = SumOf(f, BoughtOf(u, f)) + IF u = b THEN x ELSE 0
  BY <1>2, <1>3, <1>4, SumOfAppend
<1>7. SumOf(g, SoldOf(u, new, g)) = SumOf(f, SoldOf(u, old, f)) + 0
  BY <1>2, <1>3, <1>4, SumOfAppend
<1>8. QED
  BY <1>5, <1>6, <1>7

\* Sub-escrow i is paid to the seller.
LEMMA MoneyPay ==
  ASSUME NEW f \in Seq(SubEscrow), NEW g \in Seq(SubEscrow), Len(g) = Len(f),
         NEW i \in 1..Len(f), Active(f[i]),
         \A j \in 1..Len(f) : j # i => g[j] = f[j],
         g[i] = [f[i] EXCEPT !.released = TRUE],
         NEW old, NEW new, old # NoTrade, new # NoTrade, new.token = old.token,
         new.seller = old.seller,
         NEW bought, NEW sold,
         \A u \in Users : bought[u] = 0 /\ sold[u] = IF u = old.seller THEN f[i].amount ELSE 0
  PROVE  Moved(old, f, new, g, -f[i].amount, bought, sold)
<1> DEFINE x == f[i].amount
<1>0. f[i] \in SubEscrow /\ x \in Int /\ Len(f) \in Nat
  BY SumOfType
<1>1. /\ g[i].released /\ g[i].refunded = f[i].refunded /\ ~f[i].released
      /\ g[i].amount = x /\ g[i].buyer = f[i].buyer
  BY <1>0 DEF SubEscrow, Active
<1> SUFFICES /\ SumOf(g, ActiveOf(g)) = SumOf(f, ActiveOf(f)) + (-x)
             /\ \A u \in Users :
                  /\ SumOf(g, BoughtOf(u, g)) = SumOf(f, BoughtOf(u, f)) + 0
                  /\ SumOf(g, SoldOf(u, new, g)) =
                       SumOf(f, SoldOf(u, old, f)) + IF u = old.seller THEN x ELSE 0
  BY DEF Moved
<1> SUFFICES ASSUME NEW u
             PROVE  /\ SumOf(g, ActiveOf(g)) = SumOf(f, ActiveOf(f)) + (-x)
                    /\ SumOf(g, BoughtOf(u, g)) = SumOf(f, BoughtOf(u, f)) + 0
                    /\ SumOf(g, SoldOf(u, new, g)) =
                         SumOf(f, SoldOf(u, old, f)) + IF u = old.seller THEN x ELSE 0
  OBVIOUS
<1> HIDE DEF x
<1>2. \A j \in 1..Len(f) : g[j].amount = f[j].amount /\ f[j].amount = g[j].amount
  BY <1>1 DEF x
<1>3. \A j \in 1..Len(f) : /\ j \in ActiveOf(f) <=> j \in {i} \/ j \in ActiveOf(g)
                           /\ ~(j \in {i} /\ j \in ActiveOf(g))
                           /\ j \in BoughtOf(u, g) <=> j \in BoughtOf(u, f)
  BY <1>1 DEF ActiveOf, BoughtOf, Active
<1>4. SumOf(f, ActiveOf(f)) = SumOf(f, {i}) + SumOf(g, ActiveOf(g))
  BY <1>2, <1>3, SumOfSplit
<1>5. SumOf(f, {i}) = x /\ SumOf(f, {}) = 0 /\ SumOf(g, {i}) = x /\ SumOf(g, {}) = 0
  <2>1. \A h \in {f, g} : SumOf(h, {i}) = h[i].amount
    <3> SUFFICES ASSUME NEW h \in {f, g} PROVE SumOf(h, {i}) = h[i].amount
      OBVIOUS
    <3>1. h \in Seq(SubEscrow) /\ i \in 1..Len(h)
      OBVIOUS
    <3>2. \A j \in 1..Len(h) : j \in {i} <=> j = i
      OBVIOUS
    <3>3. QED
      BY <3>1, <3>2, SumOfFew
  <2>2. SumOf(f, {}) = 0 /\ SumOf(g, {}) = 0
    BY SumOfFew
  <2>3. QED
    BY <1>1, <2>1, <2>2 DEF x
<1>6. SumOf(g, ActiveOf(g)) \in Int /\ SumOf(g, BoughtOf(u, g)) \in Int
      /\ SumOf(f, SoldOf(u, old, f)) \in Int
  BY SumOfType
<1>7. SumOf(f, BoughtOf(u, f)) = SumOf(f, {}) + SumOf(g, BoughtOf(u, g))
  BY <1>2, <1>3, SumOfSplit
<1>8. CASE u = old.seller
  <2>1. \A j \in 1..Len(f) : /\ j \in SoldOf(u, new, g) <=> j \in {i} \/ j \in SoldOf(u, old, f)
                             /\ ~(j \in {i} /\ j \in SoldOf(u, old, f))
    BY <1>1, <1>8 DEF SoldOf
  <2>2. SumOf(g, SoldOf(u, new, g)) = SumOf(g, {i}) + SumOf(f, SoldOf(u, old, f))
    BY <1>2, <2>1, SumOfSplit
  <2>3. QED
    BY <1>0, <1>4, <1>5, <1>6, <1>7, <1>8, <2>2
<1>9. CASE u # old.seller
  <2>1. \A j \in 1..Len(f) : j \notin SoldOf(u, new, g) /\ j \notin SoldOf(u, old, f)
    BY <1>9 DEF SoldOf
  <2>2. SumOf(g, SoldOf(u, new, g)) = 0 /\ SumOf(f, SoldOf(u, old, f)) = 0
    BY <2>1, SumOfFew
  <2>3. QED
    BY <1>0, <1>4, <1>5, <1>6, <1>7, <1>9, <2>2
<1>10. QED
  BY <1>8, <1>9

\* The sub-escrows R are paid back to their buyers.
LEMMA MoneyRefund ==
  ASSUME NEW f \in Seq(SubEscrow), NEW g \in Seq(SubEscrow), Len(g) = Len(f),
         NEW R, \A i \in R : i \in 1..Len(f) /\ Active(f[i]),
         \A i \in 1..Len(f) : g[i] = IF i \in R THEN [f[i] EXCEPT !.refunded = TRUE] ELSE f[i],
         NEW old, NEW new, old # NoTrade, new # NoTrade, new.token = old.token,
         new.seller = old.seller,
         NEW bought, NEW sold,
         \A u \in Users : bought[u] = -SumOf(f, {i \in R : f[i].buyer = u}) /\ sold[u] = 0
  PROVE  Moved(old, f, new, g, -SumOf(f, R), bought, sold)
<1>0. Len(f) \in Nat /\ \A i \in 1..Len(f) : f[i] \in SubEscrow
  BY SumOfType
<1>1. \A i \in 1..Len(f) : /\ g[i].released = f[i].released
                           /\ g[i].refunded <=> f[i].refunded \/ i \in R
                           /\ g[i].amount = f[i].amount /\ g[i].buyer = f[i].buyer
  <2> SUFFICES ASSUME NEW i \in 1..Len(f)
               PROVE  /\ g[i].released = f[i].released
                      /\ g[i].refunded <=> f[i].refunded \/ i \in R
                      /\ g[i].amount = f[i].amount /\ g[i].buyer = f[i].buyer
    OBVIOUS
  <2>1. f[i] \in SubEscrow
    BY <1>0
  <2>2. QED
    BY <2>1 DEF SubEscrow
<1>2. \A i \in R : ~f[i].released /\ ~f[i].refunded
  BY DEF Active
<1> SUFFICES /\ SumOf(g, ActiveOf(g)) = SumOf(f, ActiveOf(f)) + (-SumOf(f, R))
             /\ \A u \in Users :
                  /\ SumOf(g, BoughtOf(u, g)) =
                       SumOf(f, BoughtOf(u, f)) + (-SumOf(f, {i \in R : f[i].buyer = u}))
                  /\ SumOf(g, SoldOf(u, new, g)) = SumOf(f, SoldOf(u, old, f)) + 0
  BY DEF Moved
<1> SUFFICES ASSUME NEW u
             PROVE  /\ SumOf(g, ActiveOf(g)) = SumOf(f, ActiveOf(f)) + (-SumOf(f, R))
                    /\ SumOf(g, BoughtOf(u, g)) =
                         SumOf(f, BoughtOf(u, f)) + (-SumOf(f, {i \in R : f[i].buyer = u}))
                    /\ SumOf(g, SoldOf(u, new, g)) = SumOf(f, SoldOf(u, old, f)) + 0
  OBVIOUS
<1> DEFINE mine == {i \in R : f[i].buyer = u}
<1>3. \A i \in 1..Len(f) : /\ i \in ActiveOf(f) <=> i \in R \/ i \in ActiveOf(g)
                           /\ ~(i \in R /\ i \in ActiveOf(g))
                           /\ i \in BoughtOf(u, f) <=> i \in mine \/ i \in BoughtOf(u, g)
                           /\ ~(i \in mine /\ i \in BoughtOf(u, g))
                           /\ i \in SoldOf(u, old, f) <=> i \in SoldOf(u, new, g)
  BY <1>1, <1>2 DEF ActiveOf, BoughtOf, SoldOf, Active
<1> HIDE DEF mine
<1>4. SumOf(f, ActiveOf(f)) = SumOf(f, R) + SumOf(g, ActiveOf(g))
  BY <1>1, <1>3, SumOfSplit
<1>5. SumOf(f, BoughtOf(u, f)) = SumOf(f, mine) + SumOf(g, BoughtOf(u, g))
  BY <1>1, <1>3, SumOfSplit
<1>6. SumOf(f, SoldOf(u, old, f)) = SumOf(f, {}) + SumOf(g, SoldOf(u, new, g))
  BY <1>1, <1>3, SumOfSplit
<1>7. SumOf(f, {}) = 0
  BY SumOfFew
<1>8. /\ SumOf(g, ActiveOf(g)) \in Int /\ SumOf(g, BoughtOf(u, g)) \in Int
      /\ SumOf(g, SoldOf(u, new, g)) \in Int /\ SumOf(f, R) \in Int /\ SumOf(f, mine) \in Int
  BY SumOfType
<1>9. QED
  BY <1>4, <1>5, <1>6, <1>7, <1>8 DEF mine

-----------------------------------------------------------------------------
(* The balances.                                                           *)

\* Solvent and PartiesMadeWhole, in terms of the money of each listing.
MoneyInv ==
  /\ \A k \in Tokens :
       balance[k][Contract] =
         SumUpTo([t \in TradeIds |-> HeldIn(k, trades[t], fills[t])], MaxTrades) - recovered[k]
  /\ \A k \in Tokens, u \in Users \ Recipients :
       balance[k][u] = Endowment
         - SumUpTo([t \in TradeIds |-> BoughtIn(u, k, trades[t], fills[t])], MaxTrades)
         + SumUpTo([t \in TradeIds |-> SoldIn(u, k, trades[t], fills[t])], MaxTrades)

LEMMA MoneyInvIsSolvent == MoneyInv <=> Solvent /\ PartiesMadeWhole
<1> DEFINE held == [t \in TradeIds |-> ActiveFills(t)]
           bought(u) == [t \in TradeIds |-> {i \in KeptFills(t) : fills[t][i].buyer = u}]
           sold(u) == [t \in TradeIds |-> {i \in 1..Len(fills[t]) :
                         Exists(t) /\ trades[t].seller = u /\ fills[t][i].released}]
<1>1. ASSUME NEW k
      PROVE  SumListings(k, held) =
               SumUpTo([t \in TradeIds |-> HeldIn(k, trades[t], fills[t])], MaxTrades)
  <2>1. ASSUME NEW t \in TradeIds
        PROVE  (IF Exists(t) /\ trades[t].token = k THEN SumFills(t, held[t]) ELSE 0)
                 = HeldIn(k, trades[t], fills[t])
    BY DEF HeldIn, SumOf, ActiveOf, SumFills, ActiveFills, Exists
  <2>2. QED
    BY <2>1 DEF SumListings
<1>2. ASSUME NEW k, NEW u
      PROVE  SumListings(k, bought(u)) =
               SumUpTo([t \in TradeIds |-> BoughtIn(u, k, trades[t], fills[t])], MaxTrades)
  <2>1. ASSUME NEW t \in TradeIds
        PROVE  (IF Exists(t) /\ trades[t].token = k THEN SumFills(t, bought(u)[t]) ELSE 0)
                 = BoughtIn(u, k, trades[t], fills[t])
    <3>1. bought(u)[t] = BoughtOf(u, fills[t])
      BY DEF KeptFills, BoughtOf
    <3>2. QED
      BY <3>1 DEF BoughtIn, SumOf, SumFills, Exists
  <2>2. QED
    BY <2>1 DEF SumListings
<1>3. ASSUME NEW k, NEW u
      PROVE  SumListings(k, sold(u)) =
               SumUpTo([t \in TradeIds |-> SoldIn(u, k, trades[t], fills[t])], MaxTrades)
  <2>1. ASSUME NEW t \in TradeIds
        PROVE  (IF Exists(t) /\ trades[t].token = k THEN SumFills(t, sold(u)[t]) ELSE 0)
                 = SoldIn(u, k, trades[t], fills[t])
    <3>1. Exists(t) => sold(u)[t] = SoldOf(u, trades[t], fills[t])
      BY DEF SoldOf
    <3>2. QED
      BY <3>1 DEF SoldIn, SumOf, SumFills, Exists
  <2>2. QED
    BY <2>1 DEF SumListings
<1>4. Solvent <=> \A k \in Tokens : balance[k][Contract] = SumListings(k, held) - recovered[k]
  BY DEF Solvent
<1>5. PartiesMadeWhole <=> \A k \in Tokens, u \in Users \ Recipients :
        balance[k][u] = Endowment - SumListings(k, bought(u)) + SumListings(k, sold(u))
  BY DEF PartiesMadeWhole
<1> DEFINE heldSum(k) ==
             SumUpTo([t \in TradeIds |-> HeldIn(k, trades[t], fills[t])], MaxTrades)
           boughtSum(u, k) ==
             SumUpTo([t \in TradeIds |-> BoughtIn(u, k, trades[t], fills[t])], MaxTrades)
           soldSum(u, k) ==
             SumUpTo([t \in TradeIds |-> SoldIn(u, k, trades[t], fills[t])], MaxTrades)
<1>6. MoneyInv <=>
        /\ \A k \in Tokens : balance[k][Contract] = heldSum(k) - recovered[k]
        /\ \A k \in Tokens, u \in Users \ Recipients :
             balance[k][u] = Endowment - boughtSum(u, k) + soldSum(u, k)
  BY DEF MoneyInv
<1>7. /\ \A k : SumListings(k, held) = heldSum(k)
      /\ \A k, u : SumListings(k, bought(u)) = boughtSum(u, k)
      /\ \A k, u : SumListings(k, sold(u)) = soldSum(u, k)
  BY <1>1, <1>2, <1>3
<1> HIDE DEF held, bought, sold, heldSum, boughtSum, soldSum
<1>8. QED
  BY <1>4, <1>5, <1>6, <1>7

\* A step about one listing that moves the tokens its entries say.
LEMMA MoneyOneListing ==
  ASSUME TypeOK, TypeOK', MoneyInv, NEW t \in TradeIds, OthersKept(t), UNCHANGED recovered,
         \A k \in Tokens : balance'[k][Contract] =
           balance[k][Contract] + (HeldIn(k, trades'[t], fills'[t]) - HeldIn(k, trades[t], fills[t])),
         \A k \in Tokens, u \in Users \ Recipients : balance'[k][u] =
           balance[k][u] - (BoughtIn(u, k, trades'[t], fills'[t]) - BoughtIn(u, k, trades[t], fills[t]))
                         + (SoldIn(u, k, trades'[t], fills'[t]) - SoldIn(u, k, trades[t], fills[t]))
  PROVE  MoneyInv'
<1>1. \A s \in TradeIds : fills[s] \in Seq(SubEscrow) /\ fills'[s] \in Seq(SubEscrow)
  BY DEF TypeOK
<1>2. \A s \in TradeIds : s # t => trades'[s] = trades[s] /\ fills'[s] = fills[s]
  BY DEF OthersKept
<1>3. MaxTrades \in Nat /\ TradeIds = 1..MaxTrades /\ Endowment \in Int
  BY NumberAssumption DEF NumberAssumption, TradeIds
<1>4. ASSUME NEW v, NEW w, \A s \in TradeIds : v[s] \in Int /\ w[s] \in Int,
             \A s \in TradeIds : s # t => w[s] = v[s]
      PROVE  /\ SumUpTo(v, MaxTrades) \in Int
             /\ SumUpTo(w, MaxTrades) = SumUpTo(v, MaxTrades) + (w[t] - v[t])
  <2> DEFINE d == w[t] - v[t]
  <2>1. d \in Int /\ w[t] = v[t] + d
    BY <1>4
  <2> HIDE DEF d
  <2>2. SumUpTo(w, MaxTrades) = SumUpTo(v, MaxTrades) + d
    BY <1>3, <1>4, <2>1, SumDiffersAt
  <2>3. SumUpTo(v, MaxTrades) \in Int
    BY <1>3, <1>4, SumType
  <2>4. QED
    BY <2>2, <2>3 DEF d
<1>5. ASSUME NEW k \in Tokens
      PROVE  balance'[k][Contract] =
               SumUpTo([s \in TradeIds |-> HeldIn(k, trades'[s], fills'[s])], MaxTrades) - recovered'[k]
  <2> DEFINE v == [s \in TradeIds |-> HeldIn(k, trades[s], fills[s])]
             w == [s \in TradeIds |-> HeldIn(k, trades'[s], fills'[s])]
  <2>1. \A s \in TradeIds : v[s] \in Int /\ w[s] \in Int
    BY <1>1, MoneyType
  <2>2. \A s \in TradeIds : s # t => w[s] = v[s]
    BY <1>2
  <2>3. v[t] = HeldIn(k, trades[t], fills[t]) /\ w[t] = HeldIn(k, trades'[t], fills'[t])
    OBVIOUS
  <2>4. balance[k][Contract] = SumUpTo(v, MaxTrades) - recovered[k]
    BY DEF MoneyInv
  <2>5. balance'[k][Contract] = balance[k][Contract] + (w[t] - v[t])
    BY <2>3
  <2>6. recovered[k] \in Int /\ recovered'[k] = recovered[k]
    BY DEF TypeOK
  <2>7. v[t] \in Int /\ w[t] \in Int
    BY <2>1
  <2> HIDE DEF v, w
  <2>8. SumUpTo(w, MaxTrades) = SumUpTo(v, MaxTrades) + (w[t] - v[t])
        /\ SumUpTo(v, MaxTrades) \in Int
    BY <1>4, <2>1, <2>2
  <2>9. balance'[k][Contract] = SumUpTo(w, MaxTrades) - recovered'[k]
    BY <2>4, <2>5, <2>6, <2>7, <2>8
  <2>10. QED
    BY <2>9 DEF w
<1>6. ASSUME NEW k \in Tokens, NEW u \in Users \ Recipients
      PROVE  balance'[k][u] = Endowment
               - SumUpTo([s \in TradeIds |-> BoughtIn(u, k, trades'[s], fills'[s])], MaxTrades)
               + SumUpTo([s \in TradeIds |-> SoldIn(u, k, trades'[s], fills'[s])], MaxTrades)
  <2> DEFINE v == [s \in TradeIds |-> BoughtIn(u, k, trades[s], fills[s])]
             w == [s \in TradeIds |-> BoughtIn(u, k, trades'[s], fills'[s])]
             p == [s \in TradeIds |-> SoldIn(u, k, trades[s], fills[s])]
             q == [s \in TradeIds |-> SoldIn(u, k, trades'[s], fills'[s])]
  <2>1. \A s \in TradeIds : v[s] \in Int /\ w[s] \in Int /\ p[s] \in Int /\ q[s] \in Int
    BY <1>1, MoneyType
  <2>2. \A s \in TradeIds : s # t => w[s] = v[s] /\ q[s] = p[s]
    BY <1>2
  <2>3. balance[k][u] = Endowment - SumUpTo(v, MaxTrades) + SumUpTo(p, MaxTrades)
    BY DEF MoneyInv
  <2>4. balance'[k][u] = balance[k][u] - (w[t] - v[t]) + (q[t] - p[t])
    OBVIOUS
  <2>5. v[t] \in Int /\ w[t] \in Int /\ p[t] \in Int /\ q[t] \in Int
    BY <2>1
  <2> HIDE DEF v, w, p, q
  <2>6. SumUpTo(w, MaxTrades) = SumUpTo(v, MaxTrades) + (w[t] - v[t])
        /\ SumUpTo(v, MaxTrades) \in Int
    BY <1>4, <2>1, <2>2
  <2>7. SumUpTo(q, MaxTrades) = SumUpTo(p, MaxTrades) + (q[t] - p[t])
        /\ SumUpTo(p, MaxTrades) \in Int
    BY <1>4, <2>1, <2>2
  <2>8. balance'[k][u] = Endowment - SumUpTo(w, MaxTrades) + SumUpTo(q, MaxTrades)
    BY <1>3, <2>3, <2>4, <2>5, <2>6, <2>7
  <2>9. QED
    BY <2>8 DEF w, q
<1>7. QED
  BY <1>5, <1>6 DEF MoneyInv

\* A call on a listing that moves the tokens its entries say.
LEMMA MoneyMoves ==
  ASSUME TypeOK, TypeOK', MoneyInv, NEW t \in TradeIds, OthersKept(t), UNCHANGED recovered,
         trades[t].token \in Tokens,
         NEW held \in Int, NEW bought \in [Users -> Int], NEW sold \in [Users -> Int],
         Moved(trades[t], fills[t], trades'[t], fills'[t], held, bought, sold),
         \A k \in Tokens : k # trades[t].token => balance'[k] = balance[k],
         balance'[trades[t].token][Contract] = balance[trades[t].token][Contract] + held,
         \A u \in Users : balance'[trades[t].token][u] =
                            balance[trades[t].token][u] - bought[u] + sold[u]
  PROVE  MoneyInv'
<1> DEFINE tok == trades[t].token
<1>0. /\ fills[t] \in Seq(SubEscrow) /\ fills'[t] \in Seq(SubEscrow)
      /\ Contract \in Accounts /\ \A u \in Users : u \in Accounts
      /\ \A k \in Tokens, a \in Accounts : balance[k][a] \in Int
  BY DEF TypeOK, Accounts
<1>1. ASSUME NEW k \in Tokens
      PROVE  balance'[k][Contract] = balance[k][Contract]
               + (HeldIn(k, trades'[t], fills'[t]) - HeldIn(k, trades[t], fills[t]))
  <2>1. HeldIn(k, trades'[t], fills'[t]) = HeldIn(k, trades[t], fills[t])
          + IF k = tok THEN held ELSE 0
    <3>1. CASE k = tok
      BY <3>1 DEF HeldIn, Moved
    <3>2. CASE k # tok
      BY <3>2 DEF HeldIn, Moved
    <3>3. QED
      BY <3>1, <3>2
  <2>2. balance'[k][Contract] = balance[k][Contract] + IF k = tok THEN held ELSE 0
    <3>1. balance[k][Contract] \in Int
      BY <1>0
    <3>2. QED
      BY <3>1
  <2>3. HeldIn(k, trades[t], fills[t]) \in Int /\ balance[k][Contract] \in Int
    BY <1>0, MoneyType
  <2> HIDE DEF tok
  <2>4. QED
    BY <2>1, <2>2, <2>3
<1>2. ASSUME NEW k \in Tokens, NEW u \in Users \ Recipients
      PROVE  balance'[k][u] = balance[k][u]
               - (BoughtIn(u, k, trades'[t], fills'[t]) - BoughtIn(u, k, trades[t], fills[t]))
               + (SoldIn(u, k, trades'[t], fills'[t]) - SoldIn(u, k, trades[t], fills[t]))
  <2>0. u \in Users /\ bought[u] \in Int /\ sold[u] \in Int
    OBVIOUS
  <2>1. /\ BoughtIn(u, k, trades'[t], fills'[t]) =
             BoughtIn(u, k, trades[t], fills[t]) + IF k = tok THEN bought[u] ELSE 0
        /\ SoldIn(u, k, trades'[t], fills'[t]) =
             SoldIn(u, k, trades[t], fills[t]) + IF k = tok THEN sold[u] ELSE 0
    <3>1. CASE k = tok
      BY <2>0, <3>1 DEF BoughtIn, SoldIn, Moved
    <3>2. CASE k # tok
      BY <3>2 DEF BoughtIn, SoldIn, Moved
    <3>3. QED
      BY <3>1, <3>2
  <2>2. balance'[k][u] = balance[k][u] - (IF k = tok THEN bought[u] ELSE 0)
                                       + (IF k = tok THEN sold[u] ELSE 0)
    <3>1. balance[k][u] \in Int
      BY <1>0, <2>0
    <3>2. QED
      BY <2>0, <3>1
  <2>3. /\ BoughtIn(u, k, trades[t], fills[t]) \in Int /\ SoldIn(u, k, trades[t], fills[t]) \in Int
        /\ balance[k][u] \in Int
    BY <1>0, <2>0, MoneyType
  <2> HIDE DEF tok
  <2>4. QED
    BY <2>0, <2>1, <2>2, <2>3
<1>3. QED
  BY <1>1, <1>2, MoneyOneListing

\* A transfer between two accounts.
LEMMA TransferFacts ==
  ASSUME TypeOK, NEW k \in Tokens, NEW a \in Accounts, NEW b \in Accounts, a # b, NEW x \in Int,
         balance' = Transferred(k, a, b, x)
  PROVE  \A h \in Tokens, c \in Accounts :
           balance'[h][c] = IF h # k THEN balance[h][c]
                            ELSE IF c = a THEN balance[h][c] - x
                            ELSE IF c = b THEN balance[h][c] + x
                            ELSE balance[h][c]
BY DEF Transferred, TypeOK

LEMMA MoneyNext ==
  ASSUME IInv, TypeOK', \A t \in TradeIds : OneFillEach(t), MoneyInv, [Next]_vars
  PROVE  MoneyInv'
<1> USE RoleAssumption, NumberAssumption DEF RoleAssumption, NumberAssumption
<1>0. /\ TypeOK
      /\ \A t \in TradeIds : fills[t] \in Seq(SubEscrow) /\ fills'[t] \in Seq(SubEscrow)
      /\ \A k \in Tokens, a \in Accounts : balance[k][a] \in Int
      /\ Contract \in Accounts /\ \A u \in Users : u \in Accounts /\ u # Contract
  BY DEF IInv, TypeOK, Accounts
<1>1. CASE UNCHANGED <<trades, fills, balance, recovered>>
  BY <1>1 DEF MoneyInv
<1>2. ASSUME NEW t \in TradeIds
      PROVE  /\ \A k : HeldIn(k, trades[t], fills[t]) \in Int
             /\ \A u, k : BoughtIn(u, k, trades[t], fills[t]) \in Int
             /\ \A u, k : SoldIn(u, k, trades[t], fills[t]) \in Int
  BY <1>0, MoneyType
<1>3. ASSUME NEW t \in TradeIds, SameTerms(t)
      PROVE  /\ trades[t] # NoTrade /\ trades'[t] # NoTrade
             /\ trades[t].token \in Tokens /\ trades[t].seller \in Users
  BY <1>3, OfferExists DEF SameTerms, Exists, TradeOffer
<1>4. ASSUME NEW t \in TradeIds, OthersKept(t), UNCHANGED <<balance, recovered>>,
             \A k : HeldIn(k, trades'[t], fills'[t]) = HeldIn(k, trades[t], fills[t]),
             \A u, k : BoughtIn(u, k, trades'[t], fills'[t]) = BoughtIn(u, k, trades[t], fills[t]),
             \A u, k : SoldIn(u, k, trades'[t], fills'[t]) = SoldIn(u, k, trades[t], fills[t])
      PROVE  MoneyInv'
  <2>1. ASSUME NEW k \in Tokens
        PROVE  balance'[k][Contract] = balance[k][Contract]
                 + (HeldIn(k, trades'[t], fills'[t]) - HeldIn(k, trades[t], fills[t]))
    <3>1. HeldIn(k, trades'[t], fills'[t]) = HeldIn(k, trades[t], fills[t])
          /\ HeldIn(k, trades[t], fills[t]) \in Int
      BY <1>2, <1>4
    <3>2. balance'[k][Contract] = balance[k][Contract] /\ balance[k][Contract] \in Int
      BY <1>0, <1>4
    <3>3. QED
      BY <3>1, <3>2
  <2>2. ASSUME NEW k \in Tokens, NEW u \in Users \ Recipients
        PROVE  balance'[k][u] = balance[k][u]
                 - (BoughtIn(u, k, trades'[t], fills'[t]) - BoughtIn(u, k, trades[t], fills[t]))
                 + (SoldIn(u, k, trades'[t], fills'[t]) - SoldIn(u, k, trades[t], fills[t]))
    <3>1. BoughtIn(u, k, trades'[t], fills'[t]) = BoughtIn(u, k, trades[t], fills[t])
          /\ BoughtIn(u, k, trades[t], fills[t]) \in Int
      BY <1>2, <1>4
    <3>2. SoldIn(u, k, trades'[t], fills'[t]) = SoldIn(u, k, trades[t], fills[t])
          /\ SoldIn(u, k, trades[t], fills[t]) \in Int
      BY <1>2, <1>4
    <3>3. balance'[k][u] = balance[k][u] /\ balance[k][u] \in Int
      BY <1>0, <1>4
    <3>4. QED
      BY <3>1, <3>2, <3>3
  <2>3. QED
    BY <1>0, <1>4, <2>1, <2>2, MoneyOneListing
<1>5. ASSUME NEW u \in Sellers, NEW k \in Tokens, NEW x \in Amounts, NEW c \in Categories,
             NEW e \in 0..Horizon, CreateListing(u, k, x, c, e)
      PROVE  MoneyInv'
  <2>1. PICK t \in TradeIds :
          t = tradeCounter + 1 /\ OthersKept(t) /\ fills[t] = << >> /\ fills'[t] = << >>
    BY <1>5, CreateFacts
  <2>2. \A i \in 1..Len(fills[t]) : FALSE
    BY <2>1, EmptySeq
  <2>3. /\ \A h : HeldIn(h, trades[t], fills[t]) = 0
        /\ \A v, h : BoughtIn(v, h, trades[t], fills[t]) = 0 /\ SoldIn(v, h, trades[t], fills[t]) = 0
    BY <1>0, <2>2, MoneyNone
  <2>4. /\ \A h : HeldIn(h, trades'[t], fills'[t]) = 0
        /\ \A v, h : BoughtIn(v, h, trades'[t], fills'[t]) = 0 /\ SoldIn(v, h, trades'[t], fills'[t]) = 0
    <3>1. \A i \in 1..Len(fills'[t]) : fills'[t][i].refunded /\ ~fills'[t][i].released
      BY <2>1, <2>2
    <3>2. QED
      BY <1>0, <3>1, MoneyNone
  <2>5. UNCHANGED <<balance, recovered>>
    BY <1>5 DEF CreateListing, events
  <2>6. QED
    BY <1>4, <2>1, <2>3, <2>4, <2>5
<1>6. ASSUME NEW u \in Users, NEW t \in TradeIds, NEW x \in Amounts, DepositToEscrow(u, t, x)
      PROVE  MoneyInv'
  <2> DEFINE tok == trades[t].token
             bought == [v \in Users |-> IF v = u THEN x ELSE 0]
             sold == [v \in Users |-> 0]
  <2>1. x \in Int
    OBVIOUS
  <2>2. /\ OthersKept(t) /\ SameTerms(t)
        /\ Len(fills'[t]) = Len(fills[t]) + 1
        /\ \A i \in 1..Len(fills[t]) : fills'[t][i] = fills[t][i]
        /\ fills'[t][Len(fills[t]) + 1] =
             [buyer |-> u, amount |-> x, released |-> FALSE, refunded |-> FALSE]
    BY <1>0, <1>6, <2>1, DepositFacts
  <2>3. /\ trades[t] # NoTrade /\ trades'[t] # NoTrade /\ tok \in Tokens
        /\ trades'[t].token = trades[t].token /\ trades'[t].seller = trades[t].seller
    BY <1>3, <2>2 DEF SameTerms
  <2>4. Moved(trades[t], fills[t], trades'[t], fills'[t], x, bought, sold)
    <3>1. fills'[t][Len(fills'[t])] =
            [buyer |-> u, amount |-> x, released |-> FALSE, refunded |-> FALSE]
      BY <2>2
    <3>2. \A v \in Users : bought[v] = (IF v = u THEN x ELSE 0) /\ sold[v] = 0
      OBVIOUS
    <3> HIDE DEF bought, sold
    <3>3. QED
      BY <1>0, <2>1, <2>2, <2>3, <3>1, <3>2, MoneyDeposit
  <2>5. balance' = Transferred(tok, u, Contract, x) /\ UNCHANGED recovered
    BY <1>6 DEF DepositToEscrow, events
  <2>6. /\ \A k \in Tokens : k # tok => balance'[k] = balance[k]
        /\ balance'[tok][Contract] = balance[tok][Contract] + x
        /\ \A v \in Users : balance'[tok][v] = balance[tok][v] - bought[v] + sold[v]
    <3> HIDE DEF tok
    <3>1. \A k \in Tokens : k # tok => balance'[k] = balance[k]
      BY <1>0, <2>3, <2>5 DEF Transferred, TypeOK
    <3>2. \A c \in Accounts : balance'[tok][c] = IF c = u THEN balance[tok][c] - x
                                                 ELSE IF c = Contract THEN balance[tok][c] + x
                                                 ELSE balance[tok][c]
      BY <1>0, <2>1, <2>3, <2>5, TransferFacts
    <3>3. \A v \in Users : v \in Accounts /\ balance[tok][v] \in Int
      BY <1>0, <2>3
    <3>4. QED
      BY <1>0, <2>1, <3>1, <3>2, <3>3
  <2>7. bought \in [Users -> Int] /\ sold \in [Users -> Int]
    BY <2>1
  <2> HIDE DEF bought, sold
  <2>8. QED
    BY <1>0, <2>1, <2>2, <2>3, <2>4, <2>5, <2>6, <2>7, MoneyMoves
<1>7. ASSUME NEW t \in TradeIds, NEW i \in 1..MaxFills, PaySeller(t, i)
      PROVE  MoneyInv'
  <2> DEFINE tok == trades[t].token
             seller == trades[t].seller
             x == fills[t][i].amount
             bought == [v \in Users |-> 0]
             sold == [v \in Users |-> IF v = seller THEN x ELSE 0]
  <2>1. /\ OthersKept(t) /\ SameTerms(t)
        /\ i \in 1..Len(fills[t]) /\ Active(fills[t][i])
        /\ Len(fills'[t]) = Len(fills[t])
        /\ \A j \in 1..Len(fills[t]) : j # i => fills'[t][j] = fills[t][j]
        /\ fills'[t][i] = [fills[t][i] EXCEPT !.released = TRUE]
    BY <1>0, <1>7, PayFacts
  <2>2. x \in Int /\ -x \in Int
    BY <1>0, <2>1, FillsType
  <2>3. /\ trades[t] # NoTrade /\ trades'[t] # NoTrade /\ tok \in Tokens /\ seller \in Users
        /\ trades'[t].token = trades[t].token /\ trades'[t].seller = trades[t].seller
    BY <1>3, <2>1 DEF SameTerms
  <2>4. Moved(trades[t], fills[t], trades'[t], fills'[t], -x, bought, sold)
    <3>1. \A v \in Users : bought[v] = 0
            /\ sold[v] = IF v = trades[t].seller THEN fills[t][i].amount ELSE 0
      OBVIOUS
    <3> HIDE DEF bought, sold
    <3>2. QED
      BY <1>0, <2>1, <2>3, <3>1, MoneyPay
  <2>5. balance' = Transferred(tok, Contract, seller, x) /\ UNCHANGED recovered
    BY <1>7 DEF PaySeller, events
  <2> HIDE DEF x
  <2>6. /\ \A k \in Tokens : k # tok => balance'[k] = balance[k]
        /\ balance'[tok][Contract] = balance[tok][Contract] + (-x)
        /\ \A v \in Users : balance'[tok][v] = balance[tok][v] - bought[v] + sold[v]
    <3> HIDE DEF tok, seller
    <3>1. \A k \in Tokens : k # tok => balance'[k] = balance[k]
      BY <1>0, <2>3, <2>5 DEF Transferred, TypeOK
    <3>2. \A c \in Accounts : balance'[tok][c] = IF c = Contract THEN balance[tok][c] - x
                                                 ELSE IF c = seller THEN balance[tok][c] + x
                                                 ELSE balance[tok][c]
      BY <1>0, <2>2, <2>3, <2>5, TransferFacts
    <3>3. balance[tok][Contract] \in Int /\ \A v \in Users : v \in Accounts /\ balance[tok][v] \in Int
      BY <1>0, <2>3
    <3>4. QED
      BY <1>0, <2>2, <3>1, <3>2, <3>3
  <2>7. bought \in [Users -> Int] /\ sold \in [Users -> Int]
    BY <2>2
  <2>8. PICK held \in Int : held = -x
    BY <2>2
  <2> HIDE DEF bought, sold
  <2>9. /\ Moved(trades[t], fills[t], trades'[t], fills'[t], held, bought, sold)
        /\ balance'[trades[t].token][Contract] = balance[trades[t].token][Contract] + held
        /\ UNCHANGED recovered /\ OthersKept(t) /\ trades[t].token \in Tokens
    BY <2>1, <2>3, <2>4, <2>5, <2>6, <2>8
  <2>10. /\ \A k \in Tokens : k # trades[t].token => balance'[k] = balance[k]
         /\ \A v \in Users : balance'[trades[t].token][v] =
                                balance[trades[t].token][v] - bought[v] + sold[v]
    BY <2>6
  <2>11. QED
    BY <1>0, <2>7, <2>9, <2>10, MoneyMoves
<1>8. ASSUME NEW u \in Users, NEW t \in TradeIds, CancelAndRefund(u, t)
      PROVE  MoneyInv'
  <2> DEFINE tok == trades[t].token
             refunds == Refunds(u, t)
             x == SumFills(t, refunds)
             bought == [v \in Users |-> -SumOf(fills[t], {i \in refunds : fills[t][i].buyer = v})]
             sold == [v \in Users |-> 0]
  <2>1. /\ OthersKept(t) /\ SameTerms(t)
        /\ refunds \subseteq ActiveFills(t)
        /\ Len(fills'[t]) = Len(fills[t])
        /\ \A i \in 1..Len(fills[t]) : fills'[t][i] =
             IF i \in refunds THEN [fills[t][i] EXCEPT !.refunded = TRUE] ELSE fills[t][i]
    BY <1>0, <1>8, CancelFacts
  <2>2. \A i \in refunds : i \in 1..Len(fills[t]) /\ Active(fills[t][i])
    BY <2>1 DEF ActiveFills
  <2>3. /\ trades[t] # NoTrade /\ trades'[t] # NoTrade /\ tok \in Tokens
        /\ trades'[t].token = trades[t].token /\ trades'[t].seller = trades[t].seller
    BY <1>3, <2>1 DEF SameTerms
  <2>4. x = SumOf(fills[t], refunds) /\ x \in Int /\ -x \in Int
        /\ \A v : Owed(u, t, v) = SumOf(fills[t], {i \in refunds : fills[t][i].buyer = v})
    <3>1. x = SumOf(fills[t], refunds)
      BY DEF SumFills, SumOf
    <3>2. \A v : Owed(u, t, v) = SumOf(fills[t], {i \in refunds : fills[t][i].buyer = v})
      BY DEF Owed, SumFills, SumOf
    <3>3. SumOf(fills[t], refunds) \in Int
      BY <1>0, SumOfType
    <3> HIDE DEF refunds, x
    <3>4. QED
      BY <3>1, <3>2, <3>3
  <2>5. balance' = [balance EXCEPT ![tok] =
                      [a \in Accounts |-> IF a = Contract THEN balance[tok][a] - x
                                          ELSE balance[tok][a] + Owed(u, t, a)]]
        /\ UNCHANGED recovered
    BY <1>8 DEF CancelAndRefund, events
  <2> HIDE DEF refunds, x
  <2>6. Moved(trades[t], fills[t], trades'[t], fills'[t], -x, bought, sold)
    <3>0. \A v \in Users :
            /\ bought[v] = -SumOf(fills[t], {i \in refunds : fills[t][i].buyer = v})
            /\ sold[v] = 0
      OBVIOUS
    <3> HIDE DEF bought, sold
    <3>1. Moved(trades[t], fills[t], trades'[t], fills'[t], -SumOf(fills[t], refunds), bought, sold)
      BY <1>0, <2>1, <2>2, <2>3, <3>0, MoneyRefund
    <3>2. QED
      BY <2>4, <3>1
  <2>7. \A v : SumOf(fills[t], {i \in refunds : fills[t][i].buyer = v}) \in Int
    BY <1>0, SumOfType
  <2>8. /\ \A k \in Tokens : k # tok => balance'[k] = balance[k]
        /\ balance'[tok][Contract] = balance[tok][Contract] + (-x)
        /\ \A v \in Users : balance'[tok][v] = balance[tok][v] - bought[v] + sold[v]
    <3> HIDE DEF tok
    <3>1. /\ \A k \in Tokens : k # tok => balance'[k] = balance[k]
          /\ \A c \in Accounts : balance'[tok][c] = IF c = Contract THEN balance[tok][c] - x
                                                    ELSE balance[tok][c] + Owed(u, t, c)
      BY <1>0, <2>3, <2>5 DEF TypeOK
    <3>2. balance[tok][Contract] \in Int /\ \A v \in Users : v \in Accounts /\ balance[tok][v] \in Int
      BY <1>0, <2>3
    <3>3. ASSUME NEW v \in Users
          PROVE  balance'[tok][v] = balance[tok][v] - bought[v] + sold[v]
      <4>1. balance'[tok][v] = balance[tok][v] + Owed(u, t, v) /\ Owed(u, t, v) \in Int
        BY <1>0, <2>4, <2>7, <3>1
      <4>2. bought[v] = -Owed(u, t, v) /\ sold[v] = 0
        BY <2>4
      <4> HIDE DEF bought, sold
      <4>3. QED
        BY <3>2, <4>1, <4>2
    <3>4. QED
      BY <1>0, <2>4, <3>1, <3>2, <3>3
  <2>9. bought \in [Users -> Int] /\ sold \in [Users -> Int]
    BY <2>7
  <2>10. PICK held \in Int : held = -x
    BY <2>4
  <2> HIDE DEF bought, sold
  <2>11. /\ Moved(trades[t], fills[t], trades'[t], fills'[t], held, bought, sold)
         /\ balance'[trades[t].token][Contract] = balance[trades[t].token][Contract] + held
         /\ UNCHANGED recovered /\ OthersKept(t) /\ trades[t].token \in Tokens
    BY <2>1, <2>3, <2>5, <2>6, <2>8, <2>10
  <2>12. /\ \A k \in Tokens : k # trades[t].token => balance'[k] = balance[k]
         /\ \A v \in Users : balance'[trades[t].token][v] =
                                balance[trades[t].token][v] - bought[v] + sold[v]
    BY <2>8
  <2>13. QED
    BY <1>0, <2>9, <2>11, <2>12, MoneyMoves
<1>9. ASSUME NEW t \in TradeIds, CloseExpiredListing(t)
      PROVE  MoneyInv'
  <2>1. /\ OthersKept(t) /\ trades[t] \in TradeOffer /\ trades[t].status = "Open"
        /\ trades'[t] = NoTrade
    BY <1>0, <1>9, CloseFacts
  <2>2. KeptFills(t) = {}
    BY <1>0, <2>1, OfferExists, NothingKept DEF IInv, StatusMatchesFills, FilledIsSumOfKeptFills
  <2>3. \A i \in 1..Len(fills[t]) : fills[t][i].refunded /\ ~fills[t][i].released
    BY <2>2 DEF KeptFills, OneFillEach
  <2>4. /\ \A h : HeldIn(h, trades[t], fills[t]) = 0
        /\ \A v, h : BoughtIn(v, h, trades[t], fills[t]) = 0 /\ SoldIn(v, h, trades[t], fills[t]) = 0
    BY <1>0, <2>3, MoneyNone
  <2>5. /\ \A h : HeldIn(h, trades'[t], fills'[t]) = 0
        /\ \A v, h : BoughtIn(v, h, trades'[t], fills'[t]) = 0 /\ SoldIn(v, h, trades'[t], fills'[t]) = 0
    BY <1>0, <2>1, MoneyNone
  <2>6. UNCHANGED <<balance, recovered>>
    BY <1>9 DEF CloseExpiredListing, events
  <2>7. QED
    BY <1>4, <2>1, <2>4, <2>5, <2>6
<1>10. ASSUME NEW u \in Users, NEW t \in TradeIds, FlagDispute(u, t)
       PROVE  MoneyInv'
  <2>1. OthersKept(t) /\ SameTerms(t) /\ fills'[t] = fills[t]
    BY <1>0, <1>10, FlagFacts
  <2>2. trades[t] # NoTrade /\ trades'[t] # NoTrade
        /\ trades'[t].token = trades[t].token /\ trades'[t].seller = trades[t].seller
    BY <1>3, <2>1 DEF SameTerms
  <2>3. /\ \A k : HeldIn(k, trades'[t], fills'[t]) = HeldIn(k, trades[t], fills[t])
        /\ \A v, k : BoughtIn(v, k, trades'[t], fills'[t]) = BoughtIn(v, k, trades[t], fills[t])
        /\ \A v, k : SoldIn(v, k, trades'[t], fills'[t]) = SoldIn(v, k, trades[t], fills[t])
    BY <2>1, <2>2 DEF HeldIn, BoughtIn, SoldIn, SoldOf
  <2>4. UNCHANGED <<balance, recovered>>
    BY <1>10 DEF FlagDispute
  <2>5. QED
    BY <1>4, <2>1, <2>3, <2>4
<1>11. ASSUME NEW k \in Tokens, NEW u \in Recipients, NEW x \in Amounts,
              EmergencyWithdraw(k, u, x)
       PROVE  MoneyInv'
  <2>1. UNCHANGED <<trades, fills>> /\ balance' = Transferred(k, Contract, u, x)
        /\ recovered' = [recovered EXCEPT ![k] = @ + x]
    BY <1>11 DEF EmergencyWithdraw
  <2>2. x \in Int /\ u \in Users
    OBVIOUS
  <2>3. \A h \in Tokens, c \in Accounts :
          balance'[h][c] = IF h # k THEN balance[h][c]
                           ELSE IF c = Contract THEN balance[h][c] - x
                           ELSE IF c = u THEN balance[h][c] + x
                           ELSE balance[h][c]
    BY <1>0, <2>1, <2>2, TransferFacts
  <2>4. ASSUME NEW h \in Tokens
        PROVE  balance'[h][Contract] =
                 SumUpTo([t \in TradeIds |-> HeldIn(h, trades[t], fills[t])], MaxTrades) - recovered'[h]
    <3> DEFINE sum == SumUpTo([t \in TradeIds |-> HeldIn(h, trades[t], fills[t])], MaxTrades)
    <3>1. sum \in Int
      <4> DEFINE v == [t \in TradeIds |-> HeldIn(h, trades[t], fills[t])]
      <4>1. \A t \in 1..MaxTrades : v[t] \in Int
        BY <1>2 DEF TradeIds
      <4> HIDE DEF v
      <4>2. SumUpTo(v, MaxTrades) \in Int
        BY <4>1, SumType
      <4>3. QED
        BY <4>2 DEF v
    <3>2. balance[h][Contract] = sum - recovered[h]
      BY DEF MoneyInv
    <3>3. recovered[h] \in Int /\ recovered'[h] = IF h = k THEN recovered[h] + x ELSE recovered[h]
      BY <1>0, <2>1 DEF TypeOK
    <3> HIDE DEF sum
    <3>4. balance'[h][Contract] = sum - recovered'[h]
      BY <1>0, <2>2, <2>3, <3>1, <3>2, <3>3
    <3>5. QED
      BY <3>4 DEF sum
  <2>5. \A h \in Tokens, v \in Users \ Recipients : balance'[h][v] = balance[h][v]
    BY <1>0, <2>3
  <2>6. QED
    BY <2>1, <2>4, <2>5 DEF MoneyInv
<1>12. QED
  BY <1>1, <1>5, <1>6, <1>7, <1>8, <1>9, <1>10, <1>11, StepCases

LEMMA MoneyInit == Init => MoneyInv
<1> SUFFICES ASSUME Init PROVE MoneyInv
  OBVIOUS
<1> USE RoleAssumption, NumberAssumption DEF RoleAssumption, NumberAssumption
<1>1. \A t \in TradeIds : trades[t] = NoTrade
  BY DEF Init
<1>2. \A k, u : \A t \in TradeIds : /\ HeldIn(k, trades[t], fills[t]) = 0
                                    /\ BoughtIn(u, k, trades[t], fills[t]) = 0
                                    /\ SoldIn(u, k, trades[t], fills[t]) = 0
  BY <1>1 DEF HeldIn, BoughtIn, SoldIn
<1>3. SumUpTo([t \in TradeIds |-> 0], MaxTrades) = 0
  <2> DEFINE z == [t \in TradeIds |-> 0]
  <2>1. \A t \in 1..MaxTrades : z[t] = 0
    BY DEF TradeIds
  <2> HIDE DEF z
  <2>2. SumUpTo(z, MaxTrades) = 0
    BY <2>1, SumNone
  <2>3. QED
    BY <2>2 DEF z
<1>4. \A k, u : /\ SumUpTo([t \in TradeIds |-> HeldIn(k, trades[t], fills[t])], MaxTrades) = 0
                /\ SumUpTo([t \in TradeIds |-> BoughtIn(u, k, trades[t], fills[t])], MaxTrades) = 0
                /\ SumUpTo([t \in TradeIds |-> SoldIn(u, k, trades[t], fills[t])], MaxTrades) = 0
  <2> SUFFICES ASSUME NEW k, NEW u
               PROVE  /\ [t \in TradeIds |-> HeldIn(k, trades[t], fills[t])] = [t \in TradeIds |-> 0]
                      /\ [t \in TradeIds |-> BoughtIn(u, k, trades[t], fills[t])] = [t \in TradeIds |-> 0]
                      /\ [t \in TradeIds |-> SoldIn(u, k, trades[t], fills[t])] = [t \in TradeIds |-> 0]
    BY <1>3
  <2>1. QED
    BY <1>2
<1>5. \A k \in Tokens : balance[k][Contract] = 0 /\ recovered[k] = 0
                        /\ \A u \in Users : balance[k][u] = Endowment
  BY DEF Init, Accounts
<1>6. QED
  BY <1>4, <1>5 DEF MoneyInv

LEMMA MoneyAlways == Spec => []MoneyInv
<1> DEFINE Inv == IInv /\ \A t \in TradeIds : OneFillEach(t)
<1>1. Init => MoneyInv
  BY MoneyInit
<1>2. Inv /\ IInv' /\ MoneyInv /\ [Next]_vars => MoneyInv'
  BY MoneyNext DEF IInv
<1>3. Spec => []Inv
  BY OneFillEachAlways
<1>4. Spec => []IInv
  BY Inductive
<1>5. QED
  <2> HIDE DEF Inv
  <2>1. QED
    BY <1>1, <1>2, <1>3, <1>4, PTL DEF Spec

\* Solvency: for each token the contract holds what its active sub-escrows are
\* owed, less what emergency_withdraw took out.
THEOREM AlwaysSolvent == Spec => []Solvent
<1>1. MoneyInv => Solvent
  BY MoneyInvIsSolvent
<1>2. QED
  BY <1>1, MoneyAlways, PTL

\* Each party has what the sub-escrows say, and nobody else gains or loses.
THEOREM PartiesWhole == Spec => []PartiesMadeWhole
<1>1. MoneyInv => PartiesMadeWhole
  BY MoneyInvIsSolvent
<1>2. QED
  BY <1>1, MoneyAlways, PTL

\* Both: every token the contract holds is some active sub-escrow's, and every
\* party's balance is what the sub-escrows say.
THEOREM MoneyAccounted == Spec => []MoneyIsAccountedFor
BY AlwaysSolvent, PartiesWhole, PTL DEF MoneyIsAccountedFor

-----------------------------------------------------------------------------
(* What the steps keep, for a specification of which Escrow is a part.     *)

Kept == IInv /\ MoneyInv /\ \A t \in TradeIds : OneFillEach(t)

LEMMA KeptInit == Init => Kept
<1>1. Init => IInv
  BY IInvInit
<1>2. Init => MoneyInv
  BY MoneyInit
<1>3. Init => \A t \in TradeIds : OneFillEach(t)
  BY OneFillEachInit
<1>4. QED
  BY <1>1, <1>2, <1>3 DEF Kept

LEMMA KeptNext == Kept /\ [Next]_vars => Kept'
<1> SUFFICES ASSUME Kept, [Next]_vars PROVE Kept'
  OBVIOUS
<1>1. IInv /\ MoneyInv /\ \A t \in TradeIds : OneFillEach(t)
  BY DEF Kept
<1>2. IInv'
  BY <1>1, IInvNext
<1>3. TypeOK'
  BY <1>2 DEF IInv
<1>4. MoneyInv'
  BY <1>1, <1>3, MoneyNext
<1>5. \A t \in TradeIds : OneFillEach(t)'
  BY <1>1, OneFillEachNext
<1>6. QED
  BY <1>2, <1>4, <1>5 DEF Kept, TradeIds

LEMMA KeptIsSafe == Kept => MoneyIsAccountedFor
BY MoneyInvIsSolvent DEF Kept, MoneyIsAccountedFor

LEMMA KeptVault ==
  Kept /\ Kept' /\ [Next]_vars => Vault!VaultNext \/ UNCHANGED Vault!vaultVars
<1>1. Kept => IInv
  BY DEF Kept
<1>2. Kept' => IInv'
  BY DEF Kept
<1>3. QED
  BY <1>1, <1>2, VaultStep

=============================================================================
