---------------------------- MODULE ReportsProofs ----------------------------
(***************************************************************************)
(* Proofs about the ledger and the migrations of MCServices, for any       *)
(* values of its constants.  A behaviour of MCServices is one of one       *)
(* component's, and so each component has an inductive invariant of its    *)
(* own, IInv in its module; the last section puts them together.           *)
(***************************************************************************)
EXTENDS MCServices, SumsTheorems, FiniteSetTheorems, FunctionTheorems, TLAPS

-----------------------------------------------------------------------------
(* The ledger.                                                             *)

\* The instance's finite sets are those of the library.
LEMMA LedgerSets ==
  \A S : (G!IsFiniteSet(S) <=> IsFiniteSet(S)) /\ G!Cardinality(S) = Cardinality(S)
BY DEF G!IsFiniteSet, G!Cardinality, IsFiniteSet, Cardinality

\* The sum over a finite set of rows: nothing for none, and for some a row and the rest.
LEMMA TotalDef ==
  ASSUME NEW S, IsFiniteSet(S), \A e \in S : e.amount \in Nat
  PROVE  \E q \in [SUBSET S -> Nat] :
           /\ G!Total(S) = q[S]
           /\ q[{}] = 0
           /\ \A T \in SUBSET S : T # {} => \E e \in T : q[T] = e.amount + q[T \ {e}]
<1> DEFINE pick(T) == CHOOSE e \in T : TRUE
           Def(q) == q = [T \in SUBSET S |-> IF T = {} THEN 0
                                             ELSE pick(T).amount + q[T \ {pick(T)}]]
           n == Cardinality(S)
           Upto(k) == {q \in [SUBSET S -> Nat] : \A T \in SUBSET S :
                          Cardinality(T) <= k =>
                            q[T] = IF T = {} THEN 0 ELSE pick(T).amount + q[T \ {pick(T)}]}
           sizes == {k \in 0..n : Upto(k) # {}}
<1>1. n \in Nat /\ \A T \in SUBSET S : IsFiniteSet(T) /\ Cardinality(T) \in 0..n
  <2>1. n \in Nat
    BY FS_CardinalityType
  <2>2. \A T \in SUBSET S : IsFiniteSet(T) /\ Cardinality(T) <= n
    BY FS_Subset
  <2>3. \A T \in SUBSET S : Cardinality(T) \in Nat
    BY <2>2, FS_CardinalityType
  <2>4. QED
    BY <2>1, <2>2, <2>3
<1>2. \A T \in SUBSET S : T # {} => /\ pick(T) \in T /\ pick(T).amount \in Nat
                                     /\ T \ {pick(T)} \in SUBSET S
                                     /\ Cardinality(T \ {pick(T)}) = Cardinality(T) - 1
  <2>1. \A T \in SUBSET S : T # {} => pick(T) \in T
    OBVIOUS
  <2> HIDE DEF pick
  <2>2. \A T \in SUBSET S : T # {} => Cardinality(T \ {pick(T)}) = Cardinality(T) - 1
    BY <1>1, <2>1, FS_RemoveElement
  <2>3. QED
    BY <2>1, <2>2
<1> HIDE DEF pick, n
<1>3. 0 \in sizes
  <2>1. \A T \in SUBSET S : Cardinality(T) <= 0 => T = {}
    BY <1>1, FS_EmptySet
  <2>2. [T \in SUBSET S |-> 0] \in Upto(0)
    BY <2>1
  <2> HIDE DEF Upto
  <2>3. QED
    BY <1>1, <2>2
<1>4. ASSUME NEW k \in 1..n, k - 1 \in sizes PROVE k \in sizes
  <2>1. PICK q \in Upto(k - 1) : TRUE
    BY <1>4
  <2> DEFINE r == [T \in SUBSET S |-> IF T = {} THEN 0 ELSE IF Cardinality(T) <= k - 1 THEN q[T] ELSE pick(T).amount + q[T \ {pick(T)}]]
  <2>2. r \in [SUBSET S -> Nat]
    BY <1>2
  <2>3. ASSUME NEW T \in SUBSET S, Cardinality(T) <= k, T # {}
        PROVE  r[T] = pick(T).amount + r[T \ {pick(T)}]
    <3> DEFINE U == T \ {pick(T)}
    <3>1. U \in SUBSET S /\ Cardinality(U) = Cardinality(T) - 1 /\ Cardinality(T) \in Nat
      BY <1>1, <1>2, <2>3
    <3>2. r[U] = q[U]
      <4>1. Cardinality(U) <= k - 1
        BY <1>1, <3>1, <2>3
      <4>2. CASE U = {}
        BY <4>1, <4>2, <2>1, <3>1
      <4>3. CASE U # {}
        BY <4>1, <4>3, <3>1
      <4>4. QED
        BY <4>2, <4>3
    <3>3. CASE Cardinality(T) <= k - 1
      <4>1. q[T] = pick(T).amount + q[U]
        BY <2>1, <2>3, <3>3
      <4>2. QED
        BY <2>3, <3>2, <3>3, <4>1
    <3>4. CASE ~(Cardinality(T) <= k - 1)
      BY <2>3, <3>2, <3>4
    <3>5. QED
      BY <3>3, <3>4
  <2>4. r[{}] = 0
    OBVIOUS
  <2> HIDE DEF r
  <2>5. r \in Upto(k)
    BY <2>2, <2>3, <2>4
  <2> HIDE DEF Upto
  <2>6. QED
    BY <1>1, <2>5
<1>5. \E q : q \in [SUBSET S -> Nat] /\ Def(q)
  <2>1. n \in sizes
    <3> HIDE DEF sizes
    <3>1. \A k \in 0..n : k \in sizes
      BY <1>1, <1>3, <1>4, IntervalInduction
    <3>2. QED
      BY <1>1, <3>1
  <2>2. PICK q \in Upto(n) : TRUE
    BY <2>1
  <2>3. q \in [SUBSET S -> Nat] /\ \A T \in SUBSET S :
          q[T] = IF T = {} THEN 0 ELSE pick(T).amount + q[T \ {pick(T)}]
    <3>1. q \in [SUBSET S -> Nat]
      BY <2>2
    <3>2. SUFFICES ASSUME NEW T \in SUBSET S
                   PROVE q[T] = IF T = {} THEN 0 ELSE pick(T).amount + q[T \ {pick(T)}]
      BY <3>1
    <3>3. Cardinality(T) <= n
      BY <1>1
    <3>4. QED
      BY <2>2, <3>3
  <2>4. q = [T \in SUBSET S |-> q[T]]
    BY <2>3
  <2>5. Def(q)
    BY <2>3, <2>4
  <2>6. QED
    BY <2>3, <2>5
<1> DEFINE p == CHOOSE q : Def(q)
<1>6. G!Total(S) = p[S]
  BY DEF G!Total, G!MapThenSumSet, G!MapThenFoldSet, pick
<1>7. Def(p)
  BY <1>5
<1> HIDE DEF p
<1>8. /\ p[{}] = 0
      /\ \A T \in SUBSET S : T # {} => pick(T) \in T /\ p[T] = pick(T).amount + p[T \ {pick(T)}]
      /\ p = [T \in SUBSET S |-> p[T]]
  <2>1. /\ \A T \in SUBSET S : p[T] = IF T = {} THEN 0 ELSE pick(T).amount + p[T \ {pick(T)}]
        /\ p = [T \in SUBSET S |-> p[T]]
    BY <1>7
  <2>2. QED
    BY <1>2, <2>1
<1>9. SUBSET S \subseteq {T \in SUBSET S : p[T] \in Nat}
  <2> DEFINE typed == {k \in 0..n : \A T \in SUBSET S : Cardinality(T) = k => p[T] \in Nat}
  <2>1. 0 \in typed
    <3>1. \A T \in SUBSET S : Cardinality(T) = 0 => T = {}
      BY <1>1, FS_EmptySet
    <3>2. ASSUME NEW T \in SUBSET S, Cardinality(T) = 0 PROVE p[T] \in Nat
      <4>1. T = {}
        BY <3>1, <3>2
      <4>2. p[T] = 0
        BY <1>8, <4>1
      <4>3. QED
        BY <4>2
    <3>3. QED
      BY <1>1, <3>2
  <2>2. ASSUME NEW k \in 1..n, k - 1 \in typed PROVE k \in typed
    <3>1. SUFFICES ASSUME NEW T \in SUBSET S, Cardinality(T) = k PROVE p[T] \in Nat
      OBVIOUS
    <3>2. T # {}
      BY <1>1, <3>1, FS_EmptySet
    <3>3. Cardinality(T \ {pick(T)}) = k - 1 /\ T \ {pick(T)} \in SUBSET S /\ pick(T).amount \in Nat
      BY <1>2, <3>1, <3>2
    <3>4. p[T \ {pick(T)}] \in Nat
      BY <2>2, <3>3
    <3>5. p[T] = pick(T).amount + p[T \ {pick(T)}]
      BY <1>8, <3>2
    <3>6. QED
      BY <3>3, <3>4, <3>5
  <2> HIDE DEF typed
  <2>3. \A k \in 0..n : k \in typed
    BY <1>1, <2>1, <2>2, IntervalInduction
  <2>4. QED
    BY <1>1, <2>3 DEF typed
<1>10. p \in [SUBSET S -> Nat]
  BY <1>8, <1>9
<1>11. QED
  BY <1>6, <1>8, <1>10

\* One row adds up to its amount.
LEMMA TotalOfOne ==
  ASSUME NEW e, e.amount \in Nat
  PROVE  G!Total({e}) = e.amount
<1>1. IsFiniteSet({e})
  BY FS_Singleton
<1>2. PICK q \in [SUBSET {e} -> Nat] :
           /\ G!Total({e}) = q[{e}]
           /\ q[{}] = 0
           /\ \A T \in SUBSET {e} : T # {} => \E x \in T : q[T] = x.amount + q[T \ {x}]
  BY <1>1, TotalDef
<1>3. PICK x \in {e} : q[{e}] = x.amount + q[{e} \ {x}]
  BY <1>2
<1>4. x = e /\ {e} \ {x} = {}
  OBVIOUS
<1>5. q[{e} \ {x}] = 0
  BY <1>2, <1>4
<1>6. QED
  BY <1>2, <1>3, <1>4, <1>5

\* Two rows add up to both amounts.
LEMMA TotalOfTwo ==
  ASSUME NEW e, NEW f, e # f, e.amount \in Nat, f.amount \in Nat
  PROVE  G!Total({e, f}) = e.amount + f.amount
<1> DEFINE S == {e, f}
<1>1. IsFiniteSet(S)
  <2>1. IsFiniteSet({e} \cup {f})
    BY FS_Singleton, FS_AddElement
  <2>2. {e} \cup {f} = S
    OBVIOUS
  <2>3. QED
    BY <2>1, <2>2
<1>2. PICK q \in [SUBSET S -> Nat] :
           /\ G!Total(S) = q[S]
           /\ q[{}] = 0
           /\ \A T \in SUBSET S : T # {} => \E x \in T : q[T] = x.amount + q[T \ {x}]
  BY <1>1, TotalDef
<1>3. PICK x \in S : q[S] = x.amount + q[S \ {x}]
  BY <1>2
<1>4. ASSUME NEW y \in S PROVE q[{y}] = y.amount
  <2>1. PICK z \in {y} : q[{y}] = z.amount + q[{y} \ {z}]
    BY <1>2
  <2>2. z = y /\ {y} \ {z} = {}
    OBVIOUS
  <2>3. q[{y} \ {z}] = 0
    BY <1>2, <2>2
  <2>4. y.amount \in Nat
    OBVIOUS
  <2>5. QED
    BY <2>1, <2>2, <2>3, <2>4
<1>5. CASE x = e
  <2>1. S \ {x} = {f}
    BY <1>5
  <2>2. q[S \ {x}] = f.amount
    BY <1>4, <2>1
  <2>3. q[S] = e.amount + f.amount
    BY <1>3, <1>5, <2>2
  <2>4. QED
    BY <1>2, <2>3
<1>6. CASE x = f
  <2>1. S \ {x} = {e}
    BY <1>6
  <2>2. q[S \ {x}] = e.amount
    BY <1>4, <2>1
  <2>3. q[S] = f.amount + e.amount
    BY <1>3, <1>6, <2>2
  <2>4. QED
    BY <1>2, <2>3
<1>7. QED
  BY <1>5, <1>6

\* Rows that are all of one amount add up to that amount, times how many they are.
LEMMA TotalOfEqual ==
  ASSUME NEW S, IsFiniteSet(S), NEW a \in Nat, \A e \in S : e.amount = a
  PROVE  G!Total(S) = Cardinality(S) * a
<1>1. PICK q \in [SUBSET S -> Nat] :
           /\ G!Total(S) = q[S]
           /\ q[{}] = 0
           /\ \A T \in SUBSET S : T # {} => \E x \in T : q[T] = x.amount + q[T \ {x}]
  <2>1. \A e \in S : e.amount \in Nat
    OBVIOUS
  <2>2. QED
    BY <2>1, TotalDef
<1> DEFINE n == Cardinality(S)
           sizes == {k \in 0..n : \A T \in SUBSET S : Cardinality(T) = k => q[T] = k * a}
<1>2. n \in Nat /\ \A T \in SUBSET S : IsFiniteSet(T)
  BY FS_CardinalityType, FS_Subset
<1>3. 0 \in sizes
  <2>1. \A T \in SUBSET S : Cardinality(T) = 0 => T = {}
    BY <1>2, FS_EmptySet
  <2>2. ASSUME NEW T \in SUBSET S, Cardinality(T) = 0 PROVE q[T] = 0 * a
    <3>1. T = {}
      BY <2>1, <2>2
    <3>2. q[T] = 0
      BY <1>1, <3>1
    <3>3. QED
      BY <3>2
  <2>3. QED
    BY <1>2, <2>2
<1>4. ASSUME NEW k \in 1..n, k - 1 \in sizes PROVE k \in sizes
  <2>1. SUFFICES ASSUME NEW T \in SUBSET S, Cardinality(T) = k PROVE q[T] = k * a
    OBVIOUS
  <2>2. T # {}
    BY <1>2, <2>1, FS_EmptySet
  <2>3. PICK x \in T : q[T] = x.amount + q[T \ {x}]
    BY <1>1, <2>2
  <2>4. Cardinality(T \ {x}) = k - 1 /\ T \ {x} \in SUBSET S
    BY <1>2, <2>1, FS_RemoveElement
  <2>5. q[T \ {x}] = (k - 1) * a
    BY <1>4, <2>4
  <2>6. x.amount = a
    OBVIOUS
  <2>7. q[T] = a + (k - 1) * a
    BY <2>3, <2>5, <2>6
  <2>8. a + (k - 1) * a = k * a
    BY <1>2
  <2>9. QED
    BY <2>7, <2>8
<1> HIDE DEF sizes
<1>5. \A k \in 0..n : k \in sizes
  BY <1>2, <1>3, <1>4, IntervalInduction
<1>6. QED
  BY <1>1, <1>2, <1>5 DEF sizes

\* The fee is a part of the amount: what is paid out and the fee are the amount.
LEMMA FeeBounds ==
  ASSUME FeeRate \in 0..10000, NEW a \in Nat
  PROVE  G!Fee(a) \in 0..a
<1> DEFINE m == a * FeeRate
<1>1. m \in Nat /\ m <= a * 10000
  BY SMT
<1> HIDE DEF m
<1>2. (m + 5000) \div 10000 \in 0..a
  BY <1>1
<1>3. QED
  BY <1>2 DEF G!Fee, m

\* The three rows of a settlement are rows, and different ones.
LEMMA PostedRows ==
  ASSUME G!Parameters, NEW r \in Runs
  PROVE  /\ G!Posted(r) \subseteq G!Entry
         /\ \A e \in G!Posted(r) : e.by = r /\ e.kind # "referral_reward" /\ e.amount \in Nat
         /\ G!Posted(r) # {}
         /\ G!DebitEntry(r) \in G!Posted(r)
         /\ \E e \in G!Posted(r) : e.kind = "trade_settlement" /\ e.user = SellerOf[TradeOf[r]]
         /\ \A e \in G!Posted(r) : e.kind = "debit" => e = G!DebitEntry(r)
         /\ G!Total(G!OfKind(G!Posted(r), "debit")) = G!Total(G!Posted(r) \ G!OfKind(G!Posted(r), "debit"))
<1> DEFINE t == TradeOf[r]
           fee == G!Fee(AmountOf[t])
           d == G!DebitEntry(r)
           s == G!CreditEntry(r, "trade_settlement", SellerOf[t], SellerOf[t], AmountOf[t] - fee)
           p == G!CreditEntry(r, "platform_fee", SellerOf[t], Treasury, fee)
<1>1. t \in Trades /\ BuyerOf[t] \in Users /\ SellerOf[t] \in Users /\ AmountOf[t] \in Nat
  BY DEF G!Parameters
<1>2. fee \in 0..AmountOf[t]
  BY <1>1, FeeBounds DEF G!Parameters
<1>3. G!Posted(r) = {d, s, p}
  BY DEF G!Posted
<1> HIDE DEF t, fee
<1>4. /\ d \in G!Entry /\ d.by = r /\ d.kind = "debit" /\ d.amount = AmountOf[t]
      /\ s \in G!Entry /\ s.by = r /\ s.kind = "trade_settlement" /\ s.amount = AmountOf[t] - fee
      /\ p \in G!Entry /\ p.by = r /\ p.kind = "platform_fee" /\ p.amount = fee
      /\ s.user = SellerOf[t]
  BY <1>1, <1>2 DEF G!Entry, G!Kinds, G!DebitEntry, G!CreditEntry, t
<1> HIDE DEF d, s, p
<1>6. G!OfKind(G!Posted(r), "debit") = {d} /\ G!Posted(r) \ G!OfKind(G!Posted(r), "debit") = {s, p}
  BY <1>3, <1>4 DEF G!OfKind
<1>7. G!Total({d}) = AmountOf[t] /\ G!Total({s, p}) = AmountOf[t]
  <2>1. s # p
    BY <1>4
  <2>2. d.amount \in Nat /\ s.amount \in Nat /\ p.amount \in Nat
    BY <1>1, <1>2, <1>4
  <2>3. G!Total({d}) = d.amount /\ G!Total({s, p}) = s.amount + p.amount
    BY <2>1, <2>2, TotalOfOne, TotalOfTwo
  <2>4. QED
    BY <1>1, <1>2, <1>4, <2>3
<1>8. d = G!DebitEntry(r)
  BY DEF d
<1>9. /\ G!Posted(r) \subseteq G!Entry /\ G!Posted(r) # {} /\ d \in G!Posted(r) /\ s \in G!Posted(r)
      /\ \A e \in G!Posted(r) : e.by = r /\ e.kind # "referral_reward"
      /\ \A e \in G!Posted(r) : e.kind = "debit" => e = d
  BY <1>3, <1>4
<1>10. \A e \in G!Posted(r) : e.amount \in Nat
  BY <1>9 DEF G!Entry
<1>11. \E e \in G!Posted(r) : e.kind = "trade_settlement" /\ e.user = SellerOf[TradeOf[r]]
  BY <1>4, <1>9 DEF t
<1>12. QED
  BY <1>6, <1>7, <1>8, <1>9, <1>10, <1>11

\* Ledger: the empty tables are sound.
LEMMA LedgerInit == G!Parameters /\ G!Init => G!IInv
<1>1. SUFFICES ASSUME G!Parameters, G!Init PROVE G!IInv
  OBVIOUS
<1>2. /\ G!Tables.offers = offers /\ G!Tables.ledger = ledger /\ G!Tables.referrals = referrals
  BY DEF G!Tables
<1>3. G!TypedTables(G!Tables)
  BY <1>1, <1>2 DEF G!TypedTables, G!Init, G!Parameters
<1>4. tx \in [Runs -> G!TxRow] /\ faults \in 0..LedgerFaults
  BY <1>1 DEF G!Init, G!Parameters, G!TxRow, G!NoWrites, G!Steps
<1>5. G!WholeTables(G!Tables)
  BY <1>1, <1>2 DEF G!WholeTables, G!Init, G!TradeRows, G!RewardRows
<1>6. G!TransactionsAreWhole
  BY <1>1 DEF G!TransactionsAreWhole, G!TransactionIsWhole, G!Init, G!InTransaction, G!NoWrites
<1>7. G!ReportIsOfSnapshot /\ G!ExportsAreSnapshots
  BY <1>1 DEF G!ReportIsOfSnapshot, G!ExportsAreSnapshots, G!Init, G!NoReport
<1>8. QED
  BY <1>3, <1>4, <1>5, <1>6, <1>7 DEF G!IInv

\* A step that leaves the tables as they are leaves them whole.
LEMMA TablesKept ==
  ASSUME UNCHANGED G!tables
  PROVE  /\ G!Tables' = G!Tables
         /\ G!TypedTables(G!Tables) => G!TypedTables(G!Tables)'
         /\ G!WholeTables(G!Tables) => G!WholeTables(G!Tables)'
BY DEF G!tables, G!Tables, G!TypedTables, G!WholeTables, G!TradeRows, G!RewardRows, G!RewardRow

\* A report under way stays sound while the tables only grow.
LEMMA ReportKept ==
  ASSUME UNCHANGED report, G!ReportIsOfSnapshot, G!ExportsAreSnapshots
  PROVE  G!ReportIsOfSnapshot' /\ G!ExportsAreSnapshots'
<1>1. G!TypedTables(report.snapshot) => G!TypedTables(report.snapshot)'
  BY DEF G!TypedTables
<1>2. G!WholeTables(report.snapshot) => G!WholeTables(report.snapshot)'
  BY DEF G!WholeTables, G!TradeRows, G!RewardRows, G!RewardRow
<1>3. G!ReportIsOfSnapshot'
  BY <1>1, <1>2 DEF G!ReportIsOfSnapshot
<1>4. G!ExportsAreSnapshots'
  BY DEF G!ExportsAreSnapshots, G!OfKind
<1>5. QED
  BY <1>3, <1>4

\* A transaction is whole after a step that leaves it and what it is about as they are.
LEMMA TransactionKept ==
  ASSUME NEW r \in Runs, G!TransactionIsWhole(r),
         tx'[r] = tx[r],
         G!InTransaction(r) => offers'[TradeOf[r]] = offers[TradeOf[r]],
         \A u \in tx[r].rewarded : referrals'[u] = referrals[u]
  PROVE  G!TransactionIsWhole(r)' /\ (G!InTransaction(r)' <=> G!InTransaction(r))
<1>1. G!InTransaction(r)' <=> G!InTransaction(r)
  BY DEF G!InTransaction
<1>2. CASE G!InTransaction(r)
  <2>1. G!Visited(r)' = G!Visited(r) /\ G!Posted(r)' = G!Posted(r)
    BY DEF G!Visited, G!Posted
  <2>2. \A u \in tx[r].rewarded : G!RewardRow(G!Tables, r, u)' = G!RewardRow(G!Tables, r, u)
    BY DEF G!RewardRow, G!Tables, G!CreditEntry
  <2>3. {G!RewardRow(G!Tables, r, u) : u \in tx[r].rewarded}'
          = {G!RewardRow(G!Tables, r, u) : u \in tx[r].rewarded}
    BY <2>2
  <2>4. \A u \in tx[r].rewarded : G!Due(u) => G!Due(u)'
    BY DEF G!Due
  <2>5. offers'[TradeOf[r]] = [status |-> "Locked", charged |-> FALSE]
    BY <1>2 DEF G!TransactionIsWhole
  <2>6. (tx[r].rewarded \subseteq G!Visited(r))' /\ (\A u \in tx[r].rewarded : G!Due(u))'
    BY <1>2, <2>1, <2>4 DEF G!TransactionIsWhole
  <2>7. (tx[r].entries = G!Posted(r) \cup {G!RewardRow(G!Tables, r, u) : u \in tx[r].rewarded})'
    BY <1>2, <2>1, <2>3 DEF G!TransactionIsWhole
  <2>8. QED
    BY <1>1, <1>2, <2>5, <2>6, <2>7 DEF G!TransactionIsWhole
<1>3. CASE ~G!InTransaction(r)
  BY <1>1, <1>3 DEF G!TransactionIsWhole
<1>4. QED
  BY <1>1, <1>2, <1>3

\* A run whose transaction ends has written nothing.
LEMMA TransactionEnds ==
  ASSUME G!IInv, NEW r \in Runs, NEW step \in {"ended", "escalating"}, G!Ended(r, step)
  PROVE  /\ tx' \in [Runs -> G!TxRow]
         /\ G!TransactionIsWhole(r)' /\ ~G!InTransaction(r)'
         /\ \A q \in Runs \ {r} : tx'[q] = tx[q]
<1>1. tx \in [Runs -> G!TxRow]
  BY DEF G!IInv
<1>2. tx'[r] = [step |-> step, entries |-> {}, rewarded |-> {}]
  BY <1>1 DEF G!Ended, G!NoWrites
<1>3. tx' \in [Runs -> G!TxRow] /\ \A q \in Runs \ {r} : tx'[q] = tx[q]
  BY <1>1 DEF G!Ended, G!NoWrites, G!TxRow, G!Steps
<1>4. ~G!InTransaction(r)'
  <2>1. tx'[r].step = step
    BY <1>2
  <2>2. QED
    BY <2>1 DEF G!InTransaction
<1>5. QED
  BY <1>2, <1>3, <1>4 DEF G!TransactionIsWhole

\* Those that go on when run r does not are apart as before.
LEMMA OthersApart ==
  ASSUME G!IInv, NEW r \in Runs, ~G!InTransaction(r)',
         \A q \in Runs \ {r} : tx'[q] = tx[q] /\ G!TransactionIsWhole(q)' /\ (G!InTransaction(q)' <=> G!InTransaction(q)),
         G!TransactionIsWhole(r)'
  PROVE  G!TransactionsAreWhole'
<1>1. \A q \in Runs : G!TransactionIsWhole(q)'
  OBVIOUS
<1>2. ASSUME NEW p \in Runs, NEW q \in Runs, p # q, G!InTransaction(p)', G!InTransaction(q)'
      PROVE  TradeOf[p] # TradeOf[q] /\ (tx[p].rewarded \cap tx[q].rewarded)' = {}
  <2>1. p # r /\ q # r
    BY <1>2
  <2>2. tx'[p] = tx[p] /\ tx'[q] = tx[q] /\ G!InTransaction(p) /\ G!InTransaction(q)
    BY <1>2, <2>1
  <2>3. TradeOf[p] # TradeOf[q] /\ tx[p].rewarded \cap tx[q].rewarded = {}
    BY <1>2, <2>2 DEF G!IInv, G!TransactionsAreWhole
  <2>4. QED
    BY <2>2, <2>3
<1>3. QED
  BY <1>1, <1>2 DEF G!TransactionsAreWhole

\* A transaction that ends without a commit leaves the tables as they are.
LEMMA EndsKeepTables ==
  ASSUME G!IInv, G!Parameters, NEW r \in Runs, G!Ended(r, "escalating"), UNCHANGED <<G!tables, report>>,
         faults' \in 0..LedgerFaults
  PROVE  G!IInv'
<1>1. /\ tx' \in [Runs -> G!TxRow]
      /\ G!TransactionIsWhole(r)' /\ ~G!InTransaction(r)'
      /\ \A q \in Runs \ {r} : tx'[q] = tx[q]
  BY TransactionEnds
<1>2. ASSUME NEW q \in Runs \ {r} PROVE G!TransactionIsWhole(q)' /\ (G!InTransaction(q)' <=> G!InTransaction(q))
  <2>1. G!TransactionIsWhole(q)
    BY DEF G!IInv, G!TransactionsAreWhole
  <2>2. QED
    BY <1>1, <2>1, TransactionKept DEF G!tables
<1>3. G!TransactionsAreWhole'
  BY <1>1, <1>2, OthersApart
<1>4. G!TypedTables(G!Tables)' /\ G!WholeTables(G!Tables)'
  BY TablesKept DEF G!IInv
<1>5. G!ReportIsOfSnapshot' /\ G!ExportsAreSnapshots'
  BY ReportKept DEF G!IInv
<1>6. QED
  BY <1>1, <1>3, <1>4, <1>5 DEF G!IInv

\* A settlement that fails rolls back.
LEMMA SettlementFailsKeeps ==
  ASSUME G!IInv, G!Parameters, NEW r \in Runs, G!SettlementFails(r) PROVE G!IInv'
<1>1. faults' \in 0..LedgerFaults
  BY DEF G!IInv, G!SettlementFails, G!Fault, G!Parameters
<1>2. QED
  BY <1>1, EndsKeepTables DEF G!SettlementFails

\* A deadlock that is broken rolls one transaction back.
LEMMA EndDeadlockKeeps ==
  ASSUME G!IInv, G!Parameters, NEW r \in Runs, G!EndDeadlock(r) PROVE G!IInv'
<1>1. faults' \in 0..LedgerFaults
  BY DEF G!IInv, G!EndDeadlock
<1>2. QED
  BY <1>1, EndsKeepTables DEF G!EndDeadlock

\* A referral is recorded: it is pending, and nothing was credited for it.
LEMMA ReferKeeps ==
  ASSUME G!IInv, G!Parameters, NEW u \in Users, NEW v \in Users, G!Refer(u, v) PROVE G!IInv'
<1>1. /\ G!Tables.offers = offers /\ G!Tables.ledger = ledger /\ G!Tables.referrals = referrals
      /\ G!Tables'.offers = offers' /\ G!Tables'.ledger = ledger' /\ G!Tables'.referrals = referrals'
  BY DEF G!Tables
<1>2. referrals \in [Users -> [referrer : Users \cup {Nil}, rewarded : BOOLEAN]]
  BY <1>1 DEF G!IInv, G!TypedTables
<1>3. /\ offers' = offers /\ ledger' = ledger /\ tx' = tx /\ report' = report /\ faults' = faults
      /\ referrals[v].referrer = Nil
  BY DEF G!Refer
<1>4. referrals' \in [Users -> [referrer : Users \cup {Nil}, rewarded : BOOLEAN]]
  BY <1>2 DEF G!Refer
<1>5. /\ \A w \in Users \ {v} : referrals'[w] = referrals[w]
      /\ referrals'[v].rewarded = referrals[v].rewarded
  BY <1>2 DEF G!Refer
<1>6. ~referrals[v].rewarded
  <2>1. referrals[v].rewarded => referrals[v].referrer \in Users
    BY <1>1 DEF G!IInv, G!WholeTables
  <2>2. QED
    BY <1>3, <2>1 DEF G!Parameters
<1>7. G!TypedTables(G!Tables)'
  BY <1>1, <1>3, <1>4 DEF G!IInv, G!TypedTables
<1>8. G!WholeTables(G!Tables)'
  <2>1. \A t \in Trades : G!TradeRows(G!Tables, t)' = G!TradeRows(G!Tables, t)
    BY <1>1, <1>3 DEF G!TradeRows
  <2>2. \A w \in Users : G!RewardRows(G!Tables, w)' = G!RewardRows(G!Tables, w)
    BY <1>1, <1>3 DEF G!RewardRows
  <2>3. \A w \in Users \ {v} : \A r \in Runs : G!RewardRow(G!Tables, r, w)' = G!RewardRow(G!Tables, r, w)
    BY <1>1, <1>5 DEF G!RewardRow
  <2>4. \A t \in Trades :
          IF offers[t].charged
          THEN /\ offers[t].status = "Completed"
               /\ \E r \in Runs : TradeOf[r] = t /\ G!TradeRows(G!Tables, t)' = G!Posted(r)
          ELSE G!TradeRows(G!Tables, t)' = {}
    BY <1>1, <2>1 DEF G!IInv, G!WholeTables
  <2>5. ASSUME NEW w \in Users
        PROVE  IF referrals'[w].rewarded
               THEN /\ referrals'[w].referrer \in Users
                    /\ \E r \in Runs : /\ w \in G!Parties(TradeOf[r])
                                       /\ offers[TradeOf[r]].charged
                                       /\ G!RewardRows(G!Tables, w)' = {G!RewardRow(G!Tables, r, w)'}
               ELSE G!RewardRows(G!Tables, w)' = {}
    <3>1. CASE w = v
      <4>1. G!RewardRows(G!Tables, w) = {}
        BY <1>1, <1>6, <3>1 DEF G!IInv, G!WholeTables
      <4>2. QED
        BY <1>5, <1>6, <2>2, <3>1, <4>1
    <3>2. CASE w # v
      <4>1. referrals'[w] = referrals[w]
        BY <1>5, <3>2
      <4>2. IF referrals[w].rewarded
               THEN /\ referrals[w].referrer \in Users
                    /\ \E r \in Runs : /\ w \in G!Parties(TradeOf[r])
                                       /\ offers[TradeOf[r]].charged
                                       /\ G!RewardRows(G!Tables, w) = {G!RewardRow(G!Tables, r, w)}
               ELSE G!RewardRows(G!Tables, w) = {}
        BY <1>1 DEF G!IInv, G!WholeTables
      <4>3. QED
        BY <2>2, <2>3, <3>2, <4>1, <4>2
    <3>3. QED
      BY <3>1, <3>2
  <2>6. QED
    BY <1>1, <1>3, <2>4, <2>5 DEF G!WholeTables
<1>9. G!TransactionsAreWhole'
  <2>1. ASSUME NEW r \in Runs PROVE G!TransactionIsWhole(r)' /\ (G!InTransaction(r)' <=> G!InTransaction(r))
    <3>1. G!TransactionIsWhole(r)
      BY DEF G!IInv, G!TransactionsAreWhole
    <3>2. \A w \in tx[r].rewarded : w # v
      BY <1>3, <3>1 DEF G!TransactionIsWhole, G!Due
    <3>3. \A w \in tx[r].rewarded : w \in Users
      BY DEF G!IInv, G!TxRow
    <3>4. QED
      BY <1>3, <1>5, <3>1, <3>2, <3>3, TransactionKept
  <2>2. QED
    BY <1>3, <2>1 DEF G!TransactionsAreWhole, G!IInv
<1>10. G!ReportIsOfSnapshot' /\ G!ExportsAreSnapshots'
  BY <1>3, ReportKept DEF G!IInv
<1>11. QED
  BY <1>3, <1>7, <1>8, <1>9, <1>10 DEF G!IInv

\* The columns of the rows that a settlement is to write have their types.
LEMMA TypedColumns ==
  ASSUME G!IInv
  PROVE  /\ offers \in [Trades -> [status : {"Locked", "Completed", "Disputed", "Cancelled"},
                                   charged : BOOLEAN]]
         /\ ledger \subseteq G!Entry
         /\ referrals \in [Users -> [referrer : Users \cup {Nil}, rewarded : BOOLEAN]]
         /\ tx \in [Runs -> G!TxRow]
         /\ G!Tables.offers = offers /\ G!Tables.ledger = ledger /\ G!Tables.referrals = referrals
         /\ G!Tables'.offers = offers' /\ G!Tables'.ledger = ledger' /\ G!Tables'.referrals = referrals'
<1>1. /\ G!Tables.offers = offers /\ G!Tables.ledger = ledger /\ G!Tables.referrals = referrals
      /\ G!Tables'.offers = offers' /\ G!Tables'.ledger = ledger' /\ G!Tables'.referrals = referrals'
  BY DEF G!Tables
<1>2. QED
  BY <1>1 DEF G!IInv, G!TypedTables

\* A step of run r alone, which leaves the tables.
LEMMA OneTransactionMoves ==
  ASSUME G!IInv, G!Parameters, NEW r \in Runs, UNCHANGED <<G!tables, report, faults>>,
         tx' \in [Runs -> G!TxRow], \A q \in Runs \ {r} : tx'[q] = tx[q],
         G!TransactionIsWhole(r)',
         G!InTransaction(r)' =>
           \A q \in Runs \ {r} : G!InTransaction(q) =>
             TradeOf[q] # TradeOf[r] /\ tx[q].rewarded \cap tx'[r].rewarded = {}
  PROVE  G!IInv'
<1>1. ASSUME NEW q \in Runs \ {r} PROVE G!TransactionIsWhole(q)' /\ (G!InTransaction(q)' <=> G!InTransaction(q))
  <2>1. G!TransactionIsWhole(q)
    BY DEF G!IInv, G!TransactionsAreWhole
  <2>2. QED
    BY <2>1, TransactionKept DEF G!tables
<1>2. ASSUME NEW p \in Runs, NEW q \in Runs, p # q, G!InTransaction(p)', G!InTransaction(q)'
      PROVE  TradeOf[p] # TradeOf[q] /\ (tx[p].rewarded \cap tx[q].rewarded)' = {}
  <2>1. CASE p = r
    <3>1. G!InTransaction(q) /\ tx'[q] = tx[q]
      BY <1>1, <1>2, <2>1
    <3>2. QED
      BY <1>2, <2>1, <3>1
  <2>2. CASE q = r
    <3>1. G!InTransaction(p) /\ tx'[p] = tx[p]
      BY <1>1, <1>2, <2>2
    <3>2. QED
      BY <1>2, <2>2, <3>1
  <2>3. CASE p # r /\ q # r
    <3>1. G!InTransaction(p) /\ tx'[p] = tx[p] /\ G!InTransaction(q) /\ tx'[q] = tx[q]
      BY <1>1, <1>2, <2>3
    <3>2. TradeOf[p] # TradeOf[q] /\ tx[p].rewarded \cap tx[q].rewarded = {}
      BY <1>2, <3>1 DEF G!IInv, G!TransactionsAreWhole
    <3>3. QED
      BY <3>1, <3>2
  <2>4. QED
    BY <2>1, <2>2, <2>3
<1>3. G!TransactionsAreWhole'
  BY <1>1, <1>2 DEF G!TransactionsAreWhole
<1>4. G!TypedTables(G!Tables)' /\ G!WholeTables(G!Tables)'
  BY TablesKept DEF G!IInv
<1>5. G!ReportIsOfSnapshot' /\ G!ExportsAreSnapshots'
  BY ReportKept DEF G!IInv
<1>6. QED
  BY <1>3, <1>4, <1>5 DEF G!IInv

\* A settlement under way: its rows are in the transaction and not in the tables.
LEMMA SettleKeeps ==
  ASSUME G!IInv, G!Parameters, NEW r \in Runs, G!Settle(r) PROVE G!IInv'
<1>1. tx \in [Runs -> G!TxRow] /\ TradeOf[r] \in Trades
  BY TypedColumns DEF G!Parameters
<1>2. tx[r].step = "released" /\ UNCHANGED <<G!tables, report, faults>>
  BY DEF G!Settle
<1>3. CASE offers[TradeOf[r]].status = "Locked"
  <2>1. tx' = [tx EXCEPT ![r] = [step |-> "posted", entries |-> G!Posted(r), rewarded |-> {}]]
    BY <1>3 DEF G!Settle
  <2>2. tx'[r] = [step |-> "posted", entries |-> G!Posted(r), rewarded |-> {}]
    BY <1>1, <2>1
  <2>3. G!Posted(r) \subseteq G!Entry
    BY PostedRows
  <2>4. tx' \in [Runs -> G!TxRow] /\ \A q \in Runs \ {r} : tx'[q] = tx[q]
    BY <1>1, <2>1, <2>3 DEF G!TxRow, G!Steps
  <2>5. offers[TradeOf[r]] = [status |-> "Locked", charged |-> FALSE]
    <3>1. ~offers[TradeOf[r]].charged
      <4>1. offers[TradeOf[r]].charged => offers[TradeOf[r]].status = "Completed"
        BY <1>1, TypedColumns DEF G!IInv, G!WholeTables
      <4>2. QED
        BY <1>3, <4>1
    <3>2. offers[TradeOf[r]] \in [status : {"Locked", "Completed", "Disputed", "Cancelled"},
                                  charged : BOOLEAN]
      BY <1>1, TypedColumns
    <3>3. QED
      BY <1>3, <3>1, <3>2
  <2>6. G!TransactionIsWhole(r)'
    <3>1. tx'[r].step = "posted" /\ tx'[r].entries = G!Posted(r) /\ tx'[r].rewarded = {}
      BY <2>2
    <3>2. offers'[TradeOf[r]] = [status |-> "Locked", charged |-> FALSE]
      BY <1>2, <2>5 DEF G!tables
    <3>3. G!Posted(r)' = G!Posted(r)
      BY DEF G!Posted
    <3>4. {G!RewardRow(G!Tables, r, u) : u \in tx[r].rewarded}' = {}
      BY <3>1
    <3>5. QED
      BY <3>1, <3>2, <3>3, <3>4 DEF G!TransactionIsWhole, G!InTransaction
  <2>7. \A q \in Runs \ {r} : G!InTransaction(q) =>
          TradeOf[q] # TradeOf[r] /\ tx[q].rewarded \cap tx'[r].rewarded = {}
    BY <2>2 DEF G!Settle, G!Holds
  <2>8. QED
    BY <1>2, <2>4, <2>6, <2>7, OneTransactionMoves
<1>4. CASE offers[TradeOf[r]].status # "Locked"
  <2>1. tx' = [tx EXCEPT ![r].step = "ended"]
    BY <1>4 DEF G!Settle
  <2>2. tx[r].entries = {} /\ tx[r].rewarded = {}
    BY <1>2 DEF G!IInv, G!TransactionsAreWhole, G!TransactionIsWhole, G!InTransaction
  <2>3. /\ tx' \in [Runs -> G!TxRow] /\ \A q \in Runs \ {r} : tx'[q] = tx[q]
        /\ tx'[r].step = "ended" /\ tx'[r].entries = {} /\ tx'[r].rewarded = {}
    BY <1>1, <2>1, <2>2 DEF G!TxRow, G!Steps
  <2>4. G!TransactionIsWhole(r)' /\ ~G!InTransaction(r)'
    BY <2>3 DEF G!TransactionIsWhole, G!InTransaction
  <2>5. QED
    BY <1>2, <2>3, <2>4, OneTransactionMoves
<1>5. QED
  BY <1>3, <1>4

\* The reward is added to a settlement for a referral that is pending.
LEMMA CreditReferralRewardKeeps ==
  ASSUME G!IInv, G!Parameters, NEW r \in Runs, G!CreditReferralReward(r) PROVE G!IInv'
<1> DEFINE u == G!Wants(r)
           step == IF tx[r].step = "posted" THEN "buyer done" ELSE "seller done"
           row == G!CreditEntry(r, "referral_reward", u, referrals[u].referrer, Reward)
<1>1. /\ tx \in [Runs -> G!TxRow] /\ TradeOf[r] \in Trades
      /\ referrals \in [Users -> [referrer : Users \cup {Nil}, rewarded : BOOLEAN]]
  BY TypedColumns DEF G!Parameters
<1>2. /\ tx[r].step \in {"posted", "buyer done"} /\ UNCHANGED <<G!tables, report, faults>>
      /\ \A q \in Runs : u \notin tx[q].rewarded
  BY DEF G!CreditReferralReward
<1>3. u \in Users /\ u \in G!Parties(TradeOf[r])
  BY <1>1 DEF G!Wants, G!Parties, G!Parameters
<1>4. /\ tx' \in [Runs -> [step : G!Steps, entries : SUBSET (G!Entry \cup {row}), rewarded : SUBSET Users]]
      /\ \A q \in Runs \ {r} : tx'[q] = tx[q]
      /\ tx'[r].step = step
      /\ tx'[r].rewarded = tx[r].rewarded \cup (IF G!Due(u) THEN {u} ELSE {})
      /\ tx'[r].entries = tx[r].entries \cup (IF G!Due(u) THEN {row} ELSE {})
  <2> DEFINE new == [step     |-> step,
                     rewarded |-> tx[r].rewarded \cup (IF G!Due(u) THEN {u} ELSE {}),
                     entries  |-> tx[r].entries \cup (IF G!Due(u) THEN {row} ELSE {})]
  <2>1. tx' = [tx EXCEPT ![r] = new]
    BY DEF G!CreditReferralReward
  <2> HIDE DEF row, u
  <2>2. new \in [step : G!Steps, entries : SUBSET (G!Entry \cup {row}), rewarded : SUBSET Users]
    BY <1>1, <1>3 DEF G!TxRow, G!Steps
  <2>3. \A q \in Runs : tx[q] \in [step : G!Steps, entries : SUBSET (G!Entry \cup {row}), rewarded : SUBSET Users]
    BY <1>1 DEF G!TxRow
  <2> HIDE DEF new
  <2>4. /\ tx' \in [Runs -> [step : G!Steps, entries : SUBSET (G!Entry \cup {row}), rewarded : SUBSET Users]]
        /\ \A q \in Runs \ {r} : tx'[q] = tx[q]
        /\ tx'[r] = new
    BY <1>1, <2>1, <2>2, <2>3
  <2>5. /\ new.step = step
        /\ new.rewarded = tx[r].rewarded \cup (IF G!Due(u) THEN {u} ELSE {})
        /\ new.entries = tx[r].entries \cup (IF G!Due(u) THEN {row} ELSE {})
    BY DEF new
  <2>6. QED
    BY <2>4, <2>5
<1>5. G!Due(u) => row \in G!Entry
  BY <1>1, <1>3 DEF G!Due, G!Entry, G!Kinds, G!CreditEntry, G!Parameters
<1> HIDE DEF u
<1>6. tx' \in [Runs -> G!TxRow]
  <2>1. \A q \in Runs : tx'[q] \in G!TxRow
    <3>1. tx'[r] \in G!TxRow
      <4>1. tx'[r].entries \subseteq G!Entry
        BY <1>1, <1>4, <1>5 DEF G!TxRow
      <4>2. QED
        BY <1>4, <4>1 DEF G!TxRow
    <3>2. QED
      BY <1>1, <1>4, <3>1
  <2>2. QED
    BY <1>4, <2>1
<1>7. G!InTransaction(r) /\ G!InTransaction(r)'
  BY <1>2, <1>4 DEF G!InTransaction
<1>8. row = G!RewardRow(G!Tables, r, u)
  BY TypedColumns DEF G!RewardRow
<1>9. G!TransactionIsWhole(r)
  BY DEF G!IInv, G!TransactionsAreWhole
<1> HIDE DEF row
<1>10. G!TransactionIsWhole(r)'
  <2>1. offers'[TradeOf[r]] = [status |-> "Locked", charged |-> FALSE]
    BY <1>2, <1>7, <1>9 DEF G!TransactionIsWhole, G!tables
  <2>2. G!Visited(r) \cup {u} \subseteq G!Visited(r)'
    BY <1>2, <1>4, <1>3 DEF G!Visited, u, G!Wants, G!Parties
  <2>3. tx'[r].rewarded \subseteq G!Visited(r)'
    BY <1>4, <1>7, <1>9, <2>2 DEF G!TransactionIsWhole
  <2>4. \A v \in tx'[r].rewarded : G!Due(v)'
    <3>1. \A v \in tx'[r].rewarded : G!Due(v)
      BY <1>4, <1>7, <1>9 DEF G!TransactionIsWhole
    <3>2. QED
      BY <1>2, <3>1 DEF G!Due, G!tables
  <2>5. \A v : G!RewardRow(G!Tables, r, v)' = G!RewardRow(G!Tables, r, v)
    BY <1>2, TypedColumns DEF G!RewardRow, G!tables
  <2>6. tx'[r].entries = G!Posted(r) \cup {G!RewardRow(G!Tables, r, v) : v \in tx'[r].rewarded}
    <3>1. tx[r].entries = G!Posted(r) \cup {G!RewardRow(G!Tables, r, v) : v \in tx[r].rewarded}
      BY <1>7, <1>9 DEF G!TransactionIsWhole
    <3>2. tx'[r].entries = tx[r].entries \cup (IF G!Due(u) THEN {G!RewardRow(G!Tables, r, u)} ELSE {})
      BY <1>4, <1>8
    <3>3. tx'[r].rewarded = tx[r].rewarded \cup (IF G!Due(u) THEN {u} ELSE {})
      BY <1>4
    <3>4. QED
      BY <3>1, <3>2, <3>3
  <2>7. {G!RewardRow(G!Tables, r, v) : v \in tx'[r].rewarded} = {G!RewardRow(G!Tables, r, v)' : v \in tx'[r].rewarded}
    BY <2>5
  <2>8. G!Posted(r)' = G!Posted(r)
    BY DEF G!Posted
  <2>9. (tx[r].entries = G!Posted(r) \cup {G!RewardRow(G!Tables, r, v) : v \in tx[r].rewarded})'
    BY <2>6, <2>7, <2>8
  <2>10. QED
    BY <1>7, <2>1, <2>3, <2>4, <2>9 DEF G!TransactionIsWhole
<1>11. ASSUME NEW q \in Runs \ {r}, G!InTransaction(q)
       PROVE  TradeOf[q] # TradeOf[r] /\ tx[q].rewarded \cap tx'[r].rewarded = {}
  <2>1. TradeOf[q] # TradeOf[r] /\ tx[q].rewarded \cap tx[r].rewarded = {}
    BY <1>7, <1>11 DEF G!IInv, G!TransactionsAreWhole
  <2>2. QED
    BY <1>2, <1>4, <2>1
<1>12. QED
  BY <1>2, <1>4, <1>6, <1>10, <1>11, OneTransactionMoves

\* The tables stay whole if one trade changes in what no row is about.
LEMMA StatusKeeps ==
  ASSUME G!IInv, G!Parameters, NEW t \in Trades, UNCHANGED <<ledger, referrals>>,
         offers' \in [Trades -> [status : {"Locked", "Completed", "Disputed", "Cancelled"},
                                 charged : BOOLEAN]],
         \A x \in Trades \ {t} : offers'[x] = offers[x],
         offers'[t].charged = offers[t].charged,
         offers[t].charged => offers'[t].status = "Completed"
  PROVE  G!TypedTables(G!Tables)' /\ G!WholeTables(G!Tables)'
<1>1. G!TypedTables(G!Tables)'
  BY TypedColumns DEF G!TypedTables
<1>2. \A x \in Trades : G!TradeRows(G!Tables, x)' = G!TradeRows(G!Tables, x)
  BY TypedColumns DEF G!TradeRows
<1>3. \A u \in Users : G!RewardRows(G!Tables, u)' = G!RewardRows(G!Tables, u)
  BY TypedColumns DEF G!RewardRows
<1>4. \A u \in Users, r \in Runs : G!RewardRow(G!Tables, r, u)' = G!RewardRow(G!Tables, r, u)
  BY TypedColumns DEF G!RewardRow
<1>5. \A x \in Trades : offers'[x].charged = offers[x].charged
  OBVIOUS
<1>6. ASSUME NEW x \in Trades
      PROVE  IF offers'[x].charged
             THEN /\ offers'[x].status = "Completed"
                  /\ \E r \in Runs : TradeOf[r] = x /\ G!TradeRows(G!Tables, x)' = G!Posted(r)
             ELSE G!TradeRows(G!Tables, x)' = {}
  <2>1. IF offers[x].charged
        THEN /\ offers[x].status = "Completed"
             /\ \E r \in Runs : TradeOf[r] = x /\ G!TradeRows(G!Tables, x) = G!Posted(r)
        ELSE G!TradeRows(G!Tables, x) = {}
    BY TypedColumns DEF G!IInv, G!WholeTables
  <2>2. offers'[x].charged => offers'[x].status = "Completed"
    BY <2>1, <1>5
  <2>3. QED
    BY <1>2, <1>5, <2>1, <2>2
<1>7. ASSUME NEW u \in Users
      PROVE  IF referrals'[u].rewarded
             THEN /\ referrals'[u].referrer \in Users
                  /\ \E r \in Runs : /\ u \in G!Parties(TradeOf[r])
                                     /\ offers'[TradeOf[r]].charged
                                     /\ G!RewardRows(G!Tables, u)' = {G!RewardRow(G!Tables, r, u)'}
             ELSE G!RewardRows(G!Tables, u)' = {}
  <2>1. IF referrals[u].rewarded
        THEN /\ referrals[u].referrer \in Users
             /\ \E r \in Runs : /\ u \in G!Parties(TradeOf[r])
                                /\ offers[TradeOf[r]].charged
                                /\ G!RewardRows(G!Tables, u) = {G!RewardRow(G!Tables, r, u)}
        ELSE G!RewardRows(G!Tables, u) = {}
    BY TypedColumns DEF G!IInv, G!WholeTables
  <2>2. \A r \in Runs : TradeOf[r] \in Trades
    BY DEF G!Parameters
  <2>3. QED
    BY <1>3, <1>4, <1>5, <2>1, <2>2
<1>8. G!WholeTables(G!Tables)'
  BY <1>6, <1>7, TypedColumns DEF G!WholeTables
<1>9. QED
  BY <1>1, <1>8

\* A trade's status is written by the transaction that locked its row.
LEMMA ChangeStatusKeeps ==
  ASSUME G!IInv, G!Parameters, NEW t \in Trades, NEW s \in {"Disputed", "Completed", "Cancelled"},
         G!ChangeStatus(t, s)
  PROVE  G!IInv'
<1>1. /\ offers \in [Trades -> [status : {"Locked", "Completed", "Disputed", "Cancelled"},
                                charged : BOOLEAN]]
      /\ offers' = [offers EXCEPT ![t].status = s]
      /\ ledger' = ledger /\ referrals' = referrals /\ tx' = tx /\ report' = report
      /\ faults' = faults
      /\ offers[t].status # "Completed"
      /\ \A q \in Runs : ~G!Holds(q, t)
  BY TypedColumns DEF G!ChangeStatus
<1>2. /\ offers' \in [Trades -> [status : {"Locked", "Completed", "Disputed", "Cancelled"},
                                 charged : BOOLEAN]]
      /\ \A x \in Trades \ {t} : offers'[x] = offers[x]
      /\ offers'[t].charged = offers[t].charged
  BY <1>1
<1>3. ~offers[t].charged
  <2>1. offers[t].charged => offers[t].status = "Completed"
    BY TypedColumns DEF G!IInv, G!WholeTables
  <2>2. QED
    BY <1>1, <2>1
<1>4. G!TypedTables(G!Tables)' /\ G!WholeTables(G!Tables)'
  BY <1>1, <1>2, <1>3, StatusKeeps
<1>5. G!TransactionsAreWhole'
  <2>1. ASSUME NEW r \in Runs PROVE G!TransactionIsWhole(r)' /\ (G!InTransaction(r)' <=> G!InTransaction(r))
    <3>1. G!TransactionIsWhole(r)
      BY DEF G!IInv, G!TransactionsAreWhole
    <3>2. G!InTransaction(r) => TradeOf[r] # t
      BY <1>1 DEF G!Holds
    <3>3. G!InTransaction(r) => offers'[TradeOf[r]] = offers[TradeOf[r]]
      BY <1>2, <3>2 DEF G!Parameters
    <3>4. QED
      BY <1>1, <3>1, <3>3, TransactionKept
  <2>2. QED
    BY <1>1, <2>1 DEF G!TransactionsAreWhole, G!IInv
<1>6. G!ReportIsOfSnapshot' /\ G!ExportsAreSnapshots'
  BY <1>1, ReportKept DEF G!IInv
<1>7. QED
  BY <1>1, <1>4, <1>5, <1>6 DEF G!IInv

\* A trade in dispute is settled by an admin.
LEMMA EscalateKeeps ==
  ASSUME G!IInv, G!Parameters, NEW r \in Runs, G!Escalate(r) PROVE G!IInv'
<1> DEFINE t == TradeOf[r]
<1>1. /\ offers \in [Trades -> [status : {"Locked", "Completed", "Disputed", "Cancelled"},
                                charged : BOOLEAN]]
      /\ offers' = [offers EXCEPT ![t].status = IF @ = "Locked" THEN "Disputed" ELSE @]
      /\ ledger' = ledger /\ referrals' = referrals /\ report' = report
      /\ faults' = faults
      /\ \A q \in Runs : ~G!Holds(q, t)
      /\ G!Ended(r, "ended")
      /\ t \in Trades
  BY TypedColumns DEF G!Escalate, G!Parameters
<1>2. /\ offers' \in [Trades -> [status : {"Locked", "Completed", "Disputed", "Cancelled"},
                                 charged : BOOLEAN]]
      /\ \A x \in Trades \ {t} : offers'[x] = offers[x]
      /\ offers'[t].charged = offers[t].charged
      /\ offers[t].status # "Locked" => offers'[t].status = offers[t].status
  BY <1>1
<1>3. offers[t].charged => offers[t].status = "Completed"
  BY <1>1, TypedColumns DEF G!IInv, G!WholeTables
<1>4. G!TypedTables(G!Tables)' /\ G!WholeTables(G!Tables)'
  BY <1>1, <1>2, <1>3, StatusKeeps
<1>5. /\ tx' \in [Runs -> G!TxRow]
      /\ G!TransactionIsWhole(r)' /\ ~G!InTransaction(r)'
      /\ \A q \in Runs \ {r} : tx'[q] = tx[q]
  BY <1>1, TransactionEnds
<1>6. ASSUME NEW q \in Runs \ {r} PROVE G!TransactionIsWhole(q)' /\ (G!InTransaction(q)' <=> G!InTransaction(q))
  <2>1. G!TransactionIsWhole(q)
    BY DEF G!IInv, G!TransactionsAreWhole
  <2>2. G!InTransaction(q) => TradeOf[q] # t
    BY <1>1 DEF G!Holds
  <2>3. G!InTransaction(q) => offers'[TradeOf[q]] = offers[TradeOf[q]]
    BY <1>2, <2>2 DEF G!Parameters
  <2>4. QED
    BY <1>1, <1>5, <2>1, <2>3, TransactionKept
<1>7. G!TransactionsAreWhole'
  BY <1>5, <1>6, OthersApart
<1>8. G!ReportIsOfSnapshot' /\ G!ExportsAreSnapshots'
  BY <1>1, ReportKept DEF G!IInv
<1>9. QED
  BY <1>1, <1>4, <1>5, <1>7, <1>8 DEF G!IInv

\* A server that restarts loses the transactions and no row.
LEMMA RestartKeeps ==
  ASSUME G!IInv, G!Parameters, G!Restart PROVE G!IInv'
<1>1. faults' \in 0..LedgerFaults /\ UNCHANGED <<G!tables, report>>
  BY DEF G!IInv, G!Restart, G!Fault, G!Parameters
<1>2. \A r \in Runs : tx'[r] = [step |-> "ended", entries |-> {}, rewarded |-> {}]
  BY DEF G!Restart, G!NoWrites
<1>3. tx' \in [Runs -> G!TxRow]
  BY DEF G!Restart, G!NoWrites, G!TxRow, G!Steps
<1>4. ASSUME NEW r \in Runs PROVE G!TransactionIsWhole(r)' /\ ~G!InTransaction(r)'
  <2>1. tx'[r].step = "ended" /\ tx'[r].entries = {} /\ tx'[r].rewarded = {}
    BY <1>2
  <2>2. QED
    BY <2>1 DEF G!TransactionIsWhole, G!InTransaction
<1>5. G!TransactionsAreWhole'
  BY <1>4 DEF G!TransactionsAreWhole
<1>6. G!TypedTables(G!Tables)' /\ G!WholeTables(G!Tables)'
  BY <1>1, TablesKept DEF G!IInv
<1>7. G!ReportIsOfSnapshot' /\ G!ExportsAreSnapshots'
  BY <1>1, ReportKept DEF G!IInv
<1>8. QED
  BY <1>1, <1>3, <1>5, <1>6, <1>7 DEF G!IInv

\* A commit writes the rows of the settlement whole: amount and fee, and the reward of a
\* referral that was pending and is rewarded now.
LEMMA CommitKeeps ==
  ASSUME G!IInv, G!Parameters, NEW r \in Runs, G!Commit(r) PROVE G!IInv'
<1> DEFINE t == TradeOf[r]
           paidOut == tx[r].rewarded
<1>1. /\ offers \in [Trades -> [status : {"Locked", "Completed", "Disputed", "Cancelled"},
                                charged : BOOLEAN]]
      /\ ledger \subseteq G!Entry
      /\ referrals \in [Users -> [referrer : Users \cup {Nil}, rewarded : BOOLEAN]]
      /\ tx \in [Runs -> G!TxRow]
      /\ t \in Trades
  BY TypedColumns DEF G!Parameters
<1>2. /\ tx[r].step = "seller done"
      /\ offers' = [offers EXCEPT ![t] = [status |-> "Completed", charged |-> TRUE]]
      /\ ledger' = ledger \cup tx[r].entries
      /\ referrals' = [u \in Users |-> [referrals[u] EXCEPT !.rewarded = @ \/ u \in paidOut]]
      /\ G!Ended(r, "ended") /\ report' = report /\ faults' = faults
  BY DEF G!Commit
<1>3. G!InTransaction(r) /\ G!TransactionIsWhole(r)
  BY <1>2 DEF G!InTransaction, G!IInv, G!TransactionsAreWhole
<1>4. /\ offers[t] = [status |-> "Locked", charged |-> FALSE]
      /\ paidOut \subseteq G!Parties(t) /\ paidOut \subseteq Users
      /\ \A u \in paidOut : G!Due(u)
      /\ tx[r].entries = G!Posted(r) \cup {G!RewardRow(G!Tables, r, u) : u \in paidOut}
  BY <1>1, <1>2, <1>3 DEF G!TransactionIsWhole, G!Visited, G!TxRow
<1>5. /\ \A x \in Trades \ {t} : offers'[x] = offers[x]
      /\ offers'[t] = [status |-> "Completed", charged |-> TRUE]
      /\ offers' \in [Trades -> [status : {"Locked", "Completed", "Disputed", "Cancelled"},
                                 charged : BOOLEAN]]
  BY <1>1, <1>2
<1>6. /\ \A u \in Users \ paidOut : referrals'[u] = referrals[u]
      /\ \A u \in paidOut : referrals'[u].rewarded
      /\ \A u \in Users : referrals'[u].referrer = referrals[u].referrer
      /\ referrals' \in [Users -> [referrer : Users \cup {Nil}, rewarded : BOOLEAN]]
  <2>1. ASSUME NEW u \in Users
        PROVE  /\ referrals'[u].referrer = referrals[u].referrer
               /\ referrals'[u].rewarded = (referrals[u].rewarded \/ u \in paidOut)
               /\ referrals'[u] \in [referrer : Users \cup {Nil}, rewarded : BOOLEAN]
    BY <1>1, <1>2
  <2>2. ASSUME NEW u \in Users \ paidOut PROVE referrals'[u] = referrals[u]
    <3>1. referrals'[u] = [referrals[u] EXCEPT !.rewarded = @ \/ u \in paidOut]
      BY <1>2
    <3>2. referrals[u].rewarded \in BOOLEAN
      BY <1>1
    <3>3. (referrals[u].rewarded \/ u \in paidOut) = referrals[u].rewarded
      BY <3>2
    <3>4. QED
      BY <1>1, <3>1, <3>3
  <2>3. referrals' = [u \in Users |-> referrals'[u]]
    BY <1>2
  <2>4. referrals' \in [Users -> [referrer : Users \cup {Nil}, rewarded : BOOLEAN]]
    BY <2>1, <2>3
  <2>5. QED
    BY <1>4, <2>1, <2>2, <2>4
<1>7. /\ \A u \in Users : G!RewardRow(G!Tables, r, u) = G!CreditEntry(r, "referral_reward", u, referrals[u].referrer, Reward)
      /\ \A q \in Runs, u \in Users : G!RewardRow(G!Tables, q, u)' = G!RewardRow(G!Tables, q, u)
  BY <1>6, TypedColumns DEF G!RewardRow
<1>8. \A u \in Users : /\ G!RewardRow(G!Tables, r, u).by = r
                       /\ G!RewardRow(G!Tables, r, u).kind = "referral_reward"
                       /\ G!RewardRow(G!Tables, r, u).about = u
  BY <1>7 DEF G!CreditEntry
<1>9. G!TypedTables(G!Tables)'
  <2>1. tx[r].entries \subseteq G!Entry
    BY <1>1 DEF G!TxRow
  <2>2. ledger' \subseteq G!Entry
    BY <1>1, <1>2, <2>1
  <2>3. QED
    BY <1>5, <1>6, <2>2, TypedColumns DEF G!TypedTables
<1>10. G!WholeTables(G!Tables)'
  <2>1. ASSUME NEW x \in Trades
        PROVE  IF offers'[x].charged
               THEN /\ offers'[x].status = "Completed"
                    /\ \E q \in Runs : TradeOf[q] = x /\ G!TradeRows(G!Tables, x)' = G!Posted(q)
               ELSE G!TradeRows(G!Tables, x)' = {}
    <3>1. G!TradeRows(G!Tables, x)'
            = G!TradeRows(G!Tables, x) \cup {e \in tx[r].entries : TradeOf[e.by] = x /\ e.kind # "referral_reward"}
      BY <1>2, TypedColumns DEF G!TradeRows
    <3>2. \A e \in tx[r].entries : e.by = r
      <4>1. \A e \in G!Posted(r) : e.by = r
        BY PostedRows
      <4>2. \A u \in paidOut : G!RewardRow(G!Tables, r, u).by = r
        BY <1>4, <1>8
      <4>3. QED
        BY <1>4, <4>1, <4>2
    <3>3. IF offers[x].charged
          THEN /\ offers[x].status = "Completed"
               /\ \E q \in Runs : TradeOf[q] = x /\ G!TradeRows(G!Tables, x) = G!Posted(q)
          ELSE G!TradeRows(G!Tables, x) = {}
      BY TypedColumns DEF G!IInv, G!WholeTables
    <3>4. CASE x = t
      <4>1. G!TradeRows(G!Tables, x) = {}
        BY <1>4, <3>3, <3>4
      <4>2. {e \in tx[r].entries : TradeOf[e.by] = x /\ e.kind # "referral_reward"} = G!Posted(r)
        <5>1. \A e \in G!Posted(r) : e \in tx[r].entries /\ TradeOf[e.by] = x /\ e.kind # "referral_reward"
          BY <1>4, <3>2, <3>4, PostedRows
        <5>2. \A e \in tx[r].entries : e.kind # "referral_reward" => e \in G!Posted(r)
          BY <1>4, <1>8
        <5>3. QED
          BY <5>1, <5>2
      <4>3. QED
        BY <1>5, <3>1, <3>4, <4>1, <4>2
    <3>5. CASE x # t
      <4>1. {e \in tx[r].entries : TradeOf[e.by] = x /\ e.kind # "referral_reward"} = {}
        BY <3>2, <3>5
      <4>2. QED
        BY <1>5, <3>1, <3>3, <3>5, <4>1
    <3>6. QED
      BY <3>4, <3>5
  <2>2. ASSUME NEW u \in Users
        PROVE  IF referrals'[u].rewarded
               THEN /\ referrals'[u].referrer \in Users
                    /\ \E q \in Runs : /\ u \in G!Parties(TradeOf[q])
                                       /\ offers'[TradeOf[q]].charged
                                       /\ G!RewardRows(G!Tables, u)' = {G!RewardRow(G!Tables, q, u)'}
               ELSE G!RewardRows(G!Tables, u)' = {}
    <3>1. G!RewardRows(G!Tables, u)'
            = G!RewardRows(G!Tables, u) \cup {e \in tx[r].entries : e.kind = "referral_reward" /\ e.about = u}
      BY <1>2, TypedColumns DEF G!RewardRows
    <3>2. IF referrals[u].rewarded
          THEN /\ referrals[u].referrer \in Users
               /\ \E q \in Runs : /\ u \in G!Parties(TradeOf[q])
                                  /\ offers[TradeOf[q]].charged
                                  /\ G!RewardRows(G!Tables, u) = {G!RewardRow(G!Tables, q, u)}
          ELSE G!RewardRows(G!Tables, u) = {}
      BY TypedColumns DEF G!IInv, G!WholeTables
    <3>3. \A e \in tx[r].entries : e.kind = "referral_reward" => \E v \in paidOut : e = G!RewardRow(G!Tables, r, v)
      BY <1>4, PostedRows
    <3>4. CASE u \in paidOut
      <4>1. G!RewardRows(G!Tables, u) = {} /\ referrals[u].referrer \in Users
        BY <1>1, <1>4, <3>2, <3>4 DEF G!Due
      <4>2. {e \in tx[r].entries : e.kind = "referral_reward" /\ e.about = u} = {G!RewardRow(G!Tables, r, u)}
        <5>1. \A e \in tx[r].entries : e.kind = "referral_reward" /\ e.about = u => e = G!RewardRow(G!Tables, r, u)
          BY <1>4, <1>8, <3>3
        <5>2. G!RewardRow(G!Tables, r, u) \in tx[r].entries
          BY <1>4, <3>4
        <5>3. QED
          BY <1>8, <5>1, <5>2
      <4>3. G!RewardRows(G!Tables, u)' = {G!RewardRow(G!Tables, r, u)'}
        BY <1>7, <3>1, <4>1, <4>2
      <4>4. u \in G!Parties(TradeOf[r]) /\ offers'[TradeOf[r]].charged
        BY <1>4, <1>5, <3>4
      <4>5. QED
        BY <1>6, <3>4, <4>1, <4>3, <4>4
    <3>5. CASE u \notin paidOut
      <4>1. {e \in tx[r].entries : e.kind = "referral_reward" /\ e.about = u} = {}
        BY <1>4, <1>8, <3>3, <3>5
      <4>2. G!RewardRows(G!Tables, u)' = G!RewardRows(G!Tables, u) /\ referrals'[u] = referrals[u]
        BY <1>6, <3>1, <3>5, <4>1
      <4>3. \A x \in Trades : offers[x].charged => offers'[x].charged
        BY <1>5
      <4>4. \A q \in Runs : TradeOf[q] \in Trades
        BY DEF G!Parameters
      <4>5. QED
        BY <1>7, <3>2, <4>2, <4>3, <4>4
    <3>6. QED
      BY <3>4, <3>5
  <2>3. QED
    BY <2>1, <2>2, TypedColumns DEF G!WholeTables
<1>11. /\ tx' \in [Runs -> G!TxRow]
       /\ G!TransactionIsWhole(r)' /\ ~G!InTransaction(r)'
       /\ \A q \in Runs \ {r} : tx'[q] = tx[q]
  BY <1>2, TransactionEnds
<1>12. ASSUME NEW q \in Runs \ {r} PROVE G!TransactionIsWhole(q)' /\ (G!InTransaction(q)' <=> G!InTransaction(q))
  <2>1. G!TransactionIsWhole(q)
    BY DEF G!IInv, G!TransactionsAreWhole
  <2>2. G!InTransaction(q) => TradeOf[q] # t /\ tx[q].rewarded \cap paidOut = {}
    BY <1>3 DEF G!IInv, G!TransactionsAreWhole
  <2>3. G!InTransaction(q) => offers'[TradeOf[q]] = offers[TradeOf[q]]
    BY <1>5, <2>2 DEF G!Parameters
  <2>4. \A u \in tx[q].rewarded : u \in Users \ paidOut
    <3>1. ~G!InTransaction(q) => tx[q].rewarded = {}
      BY <2>1 DEF G!TransactionIsWhole
    <3>2. tx[q].rewarded \subseteq Users
      BY <1>1 DEF G!TxRow
    <3>3. QED
      BY <2>2, <3>1, <3>2
  <2>5. QED
    BY <1>6, <1>11, <2>1, <2>3, <2>4, TransactionKept
<1>13. G!TransactionsAreWhole'
  BY <1>11, <1>12, OthersApart
<1>14. G!ReportIsOfSnapshot' /\ G!ExportsAreSnapshots'
  BY <1>2, ReportKept DEF G!IInv
<1>15. QED
  BY <1>2, <1>9, <1>10, <1>11, <1>13, <1>14 DEF G!IInv

\* In whole tables a user's reward rows are as many as the referrals of theirs that the
\* tables call rewarded, each of the configured amount.
LEMMA RewardsOfUser ==
  ASSUME G!Parameters, NEW T, G!TypedTables(T), G!WholeTables(T), NEW u \in Users
  PROVE  /\ IsFiniteSet(G!RewardsTo(T, u))
         /\ Cardinality(G!RewardsTo(T, u)) = Cardinality(G!RewardedOf(T, u))
         /\ \A e \in G!RewardsTo(T, u) : e.amount = Reward
<1> DEFINE verified == G!RewardedOf(T, u)
           B == G!RewardsTo(T, u)
           f == [e \in B |-> e.about]
<1>1. ASSUME NEW v \in Users, NEW e \in G!RewardRows(T, v)
      PROVE  /\ T.referrals[v].rewarded /\ e.user = T.referrals[v].referrer /\ e.amount = Reward
             /\ G!RewardRows(T, v) = {e}
  <2>1. T.referrals[v].rewarded
    BY DEF G!WholeTables
  <2>2. PICK r \in Runs : G!RewardRows(T, v) = {G!RewardRow(T, r, v)}
    BY <2>1 DEF G!WholeTables
  <2>3. e = G!RewardRow(T, r, v)
    BY <2>2
  <2>4. QED
    BY <2>1, <2>2, <2>3 DEF G!RewardRow, G!CreditEntry
<1>2. ASSUME NEW e \in B PROVE e \in G!RewardRows(T, e.about) /\ e.about \in Users
  BY DEF G!RewardRows, G!TypedTables, G!Entry, G!RewardsTo
<1>3. ASSUME NEW v \in verified PROVE \E e \in B : e.about = v
  <2>1. PICK r \in Runs : G!RewardRows(T, v) = {G!RewardRow(T, r, v)}
    BY DEF G!WholeTables, G!RewardedOf
  <2>2. G!RewardRow(T, r, v) \in G!RewardRows(T, v)
    BY <2>1
  <2>3. QED
    <3>1. PICK q \in Runs : G!RewardRow(T, r, v) = G!RewardRow(T, q, v) /\ v \in Users
                            /\ T.referrals[v].referrer = u
      BY DEF G!RewardedOf
    <3>2. QED
      BY <2>2, <3>1 DEF G!RewardRows, G!RewardRow, G!CreditEntry, G!RewardsTo
<1>4. f \in [B -> verified] /\ \A e \in B : e.amount = Reward
  <2>1. \A e \in B : e.user = u
    BY DEF G!RewardsTo
  <2>2. QED
    BY <1>1, <1>2, <2>1 DEF G!RewardedOf
<1>5. \A d, e \in B : f[d] = f[e] => d = e
  <2>1. SUFFICES ASSUME NEW d \in B, NEW e \in B, d.about = e.about PROVE d = e
    OBVIOUS
  <2>2. d \in G!RewardRows(T, e.about) /\ e \in G!RewardRows(T, e.about) /\ e.about \in Users
    BY <1>2, <2>1
  <2>3. QED
    BY <1>1, <2>2
<1>6. f \in Bijection(B, verified)
  <2>1. \A v \in verified : \E e \in B : f[e] = v
    BY <1>3
  <2> HIDE DEF f
  <2>2. QED
    BY <1>4, <1>5, <2>1 DEF Bijection, Injection, Surjection, IsInjective
<1>7. IsFiniteSet(verified)
  <2>1. verified \subseteq Users /\ IsFiniteSet(Users)
    BY LedgerSets DEF G!Parameters, G!RewardedOf
  <2>2. QED
    BY <2>1, FS_Subset
<1> HIDE DEF f
<1>8. ExistsBijection(verified, B) /\ ExistsBijection(B, verified)
  BY <1>6, Fun_ExistsBijSymmetric DEF ExistsBijection
<1>9. IsFiniteSet(B) /\ Cardinality(B) = Cardinality(verified)
  BY <1>7, <1>8, FS_Bijection
<1>10. QED
  BY <1>4, <1>7, <1>9

\* What a report has read stays what it was.
LEMMA SnapshotKept ==
  ASSUME report'.snapshot = report.snapshot, G!TypedTables(report.snapshot), G!WholeTables(report.snapshot)
  PROVE  (G!TypedTables(report.snapshot) /\ G!WholeTables(report.snapshot))'
<1>1. G!TypedTables(report.snapshot)'
  BY DEF G!TypedTables
<1>2. G!WholeTables(report.snapshot)'
  BY DEF G!WholeTables, G!TradeRows, G!RewardRows, G!RewardRow
<1>3. QED
  BY <1>1, <1>2

\* A report reads the tables as they are, and adds up what it read.
LEMMA ExportKeeps ==
  ASSUME G!IInv, G!Parameters, G!Export PROVE G!IInv'
<1>1. UNCHANGED <<G!tables, tx, faults>>
  BY DEF G!Export, G!StartReport, G!ReadTrades, G!ReadReferrals, G!ExportHistory
<1>2. G!TypedTables(G!Tables)' /\ G!WholeTables(G!Tables)'
  BY <1>1, TablesKept DEF G!IInv
<1>3. G!TransactionsAreWhole'
  <2>1. ASSUME NEW r \in Runs PROVE G!TransactionIsWhole(r)' /\ (G!InTransaction(r)' <=> G!InTransaction(r))
    <3>1. G!TransactionIsWhole(r)
      BY DEF G!IInv, G!TransactionsAreWhole
    <3>2. QED
      BY <1>1, <3>1, TransactionKept DEF G!tables
  <2>2. QED
    BY <1>1, <2>1 DEF G!TransactionsAreWhole, G!IInv
<1>4. tx' \in [Runs -> G!TxRow] /\ faults' \in 0..LedgerFaults
  BY <1>1 DEF G!IInv
<1>5. SUFFICES G!ReportIsOfSnapshot' /\ G!ExportsAreSnapshots'
  BY <1>2, <1>3, <1>4 DEF G!IInv
<1> DEFINE paidOut(T) == G!TypedTables(T) /\ G!WholeTables(T)
<1>6. \A T : G!TypedTables(T)' = G!TypedTables(T) /\ G!WholeTables(T)' = G!WholeTables(T)
  BY DEF G!TypedTables, G!WholeTables, G!TradeRows, G!RewardRows, G!RewardRow
<1>7. G!ReportIsOfSnapshot
  BY DEF G!IInv
<1>8. CASE \E u \in Readers : G!StartReport(u)
  <2>1. PICK u \in Readers : report' = [step |-> "begun", reader |-> u, snapshot |-> G!Tables]
    BY <1>8 DEF G!StartReport
  <2>2. G!TypedTables(G!Tables) /\ G!WholeTables(G!Tables) /\ u \in Users
    BY DEF G!IInv, G!Parameters
  <2>3. (G!TypedTables(report.snapshot) /\ G!WholeTables(report.snapshot))'
    BY <2>1, <2>2, <1>1, <1>6 DEF G!TypedTables, G!WholeTables, G!TradeRows, G!RewardRows, G!RewardRow
  <2>4. QED
    BY <2>1, <2>2, <2>3 DEF G!ReportIsOfSnapshot, G!ExportsAreSnapshots
<1>9. CASE G!ReadTrades
  <2>1. /\ report.step = "begun" /\ report'.step = "trades read" /\ report'.reader = report.reader
        /\ report'.snapshot = report.snapshot
        /\ report'.trades = [t \in {x \in Trades : report.reader \in {BuyerOf[x], SellerOf[x]}} |->
                              report.snapshot.offers[t]]
    BY <1>9 DEF G!ReadTrades, G!Seen
  <2>2. (G!TypedTables(report.snapshot) /\ G!WholeTables(report.snapshot))'
    <3>1. G!TypedTables(report.snapshot) /\ G!WholeTables(report.snapshot)
      BY <2>1, <1>7 DEF G!ReportIsOfSnapshot
    <3>2. QED
      BY <2>1, <3>1, SnapshotKept
  <2>3. QED
    BY <2>1, <2>2, <1>7 DEF G!ReportIsOfSnapshot, G!ExportsAreSnapshots, G!Parties
<1>10. CASE G!ReadReferrals
  <2>1. /\ report.step = "trades read" /\ report'.step = "referrals read" /\ report'.reader = report.reader
        /\ report'.snapshot = report.snapshot /\ report'.trades = report.trades
        /\ report'.rewarded = {v \in Users : report.snapshot.referrals[v].referrer = report.reader
                                            /\ report.snapshot.referrals[v].rewarded}
    BY <1>10 DEF G!ReadReferrals, G!Seen
  <2>2. (G!TypedTables(report.snapshot) /\ G!WholeTables(report.snapshot))'
    <3>1. G!TypedTables(report.snapshot) /\ G!WholeTables(report.snapshot)
      BY <2>1, <1>7 DEF G!ReportIsOfSnapshot
    <3>2. QED
      BY <2>1, <3>1, SnapshotKept
  <2>3. QED
    BY <2>1, <2>2, <1>7 DEF G!ReportIsOfSnapshot, G!ExportsAreSnapshots
<1>11. CASE G!ExportHistory
  <2> DEFINE T == report.snapshot
             u == report.reader
             shown == {e \in T.ledger : e.user = u}
  <2>1. /\ report.step = "referrals read" /\ report'.step = "done"
        /\ report'.trades = report.trades /\ report'.rewarded = report.rewarded
        /\ report'.transactions = shown
    BY <1>11 DEF G!ExportHistory, G!Seen
  <2>2. /\ G!TypedTables(T) /\ G!WholeTables(T) /\ u \in Users
        /\ report.trades = [t \in {x \in Trades : u \in G!Parties(x)} |-> T.offers[t]]
        /\ report.rewarded = {v \in Users : T.referrals[v].referrer = u /\ T.referrals[v].rewarded}
    BY <2>1, <1>7 DEF G!ReportIsOfSnapshot
  <2>3. Cardinality(G!OfKind(shown, "referral_reward")) = Cardinality(report.rewarded)
    <3>1. G!OfKind(shown, "referral_reward") = G!RewardsTo(T, u) /\ report.rewarded = G!RewardedOf(T, u)
      BY <2>2 DEF G!OfKind, G!RewardsTo, G!RewardedOf
    <3> HIDE DEF T, u, shown
    <3>2. Cardinality(G!RewardsTo(T, u)) = Cardinality(G!RewardedOf(T, u))
      BY <2>2, RewardsOfUser
    <3>3. QED
      BY <3>1, <3>2
  <2>4. ASSUME NEW t \in Trades, u \in G!Parties(t)
        PROVE  T.offers[t].charged <=> \E e \in shown : TradeOf[e.by] = t /\ e.kind \in {"debit", "trade_settlement"}
    <3>1. CASE T.offers[t].charged
      <4>1. PICK r \in Runs : TradeOf[r] = t /\ G!TradeRows(T, t) = G!Posted(r)
        BY <2>2, <3>1 DEF G!WholeTables
      <4>2. \A e \in G!Posted(r) : e \in T.ledger /\ TradeOf[e.by] = t
        BY <4>1 DEF G!TradeRows
      <4>3. CASE u = BuyerOf[t]
        <5>1. G!DebitEntry(r).user = u /\ G!DebitEntry(r).kind = "debit"
          BY <4>1, <4>3 DEF G!DebitEntry
        <5>2. G!DebitEntry(r) \in G!Posted(r)
          BY PostedRows
        <5>3. QED
          BY <3>1, <4>2, <5>1, <5>2
      <4>4. CASE u = SellerOf[t]
        <5>1. PICK e \in G!Posted(r) : e.kind = "trade_settlement" /\ e.user = SellerOf[TradeOf[r]]
          BY PostedRows
        <5>2. e.user = u
          BY <4>1, <4>4, <5>1
        <5>3. QED
          BY <3>1, <4>2, <5>1, <5>2
      <4>5. QED
        BY <2>4, <4>3, <4>4 DEF G!Parties
    <3>2. CASE ~T.offers[t].charged
      <4>1. G!TradeRows(T, t) = {}
        BY <2>2, <3>2 DEF G!WholeTables
      <4>2. \A e \in T.ledger : ~(TradeOf[e.by] = t /\ e.kind # "referral_reward")
        BY <4>1 DEF G!TradeRows
      <4>3. QED
        BY <3>2, <4>2
    <3>3. QED
      BY <3>1, <3>2
  <2> HIDE DEF shown, T, u
  <2>5. ASSUME NEW t \in DOMAIN report'.trades
        PROVE  report'.trades[t].charged
                 <=> \E e \in report'.transactions : TradeOf[e.by] = t /\ e.kind \in {"debit", "trade_settlement"}
    <3>1. t \in Trades /\ u \in G!Parties(t) /\ report.trades[t] = T.offers[t]
      BY <2>1, <2>2
    <3>2. T.offers[t].charged
            <=> \E e \in shown : TradeOf[e.by] = t /\ e.kind \in {"debit", "trade_settlement"}
      BY <2>4, <3>1
    <3>3. QED
      BY <2>1, <3>1, <3>2
  <2>6. Cardinality(G!OfKind(report.transactions, "referral_reward"))' = Cardinality(report'.rewarded)
    BY <2>1, <2>3 DEF G!OfKind
  <2>7. G!ExportsAreSnapshots'
    BY <2>5, <2>6, LedgerSets DEF G!ExportsAreSnapshots
  <2>8. G!ReportIsOfSnapshot'
    BY <2>1 DEF G!ReportIsOfSnapshot
  <2>9. QED
    BY <2>7, <2>8
<1>12. QED
  BY <1>8, <1>9, <1>10, <1>11 DEF G!Export

\* Ledger: every step keeps the invariant.
LEMMA LedgerStep == G!Parameters /\ G!IInv /\ [G!Next]_G!vars => G!IInv'
<1>1. SUFFICES ASSUME G!Parameters, G!IInv, [G!Next]_G!vars PROVE G!IInv'
  OBVIOUS
<1>2. CASE \E u, v \in Users : G!Refer(u, v)
  BY <1>1, <1>2, ReferKeeps
<1>3. ASSUME NEW r \in Runs, G!Settlement(r) PROVE G!IInv'
  BY <1>1, <1>3, SettleKeeps, CreditReferralRewardKeeps, CommitKeeps, SettlementFailsKeeps,
     EndDeadlockKeeps, EscalateKeeps DEF G!Settlement
<1>4. CASE \E t \in Trades, s \in {"Disputed", "Completed", "Cancelled"} : G!ChangeStatus(t, s)
  BY <1>1, <1>4, ChangeStatusKeeps
<1>5. CASE G!Restart
  BY <1>1, <1>5, RestartKeeps
<1>6. CASE G!Export
  BY <1>1, <1>6, ExportKeeps
<1>7. CASE UNCHANGED G!vars
  <2>1. UNCHANGED <<G!tables, tx, report, faults>>
    BY <1>7 DEF G!vars
  <2>2. G!TypedTables(G!Tables)' /\ G!WholeTables(G!Tables)'
    BY <1>1, <2>1, TablesKept DEF G!IInv
  <2>3. ASSUME NEW r \in Runs PROVE G!TransactionIsWhole(r)' /\ (G!InTransaction(r)' <=> G!InTransaction(r))
    <3>1. G!TransactionIsWhole(r)
      BY <1>1 DEF G!IInv, G!TransactionsAreWhole
    <3>2. QED
      BY <2>1, <3>1, TransactionKept DEF G!tables
  <2>4. G!TransactionsAreWhole'
    BY <1>1, <2>1, <2>3 DEF G!TransactionsAreWhole, G!IInv
  <2>5. G!ReportIsOfSnapshot' /\ G!ExportsAreSnapshots'
    BY <1>1, <2>1, ReportKept DEF G!IInv
  <2>6. QED
    BY <1>1, <2>1, <2>2, <2>4, <2>5 DEF G!IInv
<1>8. QED
  BY <1>1, <1>2, <1>3, <1>4, <1>5, <1>6, <1>7 DEF G!Next

\* Ledger: the invariant gives what the runs check.
LEMMA LedgerIsWhole == G!Parameters /\ G!IInv => G!TypeOK /\ G!SettlementsAreWhole /\ G!StatsMatchLedger
<1>1. SUFFICES ASSUME G!Parameters, G!IInv PROVE G!TypeOK /\ G!SettlementsAreWhole /\ G!StatsMatchLedger
  OBVIOUS
<1>2. G!TypedTables(G!Tables) /\ G!WholeTables(G!Tables)
  BY <1>1 DEF G!IInv
<1>3. G!TypeOK
  BY <1>1, TypedColumns DEF G!TypeOK, G!IInv, G!TxRow
<1>4. ASSUME NEW t \in Trades
      PROVE  LET S == G!SettlementsOf(t)
             IN  /\ offers[t].charged <=> S # {}
                 /\ offers[t].charged => offers[t].status = "Completed"
                 /\ Cardinality({e.by : e \in S}) <= 1
                 /\ G!Total(G!OfKind(S, "debit")) = G!Total(S \ G!OfKind(S, "debit"))
  <2> DEFINE S == G!SettlementsOf(t)
  <2>1. S = G!TradeRows(G!Tables, t)
    BY <1>1, TypedColumns DEF G!SettlementsOf, G!TradeRows
  <2>2. CASE offers[t].charged
    <3>1. PICK r \in Runs : TradeOf[r] = t /\ S = G!Posted(r) /\ offers[t].status = "Completed"
      BY <1>1, <1>2, <2>1, <2>2, TypedColumns DEF G!WholeTables
    <3>2. /\ S # {} /\ \A e \in S : e.by = r
          /\ G!Total(G!OfKind(S, "debit")) = G!Total(S \ G!OfKind(S, "debit"))
      BY <1>1, <3>1, PostedRows
    <3> HIDE DEF S
    <3>3. {e.by : e \in S} = {r}
      BY <3>2
    <3>4. Cardinality({e.by : e \in S}) <= 1
      <4> DEFINE by == {e.by : e \in S}
      <4> HIDE DEF by
      <4>1. Cardinality({r}) = 1
        BY FS_Singleton
      <4>2. by = {r}
        BY <3>3 DEF by
      <4>3. Cardinality(by) <= 1
        BY <4>1, <4>2
      <4>4. QED
        BY <4>3 DEF by
    <3>5. QED
      BY <2>2, <3>1, <3>2, <3>4 DEF S
  <2>3. CASE ~offers[t].charged
    <3>1. S = {}
      BY <1>1, <1>2, <2>1, <2>3, TypedColumns DEF G!WholeTables
    <3> HIDE DEF S
    <3>2. G!OfKind(S, "debit") = {} /\ S \ G!OfKind(S, "debit") = {} /\ {e.by : e \in S} = {}
      BY <3>1 DEF G!OfKind
    <3>3. Cardinality({e.by : e \in S}) = 0
      BY <3>2, FS_EmptySet
    <3>4. QED
      BY <2>3, <3>1, <3>2, <3>3, LedgerSets DEF S
  <2>4. QED
    BY <2>2, <2>3
<1>5. ASSUME NEW u \in Users
      PROVE  LET paid == {e \in G!OfKind(ledger, "referral_reward") : e.about = u}
             IN  /\ Cardinality(paid) = IF referrals[u].rewarded THEN 1 ELSE 0
                 /\ \A e \in paid : /\ e.user = referrals[u].referrer
                                    /\ u \in {BuyerOf[TradeOf[e.by]], SellerOf[TradeOf[e.by]]}
                                    /\ offers[TradeOf[e.by]].charged
  <2> DEFINE paid == {e \in G!OfKind(ledger, "referral_reward") : e.about = u}
  <2>1. paid = G!RewardRows(G!Tables, u)
    BY <1>1, TypedColumns DEF G!OfKind, G!RewardRows
  <2> HIDE DEF paid
  <2>2. CASE referrals[u].rewarded
    <3>1. PICK r \in Runs : /\ u \in G!Parties(TradeOf[r]) /\ offers[TradeOf[r]].charged
                            /\ paid = {G!RewardRow(G!Tables, r, u)}
      BY <1>1, <1>2, <2>1, <2>2, TypedColumns DEF G!WholeTables
    <3>2. \A e \in paid : e.by = r /\ e.user = referrals[u].referrer
      BY <1>1, <3>1, TypedColumns DEF G!RewardRow, G!CreditEntry
    <3>3. Cardinality(paid) = 1
      BY <3>1, FS_Singleton
    <3>4. QED
      BY <2>2, <3>1, <3>2, <3>3 DEF G!Parties, paid
  <2>3. CASE ~referrals[u].rewarded
    <3>1. paid = {}
      BY <1>1, <1>2, <2>1, <2>3, TypedColumns DEF G!WholeTables
    <3>2. QED
      BY <2>3, <3>1, FS_EmptySet DEF paid
  <2>4. QED
    BY <2>2, <2>3
<1>6. ASSUME NEW u \in Users
      PROVE  G!ReferralStats(u).totalRewardsCredited =
               G!Total({e \in G!OfKind(ledger, "referral_reward") : e.user = u})
  <2> DEFINE verified == G!RewardedOf(G!Tables, u)
             B == G!RewardsTo(G!Tables, u)
  <2>1. /\ IsFiniteSet(B)
        /\ Cardinality(B) = Cardinality(verified)
        /\ \A e \in B : e.amount = Reward
    BY <1>1, <1>2, RewardsOfUser
  <2>2. {e \in G!OfKind(ledger, "referral_reward") : e.user = u} = B
    BY <1>1, TypedColumns DEF G!OfKind, G!RewardsTo
  <2>3. {v \in {w \in Users : referrals[w].referrer = u} : referrals[v].rewarded} = verified
    BY <1>1, TypedColumns DEF G!RewardedOf
  <2>4. G!ReferralStats(u).totalRewardsCredited = Cardinality(verified) * Reward
    BY <2>3, LedgerSets DEF G!ReferralStats
  <2> HIDE DEF verified, B
  <2>5. Reward \in Nat
    BY <1>1 DEF G!Parameters
  <2>6. G!Total(B) = Cardinality(B) * Reward
    BY <2>1, <2>5, TotalOfEqual
  <2>7. QED
    BY <2>1, <2>2, <2>4, <2>6
<1>7. QED
  BY <1>3, <1>4, <1>5, <1>6, LedgerSets DEF G!SettlementsAreWhole, G!StatsMatchLedger

-----------------------------------------------------------------------------
(* The migrations.                                                         *)

\* The least of some files is one of them.
LEMMA LeastIsThere ==
  ASSUME NEW S \in SUBSET Nat, S # {}
  PROVE  D!Min(S) \in S /\ \A n \in S : D!Min(S) <= n
<1>1. PICK m \in S : \A n \in S : ~(<<n, m>> \in OpToRel(<, Nat))
  BY WFMin, NatLessThanWellFounded
<1>2. ASSUME NEW n \in S PROVE m <= n
  <2>1. <<n, m>> \notin {ss \in Nat \X Nat : ss[1] < ss[2]}
    BY <1>1 DEF OpToRel
  <2>2. <<n, m>> \in Nat \X Nat
    OBVIOUS
  <2>3. ~(n < m)
    BY <2>1, <2>2
  <2>4. QED
    BY <2>3
<1>3. QED
  BY <1>1, <1>2 DEF D!Min

\* So is the last record.
LEMMA NewestIsThere ==
  ASSUME D!IInv, migrations # {}
  PROVE  D!Last \in migrations /\ \A m \in migrations : m.id <= D!Last.id
<1> DEFINE N == nextId - 1
           gaps == {N - m.id : m \in migrations}
<1>1. N \in Nat /\ migrations \subseteq [id : 1..N, file : D!Files]
  BY DEF D!IInv, D!Typed
<1>2. gaps \in SUBSET Nat /\ gaps # {}
  BY <1>1
<1>3. PICK m \in migrations : N - m.id = D!Min(gaps)
  <2> HIDE DEF N
  <2>1. D!Min(gaps) \in gaps
    BY <1>2, LeastIsThere
  <2>2. QED
    BY <2>1
<1>4. ASSUME NEW n \in migrations PROVE n.id <= m.id
  <2>1. N - n.id \in gaps
    OBVIOUS
  <2>2. N - m.id <= N - n.id
    BY <1>2, <1>3, <2>1, LeastIsThere
  <2>3. m.id \in Nat /\ n.id \in Nat
    BY <1>1
  <2>4. QED
    BY <1>1, <2>2, <2>3
<1>5. QED
  BY <1>4 DEF D!Last

\* Migrations: nothing is applied or recorded.
LEMMA MigrationsInit == D!Parameters /\ D!Init => D!IInv
<1> SUFFICES ASSUME D!Parameters, D!Init PROVE D!IInv
  OBVIOUS
<1>1. D!Typed
  BY DEF D!Init, D!Typed, D!Parameters, D!Idle
<1>2. D!RunsAreInOrder /\ D!RecordsAreClaimed /\ D!RollbackIsAlone /\ D!IdsAreInOrder
  BY DEF D!Init, D!Idle, D!RunsAreInOrder, D!RecordsAreClaimed, D!RollbackIsAlone, D!IdsAreInOrder
<1>3. D!RecordsMatchSchema /\ D!RecordedInOrder
  BY DEF D!Init, D!RecordsMatchSchema, D!RecordedInOrder, D!Applied
<1>4. QED
  BY <1>1, <1>2, <1>3 DEF D!IInv

\* The file a run is at.
LEMMA CurrentFile ==
  ASSUME D!Parameters, D!IInv, NEW p \in Processes,
         process[p].step \in {"pending", "applied", "recorded"}
  PROVE  /\ process[p].release \in ReleaseDirs /\ process[p].release \subseteq D!Files
         /\ process[p].pending \subseteq process[p].release
         /\ process[p].release \ process[p].pending \subseteq D!Applied
         /\ D!Current(p) \in process[p].pending /\ D!Current(p) \in D!Files /\ D!Current(p) \in Nat
         /\ \A f \in process[p].pending : f \in Nat /\ D!Current(p) <= f
<1>1. process[p] \in D!RunRow \cup D!RecordRow
  BY DEF D!IInv, D!Typed, D!RollbackRow
<1>2. process[p].release \in ReleaseDirs
  BY <1>1 DEF D!RunRow, D!RecordRow
<1>3. process[p].release \subseteq D!Files
  BY <1>2 DEF D!Files
<1>4. D!Files \subseteq Nat
  BY DEF D!Files, D!Parameters
<1>5. /\ process[p].pending \subseteq process[p].release
      /\ process[p].release \ process[p].pending \subseteq D!Applied
      /\ process[p].pending # {}
  BY DEF D!IInv, D!RunsAreInOrder
<1>6. process[p].pending \in SUBSET Nat
  BY <1>3, <1>4, <1>5
<1>7. QED
  BY <1>2, <1>3, <1>4, <1>5, <1>6, LeastIsThere DEF D!Current

\* A step of one process that leaves the tables alone.
LEMMA OneProcessMoves ==
  ASSUME D!Parameters, D!IInv, NEW p \in Processes, NEW row,
         UNCHANGED D!table, nextId' \in Nat, nextId' >= nextId,
         starts' \in 0..MaxStarts, faults' \in 0..MigrationFaults,
         process' = [process EXCEPT ![p] = row],
         row \in [step : {"idle"}] \cup D!RunRow \cup D!RecordRow' \cup D!RollbackRow,
         row.step # "reverting",
         \A q \in Processes \ {p} : process[q].step = "reverting" => row.step = "idle",
         row.step \in {"pending", "applied", "recorded", "succeeded"} =>
           /\ row.pending \subseteq row.release
           /\ row.release \ row.pending \subseteq D!Applied
           /\ row.pending = {} <=> row.step = "succeeded",
         row.step = "recorded" =>
           /\ D!Min(row.pending) \notin D!Applied
           /\ \A q \in Processes \ {p} :
                process[q].step = "recorded" => D!Current(q) # D!Min(row.pending)
           /\ \A m \in migrations : m.file \in row.release \ row.pending => m.id < row.id
  PROVE  D!IInv'
<1>0. /\ process' \in [Processes -> [step : {"idle"}] \cup D!RunRow \cup D!RecordRow' \cup D!RollbackRow']
      /\ process'[p] = row /\ \A q \in Processes \ {p} : process'[q] = process[q]
  <2>0. nextId \in Nat
    BY DEF D!IInv, D!Typed
  <2>1. \A i \in 1..(nextId - 1) : i \in 1..(nextId' - 1)
    <3>1. \A m, n \in Nat : n >= m => \A i \in 1..(m - 1) : i \in 1..(n - 1)
      OBVIOUS
    <3>2. QED
      BY ONLY <2>0, <3>1, nextId' \in Nat, nextId' >= nextId
  <2>2. D!RecordRow \subseteq D!RecordRow'
    BY <2>1 DEF D!RecordRow
  <2>3. D!RollbackRow \subseteq D!RollbackRow'
    BY <2>1 DEF D!RollbackRow
  <2>4. process \in [Processes -> [step : {"idle"}] \cup D!RunRow \cup D!RecordRow \cup D!RollbackRow]
    BY DEF D!IInv, D!Typed
  <2>5. QED
    BY <2>2, <2>3, <2>4
<1>1. D!Typed'
  <2>1. migrations \subseteq [id : 1..(nextId' - 1), file : D!Files]
    BY DEF D!IInv, D!Typed
  <2>2. nextId' \in Nat \ {0}
    BY DEF D!IInv, D!Typed
  <2>3. QED
    BY <1>0, <2>1, <2>2 DEF D!IInv, D!Typed, D!table, D!RunRow
<1>2. D!Applied' = D!Applied
  BY DEF D!Applied, D!table
<1>3. D!RunsAreInOrder'
  BY <1>0, <1>2 DEF D!IInv, D!RunsAreInOrder
<1>4. \A q \in Processes \ {p} : D!Current(q)' = D!Current(q)
  BY <1>0 DEF D!Current
<1>5. D!Current(p)' = D!Min(row.pending)
  BY <1>0 DEF D!Current
<1>6. D!RecordsAreClaimed'
  <2> SUFFICES ASSUME NEW q \in Processes, process'[q].step = "recorded"
               PROVE  /\ D!Current(q)' \notin D!Applied'
                      /\ \A o \in Processes \ {q} :
                           process'[o].step = "recorded" => D!Current(o)' # D!Current(q)'
                      /\ \A m \in migrations' :
                           m.file \in process'[q].release \ process'[q].pending
                             => m.id < process'[q].id
    BY DEF D!RecordsAreClaimed
  <2>1. CASE q = p
    BY <1>0, <1>2, <1>4, <1>5, <2>1 DEF D!table
  <2>2. CASE q # p
    BY <1>0, <1>2, <1>4, <1>5, <2>2 DEF D!IInv, D!RecordsAreClaimed, D!table
  <2>3. QED
    BY <2>1, <2>2
<1>7. D!RollbackIsAlone'
  BY <1>0 DEF D!IInv, D!RollbackIsAlone, D!table
<1>8. D!IdsAreInOrder' /\ D!RecordsMatchSchema' /\ D!RecordedInOrder'
  BY <1>2 DEF D!IInv, D!IdsAreInOrder, D!RecordsMatchSchema, D!RecordedInOrder, D!table
<1>9. QED
  BY <1>1, <1>3, <1>6, <1>7, <1>8 DEF D!IInv
\* A run that reads the table has nothing pending that is recorded.
LEMMA RunMigrationsKeeps ==
  ASSUME D!Parameters, D!IInv, NEW p \in Processes, NEW d \in ReleaseDirs, D!RunMigrations(p, d)
  PROVE  D!IInv'
<1> DEFINE row == D!Rest(d, d \ D!Applied)
<1>1. /\ process' = [process EXCEPT ![p] = row]
      /\ UNCHANGED <<D!table, nextId, faults>> /\ starts' = starts + 1 /\ starts < MaxStarts
      /\ \A q \in Processes : process[q].step # "reverting"
  BY DEF D!RunMigrations, D!Start
<1>2. d \subseteq D!Files
  BY DEF D!Files
<1>3. /\ row \in D!RunRow /\ row.release = d /\ row.pending = d \ D!Applied
      /\ row.step \in {"pending", "succeeded"} /\ (row.pending = {} <=> row.step = "succeeded")
  BY <1>2 DEF D!Rest, D!RunRow
<1>4. nextId' \in Nat /\ nextId' >= nextId /\ starts' \in 0..MaxStarts /\ faults' \in 0..MigrationFaults
  BY <1>1 DEF D!IInv, D!Typed, D!Parameters
<1> HIDE DEF row
<1>5. QED
  BY <1>1, <1>3, <1>4, OneProcessMoves

\* A statement of a run whose file is not recorded yet; and one that fails.
LEMMA RunMovesOn ==
  ASSUME D!Parameters, D!IInv, NEW p \in Processes, NEW step \in {"applied", "failed"},
         \/ process[p].step \in {"applied", "recorded", "pending"} /\ step = "failed"
         \/ process[p].step = "pending",
         D!Goto(p, step), UNCHANGED D!table, nextId' \in Nat, nextId' >= nextId,
         UNCHANGED starts, faults' \in 0..MigrationFaults
  PROVE  D!IInv'
<1> DEFINE row == [process[p] EXCEPT !.step = step]
<1>1. process[p] \in D!RunRow \cup D!RecordRow
  BY DEF D!IInv, D!Typed, D!RollbackRow
<1>2. CASE process[p] \in D!RunRow
  <2>1. /\ row \in D!RunRow /\ row.step = step /\ row.release = process[p].release
        /\ row.pending = process[p].pending
    BY <1>2 DEF D!RunRow
  <2>2. step = "applied" =>
          /\ process[p].pending \subseteq process[p].release
          /\ process[p].release \ process[p].pending \subseteq D!Applied
          /\ process[p].pending # {}
    BY DEF D!IInv, D!RunsAreInOrder
  <2>3. \A q \in Processes \ {p} : process[q].step # "reverting"
    BY DEF D!IInv, D!RollbackIsAlone
  <2>4. process' = [process EXCEPT ![p] = row]
    BY DEF D!Goto
  <2>5. starts' \in 0..MaxStarts
    BY DEF D!IInv, D!Typed
  <2> HIDE DEF row
  <2>6. QED
    BY <2>1, <2>2, <2>3, <2>4, <2>5, OneProcessMoves
<1>3. CASE process[p] \in D!RecordRow
  <2>0. process[p] \in [step : {"recorded", "failed"}, release : ReleaseDirs,
                        pending : SUBSET D!Files, id : 1..(nextId' - 1)]
    <3>1. nextId \in Nat
      BY DEF D!IInv, D!Typed
    <3>2. QED
      BY <1>3, <3>1 DEF D!RecordRow
  <2>1. process[p].step = "recorded"
    BY <1>3 DEF D!RecordRow
  <2>2. row \in D!RecordRow' /\ row.step = "failed"
    BY <2>0, <2>1 DEF D!RecordRow
  <2>3. \A q \in Processes \ {p} : process[q].step # "reverting"
    BY <2>1 DEF D!IInv, D!RollbackIsAlone
  <2>4. process' = [process EXCEPT ![p] = row]
    BY DEF D!Goto
  <2>5. starts' \in 0..MaxStarts
    BY DEF D!IInv, D!Typed
  <2> HIDE DEF row
  <2>6. QED
    BY <2>2, <2>3, <2>4, <2>5, OneProcessMoves
<1>4. QED
  BY <1>1, <1>2, <1>3

\* A file's statements are applied in the transaction.
LEMMA ApplyKeeps ==
  ASSUME D!Parameters, D!IInv, NEW p \in Processes, D!Apply(p)
  PROVE  D!IInv'
<1>1. /\ process[p].step = "pending" /\ D!Goto(p, "applied")
      /\ UNCHANGED <<D!table, nextId, starts, faults>>
  BY DEF D!Apply
<1>2. nextId' \in Nat /\ nextId' >= nextId /\ faults' \in 0..MigrationFaults
  BY <1>1 DEF D!IInv, D!Typed
<1>3. QED
  BY <1>1, <1>2, RunMovesOn

\* A file that fails: its transaction is rolled back, and the run ends.
LEMMA FileFailsKeeps ==
  ASSUME D!Parameters, D!IInv, NEW p \in Processes, D!FileFails(p)
  PROVE  D!IInv'
<1>1. /\ process[p].step \in {"applied", "recorded"} /\ D!Goto(p, "failed")
      /\ UNCHANGED <<D!table, nextId, starts>> /\ faults < MigrationFaults /\ faults' = faults + 1
  BY DEF D!FileFails, D!Fault
<1>2. nextId' \in Nat /\ nextId' >= nextId /\ faults' \in 0..MigrationFaults
  BY <1>1 DEF D!IInv, D!Typed, D!Parameters
<1>3. QED
  BY <1>1, <1>2, RunMovesOn

\* The record is given the next id, or the file is recorded and the run fails.
LEMMA InsertRecordKeeps ==
  ASSUME D!Parameters, D!IInv, NEW p \in Processes, D!InsertRecord(p)
  PROVE  D!IInv'
<1>1. /\ process[p].step = "applied" /\ nextId' = nextId + 1
      /\ UNCHANGED <<D!table, starts, faults>>
      /\ \A q \in Processes : process[q].step = "recorded" => D!Current(q) # D!Current(p)
  BY DEF D!InsertRecord
<1>2. /\ nextId' \in Nat /\ nextId' >= nextId /\ nextId \in Nat \ {0}
      /\ starts' \in 0..MaxStarts /\ faults' \in 0..MigrationFaults
  BY <1>1 DEF D!IInv, D!Typed
<1>3. CASE D!Current(p) \in D!Applied
  <2>1. D!Goto(p, "failed")
    BY <1>3 DEF D!InsertRecord
  <2>2. QED
    BY <1>1, <1>2, <2>1, RunMovesOn
<1>4. CASE D!Current(p) \notin D!Applied
  <2> DEFINE row == [step |-> "recorded", release |-> process[p].release,
                     pending |-> process[p].pending, id |-> nextId]
  <2>1. process' = [process EXCEPT ![p] = row]
    BY <1>4 DEF D!InsertRecord
  <2>2. /\ process[p].release \in ReleaseDirs /\ process[p].release \subseteq D!Files
        /\ process[p].pending \subseteq process[p].release
        /\ process[p].release \ process[p].pending \subseteq D!Applied
        /\ D!Current(p) \in process[p].pending
    BY <1>1, CurrentFile
  <2>3. /\ row.step = "recorded" /\ row.release = process[p].release
        /\ row.pending = process[p].pending /\ row.id = nextId
    OBVIOUS
  <2>4. row \in D!RecordRow'
    BY <1>1, <1>2, <2>2 DEF D!RecordRow
  <2>5. D!Min(row.pending) = D!Current(p) /\ row.pending # {}
    BY <2>2, <2>3 DEF D!Current
  <2>6. \A m \in migrations : m.id < nextId
    BY <1>2 DEF D!IInv, D!Typed
  <2>7. \A q \in Processes \ {p} : process[q].step # "reverting"
    BY <1>1 DEF D!IInv, D!RollbackIsAlone
  <2> HIDE DEF row
  <2>8. QED
    BY <1>1, <1>2, <1>4, <2>1, <2>2, <2>3, <2>4, <2>5, <2>6, <2>7, OneProcessMoves
<1>5. QED
  BY <1>3, <1>4
\* A record that is committed: its file is recorded once, after what goes before it.
LEMMA CommittedKeeps ==
  ASSUME D!Parameters, D!IInv, NEW p \in Processes, process[p].step = "recorded", D!Committed(p),
         UNCHANGED <<nextId, starts>>, faults' \in 0..MigrationFaults,
         NEW row, process' = [process EXCEPT ![p] = row],
         row \in D!RunRow \cup D!RecordRow,
         \/ row.step = "failed"
         \/ /\ row.step \in {"pending", "succeeded"}
            /\ row.release = process[p].release
            /\ row.pending = process[p].pending \ {D!Current(p)}
            /\ row.pending = {} <=> row.step = "succeeded"
  PROVE  D!IInv'
<1> DEFINE f == D!Current(p)
           release == process[p].release
           new == [id |-> process[p].id, file |-> f]
<1>1. /\ release \in ReleaseDirs /\ release \subseteq D!Files
      /\ process[p].pending \subseteq release
      /\ release \ process[p].pending \subseteq D!Applied
      /\ f \in process[p].pending /\ f \in D!Files /\ f \in Nat
      /\ \A g \in process[p].pending : g \in Nat /\ f <= g
  BY CurrentFile
<1>2. /\ process[p].id \in 1..(nextId - 1) /\ f \notin D!Applied
      /\ \A q \in Processes \ {p} : process[q].step = "recorded" => D!Current(q) # f
      /\ \A m \in migrations : m.file \in release \ process[p].pending => m.id < process[p].id
  <2>1. process[p] \in D!RecordRow
    BY DEF D!IInv, D!Typed, D!RunRow, D!RollbackRow
  <2>2. process[p].id \in 1..(nextId - 1)
    BY <2>1 DEF D!RecordRow
  <2>3. QED
    BY <2>2 DEF D!IInv, D!RecordsAreClaimed
<1>3. /\ schema' = schema \cup {f} /\ migrations' = migrations \cup {new}
      /\ recordedBy' = [recordedBy EXCEPT ![f] = release] /\ left' = left \ {f}
  BY DEF D!Committed
<1>4. new.id = process[p].id /\ new.file = f /\ new \in [id : 1..(nextId - 1), file : D!Files]
  BY <1>1, <1>2
<1> HIDE DEF f, release, new
<1>5. D!Applied' = D!Applied \cup {f}
  BY <1>3, <1>4 DEF D!Applied
<1>6. /\ process'[p] = row /\ \A q \in Processes \ {p} : process'[q] = process[q]
      /\ \A q \in Processes \ {p} : D!Current(q)' = D!Current(q)
  BY DEF D!IInv, D!Typed, D!Current
<1>7. D!Typed'
  <2>1. D!RecordRow' = D!RecordRow /\ D!RollbackRow' = D!RollbackRow
    BY DEF D!RecordRow, D!RollbackRow
  <2>2. process' \in [Processes -> [step : {"idle"}] \cup D!RunRow \cup D!RecordRow' \cup D!RollbackRow']
    BY <2>1 DEF D!IInv, D!Typed
  <2>3. migrations' \subseteq [id : 1..(nextId - 1), file : D!Files]
    BY <1>3, <1>4 DEF D!IInv, D!Typed
  <2>4. recordedBy' \in [D!Files -> SUBSET D!Files]
    BY <1>1, <1>3 DEF D!IInv, D!Typed
  <2>5. schema' \subseteq D!Files /\ left' \subseteq D!Files
    BY <1>1, <1>3 DEF D!IInv, D!Typed
  <2>6. QED
    BY <2>2, <2>3, <2>4, <2>5 DEF D!IInv, D!Typed, D!RunRow
<1>8. D!RunsAreInOrder'
  <2> SUFFICES ASSUME NEW q \in Processes,
                      process'[q].step \in {"pending", "applied", "recorded", "succeeded"}
               PROVE  /\ process'[q].pending \subseteq process'[q].release
                      /\ process'[q].release \ process'[q].pending \subseteq D!Applied'
                      /\ process'[q].pending = {} <=> process'[q].step = "succeeded"
    BY DEF D!RunsAreInOrder
  <2>1. CASE q = p
    BY <1>1, <1>5, <1>6, <2>1 DEF release, f
  <2>2. CASE q # p
    BY <1>5, <1>6, <2>2 DEF D!IInv, D!RunsAreInOrder
  <2>3. QED
    BY <2>1, <2>2
<1>9. D!RecordsAreClaimed'
  <2> SUFFICES ASSUME NEW q \in Processes, process'[q].step = "recorded"
               PROVE  /\ D!Current(q)' \notin D!Applied'
                      /\ \A o \in Processes \ {q} :
                           process'[o].step = "recorded" => D!Current(o)' # D!Current(q)'
                      /\ \A m \in migrations' :
                           m.file \in process'[q].release \ process'[q].pending
                             => m.id < process'[q].id
    BY DEF D!RecordsAreClaimed
  <2>1. q # p /\ process[q].step = "recorded" /\ process'[q] = process[q]
    BY <1>6
  <2>2. D!Current(q)' = D!Current(q) /\ D!Current(q) # f /\ D!Current(q) \notin D!Applied
    BY <1>2, <1>6, <2>1 DEF D!IInv, D!RecordsAreClaimed
  <2>3. \A o \in Processes \ {q} : process'[o].step = "recorded" => D!Current(o)' # D!Current(q)'
    BY <1>6, <2>1, <2>2 DEF D!IInv, D!RecordsAreClaimed
  <2>4. process[q].release \ process[q].pending \subseteq D!Applied
    BY <2>1 DEF D!IInv, D!RunsAreInOrder
  <2>5. \A m \in migrations : m.file \in process[q].release \ process[q].pending
                                => m.id < process[q].id
    BY <2>1 DEF D!IInv, D!RecordsAreClaimed
  <2>6. new.file \notin process[q].release \ process[q].pending
    BY <1>2, <1>4, <2>4
  <2>7. QED
    BY <1>3, <1>5, <2>1, <2>2, <2>3, <2>5, <2>6
<1>10. D!RollbackIsAlone'
  BY <1>6 DEF D!IInv, D!RollbackIsAlone
<1>11. D!IdsAreInOrder'
  <2> SUFFICES ASSUME NEW m \in migrations', NEW n \in migrations',
                      n.file \in recordedBy'[m.file], n.file < m.file
               PROVE  n.id < m.id
    BY DEF D!IdsAreInOrder
  <2>1. /\ migrations \subseteq [id : 1..(nextId - 1), file : D!Files]
        /\ recordedBy \in [D!Files -> SUBSET D!Files]
    BY DEF D!IInv, D!Typed
  <2>2. \A o \in migrations : o.file \in D!Applied /\ o.file # f /\ o.file \in D!Files
    BY <1>2, <2>1 DEF D!Applied
  <2>3. CASE m = new
    <3>1. recordedBy'[m.file] = release
      BY <1>1, <1>3, <1>4, <2>1, <2>3
    <3>2. n \in migrations /\ n.file \in release /\ n.file < f
      <4>1. f \in Nat
        BY <1>1
      <4>2. n # new
        BY <1>4, <2>3, <4>1
      <4>3. QED
        BY <1>3, <1>4, <2>3, <3>1, <4>2
    <3>3. n.file \notin process[p].pending
      BY <1>1, <3>2
    <3>4. QED
      BY <1>2, <1>4, <2>3, <3>2, <3>3
  <2>4. CASE m # new
    <3>1. m \in migrations /\ m.file \in D!Applied /\ m.file # f
      BY <1>3, <2>2, <2>4
    <3>2. recordedBy'[m.file] = recordedBy[m.file]
      BY <1>1, <1>3, <2>1, <2>2, <3>1
    <3>3. n.file \in D!Applied
      BY <3>1, <3>2 DEF D!IInv, D!RecordedInOrder
    <3>4. n \in migrations
      BY <1>2, <1>3, <1>4, <3>3
    <3>5. QED
      BY <3>1, <3>2, <3>4 DEF D!IInv, D!IdsAreInOrder
  <2>5. QED
    BY <2>3, <2>4
<1>12. D!RecordsMatchSchema'
  <2>1. \A m \in migrations : m.file # f
    BY <1>2 DEF D!Applied
  <2>2. \A m, n \in migrations' : m.file = n.file => m = n
    BY <1>3, <1>4, <2>1 DEF D!IInv, D!RecordsMatchSchema
  <2>3. D!Applied \subseteq schema /\ schema \ D!Applied = left
    BY DEF D!IInv, D!RecordsMatchSchema
  <2>4. D!Applied' \subseteq schema' /\ schema' \ D!Applied' = left'
    BY <1>3, <1>5, <2>3
  <2>5. QED
    BY <2>2, <2>4 DEF D!RecordsMatchSchema
<1>13. D!RecordedInOrder'
  <2> SUFFICES ASSUME NEW g \in D!Applied', NEW h \in recordedBy'[g], h < g
               PROVE  h \in D!Applied'
    BY DEF D!RecordedInOrder
  <2>1. CASE g = f
    <3>1. h \in release
      BY <1>1, <1>3, <2>1 DEF D!IInv, D!Typed
    <3>2. h \notin process[p].pending
      BY <1>1, <2>1
    <3>3. QED
      BY <1>1, <1>5, <3>1, <3>2
  <2>2. CASE g # f
    <3>1. g \in D!Applied /\ g \in D!Files
      BY <1>5, <2>2 DEF D!IInv, D!Typed, D!Applied
    <3>2. recordedBy'[g] = recordedBy[g]
      BY <1>3, <2>2, <3>1 DEF D!IInv, D!Typed
    <3>3. QED
      BY <1>5, <3>1, <3>2 DEF D!IInv, D!RecordedInOrder
  <2>3. QED
    BY <2>1, <2>2
<1>14. QED
  BY <1>7, <1>8, <1>9, <1>10, <1>11, <1>12, <1>13 DEF D!IInv

\* The file and its record are committed together.
LEMMA CommitFileKeeps ==
  ASSUME D!Parameters, D!IInv, NEW p \in Processes,
         D!CommitFile(p) \/ D!CommitUnclear(p)
  PROVE  D!IInv'
<1>1. process[p].step = "recorded" /\ D!Committed(p) /\ UNCHANGED <<nextId, starts>>
  BY DEF D!CommitFile, D!CommitUnclear
<1>2. faults' \in 0..MigrationFaults
  BY DEF D!CommitFile, D!CommitUnclear, D!Fault, D!IInv, D!Typed, D!Parameters
<1>3. CASE D!CommitFile(p)
  <2> DEFINE row == D!Rest(process[p].release, process[p].pending \ {D!Current(p)})
  <2>1. process' = [process EXCEPT ![p] = row]
    BY <1>3 DEF D!CommitFile
  <2>2. process[p].release \in ReleaseDirs /\ process[p].pending \subseteq D!Files
    BY <1>1, CurrentFile
  <2>3. /\ row \in D!RunRow /\ row.step \in {"pending", "succeeded"}
        /\ row.release = process[p].release
        /\ row.pending = process[p].pending \ {D!Current(p)}
        /\ (row.pending = {} <=> row.step = "succeeded")
    BY <2>2 DEF D!Rest, D!RunRow
  <2> HIDE DEF row
  <2>4. QED
    BY <1>1, <1>2, <2>1, <2>3, CommittedKeeps
<1>4. CASE D!CommitUnclear(p)
  <2> DEFINE row == [process[p] EXCEPT !.step = "failed"]
  <2>1. process' = [process EXCEPT ![p] = row]
    BY <1>4 DEF D!CommitUnclear, D!Goto
  <2>2. process[p] \in D!RecordRow
    BY <1>1 DEF D!IInv, D!Typed, D!RunRow, D!RollbackRow
  <2>3. row \in D!RecordRow /\ row.step = "failed"
    BY <2>2 DEF D!RecordRow
  <2> HIDE DEF row
  <2>4. QED
    BY <1>1, <1>2, <2>1, <2>3, CommittedKeeps
<1>5. QED
  BY <1>3, <1>4

\* A rollback starts with the newest record, and nothing else under way.
LEMMA RollbackLastMigrationKeeps ==
  ASSUME D!Parameters, D!IInv, NEW p \in Processes, D!RollbackLastMigration(p)
  PROVE  D!IInv'
<1> DEFINE row == [step |-> "reverting", record |-> D!Last]
<1>1. /\ migrations # {} /\ starts < MaxStarts /\ starts' = starts + 1
      /\ process' = [q \in Processes |-> IF q = p THEN row ELSE D!Idle]
      /\ UNCHANGED <<D!table, nextId, faults>>
  BY DEF D!RollbackLastMigration, D!Start
<1>2. D!Last \in migrations /\ \A m \in migrations : m.id <= D!Last.id
  BY <1>1, NewestIsThere
<1>3. /\ row \in D!RollbackRow /\ row.step = "reverting" /\ row.record = D!Last
      /\ D!Idle \in [step : {"idle"}] /\ D!Idle.step = "idle"
  BY <1>2 DEF D!IInv, D!Typed, D!RollbackRow, D!Idle
<1> HIDE DEF row
<1>4. process'[p] = row /\ \A q \in Processes \ {p} : process'[q] = D!Idle
  BY <1>1
<1>5. D!Typed'
  <2>1. D!RecordRow' = D!RecordRow /\ D!RollbackRow' = D!RollbackRow
    BY <1>1 DEF D!RecordRow, D!RollbackRow
  <2>2. process' \in [Processes -> [step : {"idle"}] \cup D!RunRow \cup D!RecordRow' \cup D!RollbackRow']
    BY <1>1, <1>3, <2>1
  <2>3. starts' \in 0..MaxStarts
    BY <1>1 DEF D!IInv, D!Typed, D!Parameters
  <2>4. QED
    BY <1>1, <2>2, <2>3 DEF D!IInv, D!Typed, D!table, D!RunRow
<1>6. D!Applied' = D!Applied
  BY <1>1 DEF D!Applied, D!table
<1>7. \A q \in Processes : process'[q].step \in {"idle", "reverting"}
  BY <1>3, <1>4
<1>8. D!RunsAreInOrder' /\ D!RecordsAreClaimed'
  BY <1>7 DEF D!RunsAreInOrder, D!RecordsAreClaimed
<1>9. D!RollbackIsAlone'
  BY <1>1, <1>2, <1>3, <1>4 DEF D!RollbackIsAlone, D!table
<1>10. D!IdsAreInOrder' /\ D!RecordsMatchSchema' /\ D!RecordedInOrder'
  BY <1>1, <1>6 DEF D!IInv, D!IdsAreInOrder, D!RecordsMatchSchema, D!RecordedInOrder, D!table
<1>11. QED
  BY <1>5, <1>8, <1>9, <1>10 DEF D!IInv

\* The newest record is removed, and nothing was recorded after it that needs it.
LEMMA RevertKeeps ==
  ASSUME D!Parameters, D!IInv, NEW p \in Processes, D!Revert(p)
  PROVE  D!IInv'
<1> DEFINE record == process[p].record
           f == record.file
           row == [process[p] EXCEPT !.step = "idle"]
<1>1. /\ process[p].step = "reverting" /\ UNCHANGED <<nextId, starts, faults>>
      /\ migrations' = migrations \ {record}
      /\ schema' = IF D!Reverts(f) THEN schema \ {f} ELSE schema
      /\ left' = IF D!Reverts(f) THEN left ELSE left \cup {f}
      /\ recordedBy' = [recordedBy EXCEPT ![f] = {}]
      /\ process' = [process EXCEPT ![p] = row]
  BY DEF D!Revert, D!Goto
<1>2. process[p] \in D!RollbackRow
  BY <1>1 DEF D!IInv, D!Typed, D!RunRow, D!RecordRow
<1>3. row \in D!RollbackRow /\ row.step = "idle"
  BY <1>2 DEF D!RollbackRow
<1>4. /\ record \in migrations /\ \A m \in migrations : m.id <= record.id
      /\ \A q \in Processes \ {p} : process[q].step = "idle"
  BY <1>1 DEF D!IInv, D!RollbackIsAlone
<1>5. f \in D!Files /\ f \in D!Applied
  BY <1>4 DEF D!IInv, D!Typed, D!Applied
<1>6. /\ migrations \subseteq [id : 1..(nextId - 1), file : D!Files]
      /\ recordedBy \in [D!Files -> SUBSET D!Files] /\ nextId \in Nat
  BY DEF D!IInv, D!Typed
<1>7. \A m, n \in migrations : m.file = n.file => m = n
  BY DEF D!IInv, D!RecordsMatchSchema
<1>8. f = record.file
  OBVIOUS
<1> HIDE DEF row, record, f
<1>9. D!Applied' = D!Applied \ {f}
  <2>1. \A m \in migrations : m.file = f <=> m = record
    BY <1>4, <1>7, <1>8
  <2>2. QED
    BY <1>1, <2>1 DEF D!Applied
<1>10. \A q \in Processes : process'[q].step = "idle"
  BY <1>1, <1>3, <1>4 DEF D!IInv, D!Typed
<1>11. D!RunsAreInOrder' /\ D!RecordsAreClaimed' /\ D!RollbackIsAlone'
  BY <1>10 DEF D!RunsAreInOrder, D!RecordsAreClaimed, D!RollbackIsAlone
<1>12. D!Typed'
  <2>1. D!RecordRow' = D!RecordRow /\ D!RollbackRow' = D!RollbackRow
    BY <1>1 DEF D!RecordRow, D!RollbackRow
  <2>2. process' \in [Processes -> [step : {"idle"}] \cup D!RunRow \cup D!RecordRow' \cup D!RollbackRow']
    BY <1>1, <1>3, <2>1 DEF D!IInv, D!Typed
  <2>3. recordedBy' \in [D!Files -> SUBSET D!Files]
    BY <1>1, <1>6
  <2>4. schema' \subseteq D!Files /\ left' \subseteq D!Files
    BY <1>1, <1>5 DEF D!IInv, D!Typed
  <2>5. migrations' \subseteq [id : 1..(nextId - 1), file : D!Files]
    BY <1>1, <1>6
  <2>6. QED
    BY <1>1, <2>2, <2>3, <2>4, <2>5 DEF D!IInv, D!Typed, D!RunRow
<1>13. D!RecordsMatchSchema'
  <2>1. D!Applied \subseteq schema /\ schema \ D!Applied = left
    BY DEF D!IInv, D!RecordsMatchSchema
  <2>2. D!Applied' \subseteq schema' /\ schema' \ D!Applied' = left'
    BY <1>1, <1>5, <1>9, <2>1
  <2>3. QED
    BY <1>1, <1>7, <2>2 DEF D!RecordsMatchSchema
<1>14. D!IdsAreInOrder'
  <2> SUFFICES ASSUME NEW m \in migrations', NEW n \in migrations',
                      n.file \in recordedBy'[m.file], n.file < m.file
               PROVE  n.id < m.id
    BY DEF D!IdsAreInOrder
  <2>1. m \in migrations /\ n \in migrations /\ m.file \in D!Files
    BY <1>1, <1>6
  <2>2. n.file \in recordedBy[m.file]
    BY <1>1, <1>5, <1>6, <2>1
  <2>3. QED
    BY <2>1, <2>2 DEF D!IInv, D!IdsAreInOrder
<1>15. D!RecordedInOrder'
  <2> SUFFICES ASSUME NEW g \in D!Applied', NEW h \in recordedBy'[g], h < g
               PROVE  h \in D!Applied'
    BY DEF D!RecordedInOrder
  <2>1. g \in D!Applied /\ g # f
    BY <1>9
  <2>2. PICK m \in migrations : m.file = g
    BY <2>1 DEF D!Applied
  <2>3. g \in D!Files
    BY <1>6, <2>2
  <2>4. h \in recordedBy[g]
    BY <1>1, <1>5, <1>6, <2>1, <2>3
  <2>5. h \in D!Applied
    BY <2>1, <2>4 DEF D!IInv, D!RecordedInOrder
  <2>6. ASSUME h = f PROVE FALSE
    <3>1. record.id < m.id
      BY <1>4, <1>8, <2>2, <2>4, <2>6 DEF D!IInv, D!IdsAreInOrder
    <3>2. m.id <= record.id /\ m.id \in Nat /\ record.id \in Nat
      BY <1>4, <1>6, <2>2
    <3>3. QED
      BY <3>1, <3>2
  <2>7. QED
    BY <1>9, <2>5, <2>6
<1>16. QED
  BY <1>11, <1>12, <1>13, <1>14, <1>15 DEF D!IInv

\* A rollback that fails changes nothing.
LEMMA RevertFailsKeeps ==
  ASSUME D!Parameters, D!IInv, NEW p \in Processes, D!RevertFails(p)
  PROVE  D!IInv'
<1> DEFINE row == [process[p] EXCEPT !.step = "failed"]
<1>1. /\ process[p].step = "reverting" /\ UNCHANGED <<D!table, nextId, starts>>
      /\ faults < MigrationFaults /\ faults' = faults + 1 /\ process' = [process EXCEPT ![p] = row]
  BY DEF D!RevertFails, D!Goto, D!Fault
<1>2. process[p] \in D!RollbackRow
  BY <1>1 DEF D!IInv, D!Typed, D!RunRow, D!RecordRow
<1>3. row \in D!RollbackRow /\ row.step = "failed"
  BY <1>2 DEF D!RollbackRow
<1>4. \A q \in Processes \ {p} : process[q].step # "reverting"
  BY <1>1 DEF D!IInv, D!RollbackIsAlone
<1>5. /\ nextId' \in Nat /\ nextId' >= nextId /\ starts' \in 0..MaxStarts
      /\ faults' \in 0..MigrationFaults
  BY <1>1 DEF D!IInv, D!Typed, D!Parameters
<1> HIDE DEF row
<1>6. QED
  BY <1>1, <1>3, <1>4, <1>5, OneProcessMoves

\* Migrations: every step keeps the invariant.
LEMMA MigrationsStep == D!Parameters /\ D!IInv /\ [D!Next]_D!vars => D!IInv'
<1> SUFFICES ASSUME D!Parameters, D!IInv, [D!Next]_D!vars PROVE D!IInv'
  OBVIOUS
<1>1. CASE UNCHANGED D!vars
  <2>1. UNCHANGED <<schema, migrations, left, recordedBy, nextId, process, starts, faults>>
    BY <1>1 DEF D!vars, D!table
  <2>2. D!Applied' = D!Applied /\ \A p \in Processes : D!Current(p)' = D!Current(p)
    BY <2>1 DEF D!Applied, D!Current
  <2>3. D!Typed' /\ D!RunsAreInOrder' /\ D!RollbackIsAlone' /\ D!IdsAreInOrder'
    BY <2>1, <2>2 DEF D!IInv, D!Typed, D!RunsAreInOrder, D!RollbackIsAlone, D!IdsAreInOrder, D!RunRow,
                      D!RecordRow, D!RollbackRow
  <2>4. D!RecordsAreClaimed' /\ D!RecordsMatchSchema' /\ D!RecordedInOrder'
    BY <2>1, <2>2 DEF D!IInv, D!RecordsAreClaimed, D!RecordsMatchSchema, D!RecordedInOrder
  <2>5. QED
    BY <2>3, <2>4 DEF D!IInv
<1>2. CASE D!Next
  BY <1>2, RunMigrationsKeeps, ApplyKeeps, InsertRecordKeeps, CommitFileKeeps, FileFailsKeeps,
     RollbackLastMigrationKeeps, RevertKeeps, RevertFailsKeeps DEF D!Next
<1>3. QED
  BY <1>1, <1>2

\* Migrations: the invariant gives what the runs check.
LEMMA MigrationsAreSafe == D!IInv => D!TypeOK /\ D!RecordsMatchSchema /\ D!RecordedInOrder /\ D!SuccessIsWhole
<1> SUFFICES ASSUME D!IInv PROVE D!TypeOK /\ D!SuccessIsWhole
  BY DEF D!IInv
<1>1. D!TypeOK
  BY DEF D!IInv, D!Typed, D!TypeOK, D!RunRow, D!RecordRow, D!RollbackRow, D!Ended
<1>2. D!SuccessIsWhole
  BY DEF D!IInv, D!RunsAreInOrder, D!SuccessIsWhole
<1>3. QED
  BY <1>1, <1>2

-----------------------------------------------------------------------------
(* The services: each behaviour is one component's.                        *)

everything == <<focus, now, faults, jobs, data, events, fraud, orders, chain, trail, books, charts,
                tables>>

\* tradeVerification.ts, referrals.ts: whatever fails or is restarted, a trade's settlement is in
\* the ledger whole and once or not at all, each referral is rewarded once, and what the
\* referrals page adds up is what was credited.
THEOREM SettlementsAreKeptWhole == Spec => []SettlementsAreWhole
<1> DEFINE Sound == focus = "ledger" => G!IInv
<1>1. Init => Sound
  BY InstancesAssumption, LedgerInit DEF Init, InstancesAssumption
<1>2. Sound /\ [Next]_everything => Sound'
  <2>1. SUFFICES ASSUME Sound, [Next]_everything, focus' = "ledger" PROVE G!IInv'
    OBVIOUS
  <2>2. focus = "ledger" /\ G!IInv
    BY <2>1 DEF Next, everything
  <2>3. [G!Next]_(G!vars)
    <3>1. CASE UNCHANGED everything
      BY <3>1 DEF everything, books, G!vars, G!tables
    <3>2. CASE Next
      BY <2>2, <3>2 DEF Next, Services, Reports
    <3>3. QED
      BY <2>1, <3>1, <3>2
  <2>4. QED
    BY <2>2, <2>3, InstancesAssumption, LedgerStep DEF InstancesAssumption
<1>3. Sound => SettlementsAreWhole
  BY InstancesAssumption, LedgerIsWhole DEF SettlementsAreWhole, InstancesAssumption
<1>4. QED
  BY <1>1, <1>2, <1>3, PTL DEF Spec, everything

\* migrate.ts: however many processes run the migrations, and whichever of them fail, the schema is
\* what the records say, in the files' order, and success means that no file is left out.
THEOREM MigrationsAreKeptInStep == Spec => []MigrationsAreRecorded
<1> DEFINE Sound == focus = "migrations" => D!IInv
<1>1. Init => Sound
  BY InstancesAssumption, MigrationsInit DEF Init, InstancesAssumption
<1>2. Sound /\ [Next]_everything => Sound'
  <2>1. SUFFICES ASSUME Sound, [Next]_everything, focus' = "migrations" PROVE D!IInv'
    OBVIOUS
  <2>2. focus = "migrations" /\ D!IInv
    BY <2>1 DEF Next, everything
  <2>3. [D!Next]_(D!vars)
    <3>1. CASE UNCHANGED everything
      BY <3>1 DEF everything, tables, D!vars, D!table
    <3>2. CASE Next
      BY <2>2, <3>2 DEF Next, Services, Reports
    <3>3. QED
      BY <2>1, <3>1, <3>2
  <2>4. QED
    BY <2>2, <2>3, InstancesAssumption, MigrationsStep DEF InstancesAssumption
<1>3. Sound => MigrationsAreRecorded
  BY InstancesAssumption, MigrationsAreSafe DEF MigrationsAreRecorded, InstancesAssumption
<1>4. QED
  BY <1>1, <1>2, <1>3, PTL DEF Spec, everything

==============================================================================
