---------------------------- MODULE SumsTheorems ----------------------------
(***************************************************************************)
(* Facts about the sums and the choices of Sums, for the other proofs.      *)
(***************************************************************************)
EXTENDS Sums, TLAPS, WellFoundedInduction

\* Induction over 0..n, for a set.
LEMMA IntervalInduction ==
  ASSUME NEW n \in Nat, NEW S, 0 \in S, \A i \in 1..n : i - 1 \in S => i \in S
  PROVE  \A i \in 0..n : i \in S
<1> DEFINE T == {i \in 0..n : i \notin S}
<1>1. ASSUME T # {} PROVE FALSE
  <2>1. PICK m \in T : \A j \in T : ~(<<j, m>> \in OpToRel(<, Nat))
    <3>1. T \subseteq Nat
      OBVIOUS
    <3>2. QED
      BY <1>1, <3>1, WFMin, NatLessThanWellFounded
  <2>2. ASSUME NEW j \in T PROVE ~(j < m)
    <3>1. <<j, m>> \notin {ss \in Nat \X Nat : ss[1] < ss[2]}
      BY <2>1 DEF OpToRel
    <3>2. <<j, m>> \in Nat \X Nat
      OBVIOUS
    <3>3. QED
      BY <3>1, <3>2
  <2>3. m \in 1..n /\ m - 1 \in 0..n
    OBVIOUS
  <2>4. m - 1 \notin T
    BY <2>2, <2>3
  <2>5. QED
    BY <2>3, <2>4
<1>2. QED
  BY <1>1

\* The partial sums are defined: entry 0 is zero, entry i adds v[i].
LEMMA PartialSumsDef ==
  ASSUME NEW n \in Nat, NEW v, \A i \in 1..n : v[i] \in Int
  PROVE  /\ PartialSums(v, n) \in [0..n -> Int]
         /\ PartialSums(v, n)[0] = 0
         /\ \A i \in 1..n : PartialSums(v, n)[i] = PartialSums(v, n)[i-1] + v[i]
<1> DEFINE Def(s) == s = [i \in 0..n |-> IF i = 0 THEN 0 ELSE s[i-1] + v[i]]
           Upto(m) == {s \in [0..m -> Int] : s[0] = 0 /\ \A i \in 1..m : s[i] = s[i-1] + v[i]}
           S == {m \in 0..n : Upto(m) # {}}
<1>1. 0 \in S
  <2>1. [i \in 0..0 |-> 0] \in Upto(0)
    OBVIOUS
  <2>2. QED
    BY <2>1
<1>2. ASSUME NEW m \in 1..n, m - 1 \in S PROVE m \in S
  <2>1. PICK s \in Upto(m-1) : TRUE
    BY <1>2
  <2> DEFINE r == [i \in 0..m |-> IF i = m THEN s[m-1] + v[m] ELSE s[i]]
  <2>2. r \in [0..m -> Int]
    OBVIOUS
  <2>3. r[0] = 0 /\ \A i \in 1..m : r[i] = r[i-1] + v[i]
    OBVIOUS
  <2>4. r \in Upto(m)
    BY <2>2, <2>3
  <2>5. m \in 0..n
    OBVIOUS
  <2> HIDE DEF r, Upto
  <2>6. QED
    BY <2>4, <2>5
<1>3. \E s : Def(s)
  <2>1. n \in S
    <3> HIDE DEF S
    <3>1. \A i \in 0..n : i \in S
      BY <1>1, <1>2, IntervalInduction
    <3>2. QED
      BY <3>1
  <2>2. PICK s \in Upto(n) : TRUE
    BY <2>1
  <2>3. Def(s)
    OBVIOUS
  <2>4. QED
    BY <2>3
<1> DEFINE p == PartialSums(v, n)
<1>4. Def(p)
  <2>1. p = CHOOSE s : Def(s)
    BY DEF PartialSums
  <2>2. QED
    BY <2>1, <1>3
<1>5. /\ p[0] = 0
      /\ \A i \in 1..n : p[i] = p[i-1] + v[i]
      /\ p = [i \in 0..n |-> p[i]]
  <2> HIDE DEF p
  <2>1. p = [i \in 0..n |-> p[i]]
    BY <1>4
  <2>2. \A i \in 0..n : p[i] = IF i = 0 THEN 0 ELSE p[i-1] + v[i]
    BY <1>4
  <2>3. \A i \in 1..n : i \in 0..n /\ i # 0
    OBVIOUS
  <2>4. \A i \in 1..n : p[i] = p[i-1] + v[i]
    BY <2>2, <2>3
  <2>5. p[0] = 0
    BY <2>2
  <2>6. QED
    BY <2>1, <2>4, <2>5
<1>6. \A i \in 0..n : p[i] \in Int
  <2> DEFINE R == {i \in 0..n : p[i] \in Int}
  <2> HIDE DEF p
  <2>1. 0 \in R
    BY <1>5
  <2>2. ASSUME NEW i \in 1..n, i - 1 \in R PROVE i \in R
    <3>1. i \in 0..n /\ p[i-1] \in Int /\ v[i] \in Int
      BY <2>2
    <3>2. p[i] = p[i-1] + v[i]
      BY <1>5
    <3>3. p[i] \in Int
      BY <3>1, <3>2
    <3>4. QED
      BY <3>1, <3>3
  <2> HIDE DEF R
  <2>3. \A i \in 0..n : i \in R
    BY <2>1, <2>2, IntervalInduction
  <2>4. QED
    BY <2>3 DEF R
<1>7. QED
  <2> HIDE DEF p
  <2>1. p \in [0..n -> Int]
    BY <1>5, <1>6
  <2>2. QED
    BY <2>1, <1>5 DEF p

\* A sum of integers is an integer; the empty sum is zero.
LEMMA SumType ==
  ASSUME NEW n \in Nat, NEW v, \A i \in 1..n : v[i] \in Int
  PROVE  /\ SumUpTo(v, n) \in Int
         /\ n = 0 => SumUpTo(v, n) = 0
BY PartialSumsDef DEF SumUpTo

\* Families that differ by d at k and nowhere else: so do their sums.
LEMMA SumDiffersAt ==
  ASSUME NEW n \in Nat, NEW v, NEW w, NEW k \in 1..n, NEW d \in Int,
         \A i \in 1..n : v[i] \in Int /\ w[i] \in Int,
         \A i \in 1..n : i # k => w[i] = v[i],
         w[k] = v[k] + d
  PROVE  SumUpTo(w, n) = SumUpTo(v, n) + d
<1> DEFINE p == PartialSums(v, n)
           q == PartialSums(w, n)
           S == {i \in 0..n : q[i] = p[i] + (IF k <= i THEN d ELSE 0)}
<1>1. /\ p \in [0..n -> Int] /\ p[0] = 0 /\ \A i \in 1..n : p[i] = p[i-1] + v[i]
      /\ q \in [0..n -> Int] /\ q[0] = 0 /\ \A i \in 1..n : q[i] = q[i-1] + w[i]
  BY PartialSumsDef
<1>2. SumUpTo(v, n) = p[n] /\ SumUpTo(w, n) = q[n]
  BY DEF SumUpTo
<1> HIDE DEF p, q
<1>3. 0 \in S
  BY <1>1
<1>4. ASSUME NEW i \in 1..n, i - 1 \in S PROVE i \in S
  <2>1. i \in 0..n /\ i - 1 \in 0..n /\ p[i-1] \in Int /\ v[i] \in Int /\ w[i] \in Int
    BY <1>1
  <2>2. q[i] = q[i-1] + w[i] /\ p[i] = p[i-1] + v[i]
    BY <1>1
  <2>3. q[i-1] = p[i-1] + (IF k <= i - 1 THEN d ELSE 0)
    BY <1>4
  <2>4. CASE i < k
    BY <2>1, <2>2, <2>3, <2>4
  <2>5. CASE i = k
    BY <2>1, <2>2, <2>3, <2>5
  <2>6. CASE i > k
    BY <2>1, <2>2, <2>3, <2>6
  <2>7. QED
    BY <2>4, <2>5, <2>6
<1> HIDE DEF S
<1>5. n \in S
  <2>1. \A i \in 0..n : i \in S
    BY <1>3, <1>4, IntervalInduction
  <2>2. QED
    BY <2>1
<1>6. QED
  BY <1>1, <1>2, <1>5 DEF S

\* The sum of n entries does not depend on anything but these entries, and one
\* entry more adds itself.
LEMMA SumExtend ==
  ASSUME NEW n \in Nat, NEW v, NEW w,
         \A i \in 1..n : v[i] \in Int /\ w[i] = v[i]
  PROVE  /\ SumUpTo(w, n) = SumUpTo(v, n)
         /\ w[n+1] \in Int => SumUpTo(w, n+1) = SumUpTo(v, n) + w[n+1]
<1> DEFINE p == PartialSums(v, n)
<1>1. /\ p \in [0..n -> Int] /\ p[0] = 0 /\ \A i \in 1..n : p[i] = p[i-1] + v[i]
      /\ SumUpTo(v, n) = p[n]
  BY PartialSumsDef DEF SumUpTo
<1> HIDE DEF p
<1>2. ASSUME NEW m \in Nat, n <= m, \A i \in 1..m : w[i] \in Int
      PROVE  PartialSums(w, m)[n] = p[n]
  <2> DEFINE q == PartialSums(w, m)
             S == {i \in 0..n : q[i] = p[i]}
  <2>1. q \in [0..m -> Int] /\ q[0] = 0 /\ \A i \in 1..m : q[i] = q[i-1] + w[i]
    BY <1>2, PartialSumsDef
  <2> HIDE DEF q
  <2>2. 0 \in S
    BY <2>1, <1>1
  <2>3. ASSUME NEW i \in 1..n, i - 1 \in S PROVE i \in S
    <3>1. i \in 1..m /\ i \in 0..n
      BY <1>2
    <3>2. q[i] = q[i-1] + w[i] /\ p[i] = p[i-1] + v[i] /\ w[i] = v[i]
      BY <2>1, <1>1, <3>1
    <3>3. QED
      BY <2>3, <3>1, <3>2
  <2> HIDE DEF S
  <2>4. \A i \in 0..n : i \in S
    BY <2>2, <2>3, IntervalInduction
  <2>5. n \in S
    BY <2>4
  <2>6. QED
    BY <2>5 DEF S, q
<1>3. SumUpTo(w, n) = SumUpTo(v, n)
  BY <1>1, <1>2 DEF SumUpTo
<1>4. ASSUME w[n+1] \in Int PROVE SumUpTo(w, n+1) = SumUpTo(v, n) + w[n+1]
  <2>1. \A i \in 1..(n+1) : w[i] \in Int
    BY <1>4
  <2>2. PartialSums(w, n+1)[n+1] = PartialSums(w, n+1)[n] + w[n+1]
    <3>1. \A i \in 1..(n+1) : PartialSums(w, n+1)[i] = PartialSums(w, n+1)[i-1] + w[i]
      BY <2>1, PartialSumsDef
    <3>2. n + 1 \in 1..(n+1) /\ (n + 1) - 1 = n
      OBVIOUS
    <3>3. QED
      BY <3>1, <3>2
  <2>3. PartialSums(w, n+1)[n] = p[n]
    BY <2>1, <1>2
  <2>4. QED
    BY <2>2, <2>3, <1>1 DEF SumUpTo
<1>5. QED
  BY <1>3, <1>4

\* A sum of natural numbers is one, and no entry exceeds it.
LEMMA SumBounds ==
  ASSUME NEW n \in Nat, NEW v, \A i \in 1..n : v[i] \in Nat
  PROVE  SumUpTo(v, n) \in Nat /\ \A k \in 1..n : v[k] <= SumUpTo(v, n)
<1> DEFINE p == PartialSums(v, n)
<1>1. /\ p \in [0..n -> Int] /\ p[0] = 0 /\ \A i \in 1..n : p[i] = p[i-1] + v[i]
      /\ SumUpTo(v, n) = p[n]
  BY PartialSumsDef DEF SumUpTo
<1> HIDE DEF p
<1>2. ASSUME NEW k \in 0..n PROVE p[n] >= (IF k = 0 THEN 0 ELSE v[k])
  <2> DEFINE S == {i \in 0..n : p[i] >= 0 /\ (k # 0 /\ k <= i => p[i] >= v[k])}
  <2>1. 0 \in S
    BY <1>1
  <2>2. ASSUME NEW i \in 1..n, i - 1 \in S PROVE i \in S
    <3>1. i \in 0..n /\ p[i-1] \in Int /\ p[i-1] >= 0 /\ v[i] \in Nat
      BY <1>1, <2>2
    <3>2. p[i] = p[i-1] + v[i]
      BY <1>1
    <3>3. p[i] >= 0 /\ p[i] >= p[i-1] /\ p[i] >= v[i]
      BY <3>1, <3>2
    <3>4. CASE k # 0 /\ k <= i - 1
      <4>1. p[i-1] >= v[k] /\ v[k] \in Nat
        BY <2>2, <3>4
      <4>2. p[i] >= v[k] /\ p[i] \in Int
        BY <4>1, <3>3, <3>1, <1>1
      <4>3. QED
        BY <4>2, <3>1, <3>3
    <3>5. CASE k = i
      BY <3>1, <3>3, <3>5
    <3>6. CASE k = 0 \/ k > i
      BY <3>1, <3>3, <3>6
    <3>7. QED
      BY <3>4, <3>5, <3>6
  <2> HIDE DEF S
  <2>3. \A i \in 0..n : i \in S
    BY <2>1, <2>2, IntervalInduction
  <2>4. n \in S
    BY <2>3
  <2>5. QED
    BY <2>4, <1>1 DEF S
<1>3. p[n] >= 0
  BY <1>2
<1>4. ASSUME NEW k \in 1..n PROVE v[k] <= p[n]
  <2>1. p[n] >= v[k]
    BY <1>2
  <2>2. p[n] \in Int /\ v[k] \in Nat
    BY <1>1
  <2>3. QED
    BY <2>1, <2>2
<1>5. QED
  BY <1>1, <1>3, <1>4

\* The sum of two families is the sum of their entries' sums.
LEMMA SumAdds ==
  ASSUME NEW n \in Nat, NEW u, NEW v, NEW w,
         \A i \in 1..n : u[i] \in Int /\ v[i] \in Int /\ w[i] = u[i] + v[i]
  PROVE  SumUpTo(w, n) = SumUpTo(u, n) + SumUpTo(v, n)
<1> DEFINE p == PartialSums(u, n)
           q == PartialSums(v, n)
           r == PartialSums(w, n)
           S == {i \in 0..n : r[i] = p[i] + q[i]}
<1>0. \A i \in 1..n : w[i] \in Int
  OBVIOUS
<1>1. /\ p \in [0..n -> Int] /\ p[0] = 0 /\ \A i \in 1..n : p[i] = p[i-1] + u[i]
      /\ q \in [0..n -> Int] /\ q[0] = 0 /\ \A i \in 1..n : q[i] = q[i-1] + v[i]
      /\ r \in [0..n -> Int] /\ r[0] = 0 /\ \A i \in 1..n : r[i] = r[i-1] + w[i]
  BY <1>0, PartialSumsDef
<1>2. SumUpTo(u, n) = p[n] /\ SumUpTo(v, n) = q[n] /\ SumUpTo(w, n) = r[n]
  BY DEF SumUpTo
<1> HIDE DEF p, q, r
<1>3. 0 \in S
  BY <1>1
<1>4. ASSUME NEW i \in 1..n, i - 1 \in S PROVE i \in S
  <2>1. i \in 0..n /\ p[i-1] \in Int /\ q[i-1] \in Int /\ u[i] \in Int /\ v[i] \in Int
    BY <1>1
  <2>2. /\ p[i] = p[i-1] + u[i] /\ q[i] = q[i-1] + v[i] /\ r[i] = r[i-1] + w[i]
        /\ w[i] = u[i] + v[i] /\ r[i-1] = p[i-1] + q[i-1]
    BY <1>1, <1>4
  <2>3. r[i] = p[i] + q[i]
    BY <2>1, <2>2
  <2>4. QED
    BY <2>1, <2>3
<1> HIDE DEF S
<1>5. \A i \in 0..n : i \in S
  BY <1>3, <1>4, IntervalInduction
<1>6. QED
  BY <1>2, <1>5 DEF S

\* A sum of zeros is zero.
LEMMA SumNone ==
  ASSUME NEW n \in Nat, NEW v, \A i \in 1..n : v[i] = 0
  PROVE  SumUpTo(v, n) = 0
<1> DEFINE s == SumUpTo(v, n)
<1>1. s \in Int
  BY SumType
<1>2. \A i \in 1..n : v[i] \in Int /\ v[i] = v[i] + v[i]
  OBVIOUS
<1>3. s = s + s
  BY <1>2, SumAdds
<1> HIDE DEF s
<1>4. s = 0
  BY <1>1, <1>3
<1>5. QED
  BY <1>4 DEF s

\* Which entries of s come first in a choice: the places of c's entries, all those of I up to n.
Traces(s, I, n, c, at) ==
  /\ at \in [1..Len(c) -> {i \in I : i <= n}]
  /\ \A j, k \in 1..Len(c) : j < k => at[j] < at[k]
  /\ \A i \in I : i <= n => \E k \in 1..Len(c) : at[k] = i
  /\ \A k \in 1..Len(c) : c[k] = s[at[k]]

\* The first entries of a choice are defined: entry 0 is empty, entry i adds s[i] or nothing.
LEMMA PartlyChosenDef ==
  ASSUME NEW T, NEW s \in Seq(T), NEW I
  PROVE  /\ PartlyChosen(s, I) \in [0..Len(s) -> Seq(T)]
         /\ PartlyChosen(s, I)[0] = << >>
         /\ \A i \in 1..Len(s) :
              PartlyChosen(s, I)[i] = IF i \in I THEN Append(PartlyChosen(s, I)[i-1], s[i])
                                      ELSE PartlyChosen(s, I)[i-1]
<1> DEFINE n == Len(s)
           Def(c) == c = [i \in 0..n |-> IF i = 0 THEN << >> ELSE IF i \in I THEN Append(c[i-1], s[i])
                                         ELSE c[i-1]]
           Upto(m) == {c \in [0..m -> Seq(T)] :
                         /\ c[0] = << >>
                         /\ \A i \in 1..m : c[i] = IF i \in I THEN Append(c[i-1], s[i]) ELSE c[i-1]}
           S == {m \in 0..n : Upto(m) # {}}
<1>0. n \in Nat /\ \A i \in 1..n : s[i] \in T
  OBVIOUS
<1>1. 0 \in S
  <2>1. [i \in 0..0 |-> << >>] \in Upto(0)
    OBVIOUS
  <2>2. QED
    BY <1>0, <2>1
<1>2. ASSUME NEW m \in 1..n, m - 1 \in S PROVE m \in S
  <2>1. PICK c \in Upto(m-1) : TRUE
    BY <1>2
  <2> DEFINE last == IF m \in I THEN Append(c[m-1], s[m]) ELSE c[m-1]
             r == [i \in 0..m |-> IF i = m THEN last ELSE c[i]]
  <2>2. /\ c \in [0..m-1 -> Seq(T)] /\ c[0] = << >>
        /\ \A i \in 1..m-1 : c[i] = IF i \in I THEN Append(c[i-1], s[i]) ELSE c[i-1]
    OBVIOUS
  <2>3. c[m-1] \in Seq(T) /\ s[m] \in T
    BY <1>0, <2>2
  <2>4. last \in Seq(T)
    BY <2>3
  <2> HIDE DEF last
  <2>5. r \in [0..m -> Seq(T)]
    BY <2>2, <2>4
  <2>6. r[0] = << >> /\ r[m] = last /\ \A i \in 0..m-1 : r[i] = c[i]
    BY <2>2
  <2> HIDE DEF r
  <2>7. \A i \in 1..m : r[i] = IF i \in I THEN Append(r[i-1], s[i]) ELSE r[i-1]
    <3> SUFFICES ASSUME NEW i \in 1..m
                 PROVE  r[i] = IF i \in I THEN Append(r[i-1], s[i]) ELSE r[i-1]
      OBVIOUS
    <3>1. CASE i = m
      BY <2>6, <3>1 DEF last
    <3>2. CASE i # m
      <4>1. i \in 1..m-1 /\ i \in 0..m-1 /\ i-1 \in 0..m-1
        BY <3>2
      <4>2. QED
        BY <2>2, <2>6, <4>1
    <3>3. QED
      BY <3>1, <3>2
  <2>8. r \in Upto(m)
    BY <2>5, <2>6, <2>7
  <2>9. m \in 0..n
    BY <1>0
  <2> HIDE DEF Upto
  <2>10. QED
    BY <2>8, <2>9
<1>3. \E c : Def(c)
  <2>1. n \in S
    <3> HIDE DEF S, n
    <3>1. \A i \in 0..n : i \in S
      BY <1>0, <1>1, <1>2, IntervalInduction
    <3>2. QED
      BY <1>0, <3>1
  <2>2. PICK c \in Upto(n) : TRUE
    BY <2>1
  <2>3. Def(c)
    <3>1. /\ c = [i \in 0..n |-> c[i]] /\ c[0] = << >>
          /\ \A i \in 1..n : c[i] = IF i \in I THEN Append(c[i-1], s[i]) ELSE c[i-1]
      OBVIOUS
    <3>2. \A i \in 0..n : i # 0 => i \in 1..n
      BY <1>0
    <3>3. \A i \in 0..n : c[i] = IF i = 0 THEN << >> ELSE IF i \in I THEN Append(c[i-1], s[i])
                                  ELSE c[i-1]
      BY <3>1, <3>2
    <3>4. QED
      BY <3>1, <3>3
  <2>4. QED
    BY <2>3
<1> DEFINE p == PartlyChosen(s, I)
<1>4. Def(p)
  <2>1. p = CHOOSE c : Def(c)
    BY DEF PartlyChosen
  <2>2. QED
    BY <2>1, <1>3
<1> HIDE DEF p
<1>5. /\ p[0] = << >> /\ p = [i \in 0..n |-> p[i]]
      /\ \A i \in 1..n : p[i] = IF i \in I THEN Append(p[i-1], s[i]) ELSE p[i-1]
  <2>1. p = [i \in 0..n |-> p[i]]
    BY <1>4
  <2>2. \A i \in 0..n : p[i] = IF i = 0 THEN << >> ELSE IF i \in I THEN Append(p[i-1], s[i]) ELSE p[i-1]
    BY <1>4
  <2>3. \A i \in 1..n : i \in 0..n /\ i # 0
    OBVIOUS
  <2>4. 0 \in 0..n
    BY <1>0
  <2>5. QED
    BY <2>1, <2>2, <2>3, <2>4
<1>6. \A i \in 0..n : p[i] \in Seq(T)
  <2> DEFINE R == {i \in 0..n : p[i] \in Seq(T)}
  <2> HIDE DEF n
  <2>1. 0 \in R
    BY <1>0, <1>5
  <2>2. ASSUME NEW i \in 1..n, i - 1 \in R PROVE i \in R
    <3>1. i \in 0..n /\ p[i-1] \in Seq(T) /\ s[i] \in T
      BY <1>0, <2>2
    <3>2. p[i] = IF i \in I THEN Append(p[i-1], s[i]) ELSE p[i-1]
      BY <1>5
    <3>3. p[i] \in Seq(T)
      BY <3>1, <3>2
    <3>4. QED
      BY <3>1, <3>3
  <2> HIDE DEF R
  <2>3. \A i \in 0..n : i \in R
    BY <1>0, <2>1, <2>2, IntervalInduction
  <2>4. QED
    BY <2>3 DEF R
<1>7. QED
  <2>1. p \in [0..n -> Seq(T)]
    BY <1>5, <1>6
  <2>2. QED
    BY <2>1, <1>5 DEF p

\* What a choice is: the entries of s at I's places, in order, and all of them.
LEMMA ChosenTraces ==
  ASSUME NEW T, NEW s \in Seq(T), NEW I \in SUBSET (1..Len(s))
  PROVE  /\ Chosen(s, I) \in Seq(T)
         /\ \E at : Traces(s, I, Len(s), Chosen(s, I), at)
<1> DEFINE n == Len(s)
           p == PartlyChosen(s, I)
           S == {i \in 0..n : \E at : Traces(s, I, i, p[i], at)}
<1>0. n \in Nat
  OBVIOUS
<1>1. /\ p \in [0..n -> Seq(T)] /\ p[0] = << >>
      /\ \A i \in 1..n : p[i] = IF i \in I THEN Append(p[i-1], s[i]) ELSE p[i-1]
  BY PartlyChosenDef
<1> HIDE DEF p
<1>2. 0 \in S
  <2>1. Traces(s, I, 0, << >>, [k \in {} |-> 0])
    BY DEF Traces
  <2>2. QED
    BY <1>0, <1>1, <2>1
<1>3. ASSUME NEW m \in 1..n, m - 1 \in S PROVE m \in S
  <2>1. PICK at : Traces(s, I, m-1, p[m-1], at)
    BY <1>3
  <2>0. m \in 0..n /\ m - 1 \in 0..n /\ m \in Nat
    BY <1>0
  <2>0a. I \subseteq Nat
    OBVIOUS
  <2>2. m \in 0..n /\ m - 1 \in 0..n /\ p[m-1] \in Seq(T) /\ I \subseteq Nat
    BY <1>1, <2>0, <2>0a
  <2> DEFINE c == p[m-1]
             k == Len(c)
  <2>3. k \in Nat /\ c \in Seq(T)
    BY <2>2
  <2>4. /\ at \in [1..k -> {i \in I : i <= m-1}]
        /\ \A i, j \in 1..k : i < j => at[i] < at[j]
        /\ \A i \in I : i <= m-1 => \E j \in 1..k : at[j] = i
        /\ \A j \in 1..k : c[j] = s[at[j]]
    BY <2>1 DEF Traces
  <2>5. CASE m \notin I
    <3>1. p[m] = c
      BY <1>1, <2>5
    <3>2. \A i \in I : i <= m-1 <=> i <= m
      BY <2>0, <2>0a, <2>5
    <3> HIDE DEF c
    <3>3. Traces(s, I, m, c, at)
      BY <2>4, <3>2 DEF Traces
    <3>4. QED
      BY <2>2, <3>1, <3>3
  <2>6. CASE m \in I
    <3> DEFINE d == Append(c, s[m])
               to == [j \in 1..k+1 |-> IF j = k+1 THEN m ELSE at[j]]
    <3>1. p[m] = d
      BY <1>1, <2>6
    <3> HIDE DEF c
    <3>2. Len(d) = k+1 /\ d[k+1] = s[m] /\ \A j \in 1..k : d[j] = c[j]
      BY <2>3
    <3> HIDE DEF d, k
    <3>3. to[k+1] = m /\ \A j \in 1..k : to[j] = at[j]
      BY <2>3
    <3>4. \A j \in 1..k+1 : j \in 1..k \/ j = k+1
      BY <2>3
    <3>5. \A j \in 1..k : at[j] \in I /\ at[j] <= m-1 /\ at[j] \in Nat
      BY <2>2, <2>4
    <3>6. to \in [1..k+1 -> {i \in I : i <= m}]
      <4>1. \A j \in 1..k+1 : to[j] \in {i \in I : i <= m}
        BY <2>6, <3>3, <3>4, <3>5
      <4>2. QED
        BY <4>1
    <3> HIDE DEF to
    <3>7. \A i, j \in 1..k+1 : i < j => to[i] < to[j]
      <4> SUFFICES ASSUME NEW i \in 1..k+1, NEW j \in 1..k+1, i < j PROVE to[i] < to[j]
        OBVIOUS
      <4>1. i \in 1..k
        BY <2>3
      <4>2. CASE j \in 1..k
        BY <2>4, <3>3, <4>1, <4>2
      <4>3. CASE j = k+1
        BY <3>3, <3>5, <4>1, <4>3
      <4>4. QED
        BY <3>4, <4>2, <4>3
    <3>8. ASSUME NEW i \in I, i <= m PROVE \E j \in 1..k+1 : to[j] = i
      <4>1. CASE i = m
        <5>1. k+1 \in 1..k+1
          BY <2>3
        <5>2. QED
          BY <3>3, <4>1, <5>1
      <4>2. CASE i # m
        <5>1. i <= m-1
          BY <2>2, <3>8, <4>2
        <5>2. PICK j \in 1..k : at[j] = i
          BY <2>4, <5>1
        <5>3. j \in 1..k+1
          BY <2>3
        <5>4. QED
          BY <3>3, <5>2, <5>3
      <4>3. QED
        BY <4>1, <4>2
    <3>9. \A j \in 1..k+1 : d[j] = s[to[j]]
      BY <2>4, <3>2, <3>3, <3>4
    <3>10. Traces(s, I, m, d, to)
      BY <3>2, <3>6, <3>7, <3>8, <3>9 DEF Traces
    <3>11. QED
      BY <2>2, <3>1, <3>10
  <2>7. QED
    BY <2>5, <2>6
<1>4. n \in S
  <2> HIDE DEF S, n
  <2>1. \A i \in 0..n : i \in S
    BY <1>0, <1>2, <1>3, IntervalInduction
  <2>2. QED
    BY <1>0, <2>1
<1>5. QED
  <2>1. Chosen(s, I) = p[n]
    BY DEF Chosen, p
  <2>2. p[n] \in Seq(T)
    BY <1>0, <1>1
  <2>3. QED
    BY <1>4, <2>1, <2>2

=============================================================================
