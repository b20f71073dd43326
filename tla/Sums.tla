-------------------------------- MODULE Sums --------------------------------
(***************************************************************************)
(* Sums of the entries of an indexed family of integers: what the loops    *)
(* `for i in 1..=fill_count { total += ... }` of the contracts compute;    *)
(* and what the services' filter() leaves of an array.                     *)
(* Both are recursive functions and not RECURSIVE operators, nor the       *)
(* library's SelectSeq, so that SumsTheorems can prove facts about them.   *)
(***************************************************************************)
EXTENDS Integers, Sequences

\* Partial sums of v: entry i is v[1] + ... + v[i].
PartialSums(v, n) ==
  LET s[i \in 0..n] == IF i = 0 THEN 0 ELSE s[i-1] + v[i]
  IN  s

\* v[1] + ... + v[n].
SumUpTo(v, n) == PartialSums(v, n)[n]

\* The first entries of s, as far as their places are in I: entry i looks at s[1], ..., s[i].
PartlyChosen(s, I) ==
  LET c[i \in 0..Len(s)] ==
        IF i = 0 THEN << >> ELSE IF i \in I THEN Append(c[i-1], s[i]) ELSE c[i-1]
  IN  c

\* The entries of s at the places in I, in their order.
Chosen(s, I) == PartlyChosen(s, I)[Len(s)]

=============================================================================
