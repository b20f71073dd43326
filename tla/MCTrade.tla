-------------------------------- MODULE MCTrade --------------------------------
(***************************************************************************)
(* Instances of Trade for TLC.                                             *)
(***************************************************************************)
EXTENDS Trade, TLC

CONSTANTS s1, b1, b2

\* The buyers are interchangeable: no constant tells them apart.
Buyers == Permutations({b1, b2})

=============================================================================
