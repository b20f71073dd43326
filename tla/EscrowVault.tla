----------------------------- MODULE EscrowVault -----------------------------
(***************************************************************************)
(* What the escrow contract promises about deposits, whatever the order of *)
(* calls: every deposit is held, and from there goes either to the seller  *)
(* or back to its buyer, once; a listing is closed only when it holds      *)
(* nothing, and a closed listing never takes a deposit again.              *)
(*                                                                         *)
(* Abstract specification, implemented by Escrow and by Marketplace.       *)
(***************************************************************************)
EXTENDS Naturals, Sequences

CONSTANT Listings

VARIABLES
  place,   \* for each listing, where each of its deposits is
  closed   \* the listings that are over

vaultVars == <<place, closed>>

Place == {"held", "seller", "buyer"}

HoldsNone(l) == \A i \in 1..Len(place[l]) : place[l][i] # "held"

VaultInit ==
  /\ place = [l \in Listings |-> << >>]
  /\ closed = {}

Deposit(l) ==
  /\ l \notin closed
  /\ place' = [place EXCEPT ![l] = Append(@, "held")]
  /\ UNCHANGED closed

\* The deposits S of l leave the vault, all to the same side.
Settle(l, S, side) ==
  /\ l \notin closed
  /\ \A i \in S : place[l][i] = "held"
  /\ place' = [place EXCEPT ![l] =
                 [i \in 1..Len(place[l]) |-> IF i \in S THEN side ELSE place[l][i]]]
  /\ \/ closed' = closed
     \/ HoldsNone(l)' /\ closed' = closed \cup {l}

VaultNext ==
  \E l \in Listings :
    \/ Deposit(l)
    \/ \E S \in SUBSET (1..Len(place[l])), side \in {"seller", "buyer"} : Settle(l, S, side)

VaultSpec == VaultInit /\ [][VaultNext]_vaultVars

=============================================================================
