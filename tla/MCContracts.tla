------------------------------ MODULE MCContracts ------------------------------
(***************************************************************************)
(* The two contracts, for TLC: Marketplace with two traders who list and   *)
(* buy, and Escrow with two listings that share the contract's one balance *)
(* of a token.  The contracts know nothing of each other: each behaviour   *)
(* is one of theirs, `focus` says whose.  The parameters of each are those *)
(* of its module, for any values; the configuration has TLC's.             *)
(***************************************************************************)
EXTENDS Marketplace, TLC

CONSTANTS
  EscrowUsers, EscrowTokens, Categories, DefaultCategories, EscrowAdmins, EscrowSellers,
  EscrowRecipients, EscrowAmounts, EscrowEndowment, MaxTrades, MaxFills, EscrowHorizon,
  PauseCooldown, DisputeWindow, EscrowTimelock, MaxExpiry,
  s1, s2, b1, b2

VARIABLES
  focus,
  clock, eAdmin, ePaused, ePausedAt, allowedTokens, allowedCategories,
  tradeCounter, trades, fills, windowCloseAt, eBalance, disputed, eRecovered

escrow == <<clock, eAdmin, ePaused, ePausedAt, allowedTokens, allowedCategories, tradeCounter,
            trades, fills, windowCloseAt, eBalance, disputed, eRecovered>>

E == INSTANCE Escrow WITH
       Users <- EscrowUsers, NoAdmin <- NoOne, NoTrade <- NoListing, Tokens <- EscrowTokens,
       Admins <- EscrowAdmins, Sellers <- EscrowSellers, Recipients <- EscrowRecipients,
       Amounts <- EscrowAmounts, Endowment <- EscrowEndowment, Horizon <- EscrowHorizon,
       EmergencyTimelock <- EscrowTimelock,
       now <- clock, admin <- eAdmin, paused <- ePaused, pausedAt <- ePausedAt,
       balance <- eBalance, recovered <- eRecovered

ASSUME EscrowAssumption ==
  /\ EscrowAdmins \subseteq EscrowUsers
  /\ EscrowSellers \subseteq EscrowUsers
  /\ EscrowRecipients \subseteq EscrowUsers
  /\ Contract \notin EscrowUsers
  /\ NoOne \notin EscrowUsers
  /\ DefaultCategories \subseteq Categories
  /\ EscrowAmounts \subseteq Int
  /\ EscrowEndowment \in Nat
  /\ {MaxTrades, MaxFills, EscrowHorizon} \subseteq Nat
  /\ {PauseCooldown, DisputeWindow, EscrowTimelock, MaxExpiry} \subseteq Nat
  /\ NoListing \notin E!TradeOffer

ContractsInit ==
  /\ focus \in {"market", "escrow"}
  /\ Init /\ E!Init

\* The market's calls come after its initialize, as in Marketplace!Spec.
ContractsNext ==
  \/ /\ focus = "market"
     /\ Next
     /\ admin = NoOne => UNCHANGED listings
     /\ UNCHANGED <<focus, escrow>>
  \/ /\ focus = "escrow"
     /\ E!Next
     /\ UNCHANGED <<focus, vars>>

ContractsSpec == ContractsInit /\ [][ContractsNext]_<<focus, vars, escrow>>

\* The two traders both list and buy, and the two buyers only buy.
Traders == Permutations({s1, s2}) \cup Permutations({b1, b2})

-----------------------------------------------------------------------------
\* Solvency: for each token a contract holds exactly what its unsettled sales are owed,
\* less what emergency_withdraw took out; each party has what its listings and its
\* sub-escrows say, and nobody else gains.
MoneyIsAccountedFor ==
  /\ focus = "market" => Solvent /\ PartiesMadeWhole
  /\ focus = "escrow" => E!MoneyIsAccountedFor

\* Every deposit, in either contract, is settled once and with one side, and a listing that
\* is over holds nothing and takes no deposit.
\* (VaultSpec of each; the steps of the other leave a contract's variables as they are.)
BothImplementVault ==
  /\ Vault!VaultInit /\ E!Vault!VaultInit
  /\ [][Vault!VaultNext \/ UNCHANGED Vault!vaultVars]_vars
  /\ [][E!Vault!VaultNext \/ UNCHANGED E!Vault!vaultVars]_escrow

=============================================================================
