----------------------------- MODULE Marketplace -----------------------------
(***************************************************************************)
(* The Soroban marketplace contract, contracts/marketplace/src/lib.rs.     *)
(*                                                                         *)
(* A seller keeps a capped number of listings for sale; one buyer deposits *)
(* a listing's whole price; the admin pays it to the seller or back to the *)
(* buyer, and the seller's reputation records which.                       *)
(*                                                                         *)
(* As in Escrow, one action is one successful contract call, every         *)
(* `return Err` is a negated conjunct of its guard, and Name_Variant is    *)
(* Name with a plausible mistake in it that no specification uses.         *)
(*                                                                         *)
(* Left out: asset_category, asset_type, quantity and created_at, which    *)
(* are stored and never read, and the extend_ttl calls.                    *)
(***************************************************************************)
EXTENDS Sums, FiniteSets

CONSTANTS
  Users,              \* addresses of people
  Contract,           \* the contract's own address
  NoOne,              \* an absent address: no admin yet, no buyer yet, not settled
  NoListing,          \* an absent Listing(id) entry
  Tokens,             \* token contracts
  Admins,             \* addresses that initialize or are handed the admin role
  Sellers,            \* addresses that list
  Recipients,         \* addresses an emergency withdrawal pays
  Amounts,            \* the i128 arguments of calls
  Endowment,          \* what every user holds of every token at the start
  MaxListings,        \* bound: listings created
  Horizon,            \* bound: last ledger time
  MaxActive,          \* MAX_ACTIVE_LISTINGS_PER_SELLER
  EmergencyTimelock   \* EMERGENCY_TIMELOCK_SECS

ASSUME AddressAssumption ==
  /\ Admins \subseteq Users
  /\ Sellers \subseteq Users
  /\ Recipients \subseteq Users
  /\ Contract \notin Users
  /\ NoOne \notin Users

ASSUME QuantityAssumption ==
  /\ Amounts \subseteq Int
  /\ Endowment \in Nat
  /\ MaxListings \in Nat
  /\ Horizon \in Nat
  /\ MaxActive \in Nat
  /\ EmergencyTimelock \in Nat

ListingIds == 1..MaxListings
Accounts   == Users \cup {Contract}

ListingStatus == {"Active", "Sold", "Released", "Cancelled"}

Listing ==
  [seller     : Users,
   token      : Tokens,
   price      : Nat \ {0},
   status     : ListingStatus,
   expires_at : Nat,
   buyer      : Users \cup {NoOne}]

Reputation == [completed_trades : Nat, disputed_trades : Nat, total_volume : Nat]

ASSUME NoListingAssumption == NoListing \notin Listing

VARIABLES
  now,             \* ledger timestamp
  admin,           \* DataKey::Admin
  paused,          \* DataKey::Paused
  pausedAt,        \* DataKey::PausedAt, 0 when absent
  listingCounter,  \* DataKey::ListingCounter
  listings,        \* DataKey::Listing(id)
  activeCount,     \* DataKey::ActiveListingCount(seller), 0 when absent
  reputation,      \* DataKey::Reputation(seller)
  balance,         \* the token contracts' balances
  settled,         \* event log: whom the escrowed price of a listing was paid to
  recovered        \* event log: amounts of the `emergency_withdrawal` events, by token

config == <<admin, paused, pausedAt>>
market == <<listingCounter, listings, activeCount, reputation, balance>>
events == <<settled, recovered>>
vars   == <<now, config, market, events>>

-----------------------------------------------------------------------------
Exists(l) == listings[l] # NoListing

CanPay(token, from, amount) == balance[token][from] >= amount

Transferred(token, from, to, amount) ==
  [balance EXCEPT ![token][from] = @ - amount, ![token][to] = @ + amount]

\* update_reputation.
Reputed(seller, volume, isDisputed) ==
  IF isDisputed
  THEN [reputation EXCEPT ![seller].disputed_trades = @ + 1]
  ELSE [reputation EXCEPT ![seller].completed_trades = @ + 1, ![seller].total_volume = @ + volume]

\* decrement_active_listing_count, saturating at 0.
Decremented_Stuck(seller) == activeCount

Decremented(seller) ==
  [activeCount EXCEPT ![seller] = IF @ = 0 THEN 0 ELSE @ - 1]

-----------------------------------------------------------------------------
Init ==
  /\ now = 1
  /\ admin = NoOne
  /\ paused = FALSE
  /\ pausedAt = 0
  /\ listingCounter = 0
  /\ listings = [l \in ListingIds |-> NoListing]
  /\ activeCount = [u \in Users |-> 0]
  /\ reputation = [u \in Users |->
       [completed_trades |-> 0, disputed_trades |-> 0, total_volume |-> 0]]
  /\ balance = [k \in Tokens |-> [a \in Accounts |-> IF a = Contract THEN 0 ELSE Endowment]]
  /\ settled = [l \in ListingIds |-> NoOne]
  /\ recovered = [k \in Tokens |-> 0]

\* The ledger closes with a later timestamp.
Tick ==
  /\ now < Horizon
  /\ now' = now + 1
  /\ UNCHANGED <<config, market, events>>

\* Resets the counter but not PausedAt.
Initialize(newAdmin) ==
  /\ admin = NoOne
  /\ admin' = newAdmin
  /\ paused' = FALSE
  /\ listingCounter' = 0
  /\ UNCHANGED <<now, pausedAt, listings, activeCount, reputation, balance, events>>

Pause ==
  /\ admin # NoOne
  /\ paused' = TRUE
  /\ pausedAt' = IF paused THEN pausedAt ELSE now
  /\ UNCHANGED <<now, admin, market, events>>

\* Unlike the escrow contract's, without a cooldown.
Unpause ==
  /\ admin # NoOne
  /\ paused' = FALSE
  /\ pausedAt' = 0
  /\ UNCHANGED <<now, admin, market, events>>

TransferAdmin(newAdmin) ==
  /\ admin # NoOne
  /\ admin' = newAdmin
  /\ UNCHANGED <<now, paused, pausedAt, market, events>>

-----------------------------------------------------------------------------
(* A seller's calls.                                                       *)

CreateListing_AnyPrice(seller, token, price, expires) ==
  /\ ~paused
  /\ expires > now
  /\ activeCount[seller] < MaxActive
  /\ listingCounter < MaxListings
  /\ listingCounter' = listingCounter + 1
  /\ listings' = [listings EXCEPT ![listingCounter + 1] =
                    [seller |-> seller, token |-> token, price |-> price,
                     status |-> "Active", expires_at |-> expires, buyer |-> NoOne]]
  /\ activeCount' = [activeCount EXCEPT ![seller] = @ + 1]
  /\ UNCHANGED <<now, config, reputation, balance, events>>

CreateListing(seller, token, price, expires) ==
  /\ ~paused
  /\ price > 0
  /\ expires > now
  /\ activeCount[seller] < MaxActive
  /\ listingCounter < MaxListings                          \* bound
  /\ listingCounter' = listingCounter + 1
  /\ listings' = [listings EXCEPT ![listingCounter + 1] =
                    [seller |-> seller, token |-> token, price |-> price,
                     status |-> "Active", expires_at |-> expires, buyer |-> NoOne]]
  /\ activeCount' = [activeCount EXCEPT ![seller] = @ + 1]
  /\ UNCHANGED <<now, config, reputation, balance, events>>

UpdateListing(seller, l, newPrice, newExpires) ==
  /\ ~paused
  /\ newPrice > 0
  /\ newExpires > now
  /\ Exists(l)
  /\ listings[l].seller = seller
  /\ listings[l].status = "Active"
  /\ listings' = [listings EXCEPT ![l].price = newPrice, ![l].expires_at = newExpires]
  /\ UNCHANGED <<now, config, listingCounter, activeCount, reputation, balance, events>>

\* An Active listing leaves the market unsold, and frees a place under the cap.
Withdrawn(l) ==
  /\ ~paused
  /\ Exists(l)
  /\ listings[l].status = "Active"
  /\ listings' = [listings EXCEPT ![l].status = "Cancelled"]
  /\ activeCount' = Decremented(listings[l].seller)
  /\ UNCHANGED <<now, config, listingCounter, reputation, balance, events>>

CancelListing(seller, l) ==
  /\ Withdrawn(l)
  /\ listings[l].seller = seller

\* Anyone may call it.
CloseExpiredListing(l) ==
  /\ Withdrawn(l)
  /\ now >= listings[l].expires_at

-----------------------------------------------------------------------------
(* A buyer's call.                                                         *)

DepositToEscrow(buyer, l) ==
  /\ ~paused
  /\ Exists(l)
  /\ listings[l].status = "Active"
  /\ now < listings[l].expires_at
  /\ buyer # listings[l].seller
  /\ CanPay(listings[l].token, buyer, listings[l].price)
  /\ balance' = Transferred(listings[l].token, buyer, Contract, listings[l].price)
  /\ listings' = [listings EXCEPT ![l].status = "Sold", ![l].buyer = buyer]
  /\ activeCount' = Decremented(listings[l].seller)
  /\ UNCHANGED <<now, config, listingCounter, reputation, events>>

-----------------------------------------------------------------------------
(* The admin's calls on a sold listing.                                    *)

\* The price goes to `to`; the listing's status becomes `status`.
SettleSold_EvenReleased(l, to, status, volume, isDisputed) ==
  /\ ~paused
  /\ admin # NoOne
  /\ Exists(l)
  /\ listings[l].status \in {"Sold", "Released"}
  /\ CanPay(listings[l].token, Contract, listings[l].price)
  /\ balance' = Transferred(listings[l].token, Contract, to, listings[l].price)
  /\ listings' = [listings EXCEPT ![l].status = status]
  /\ reputation' = Reputed(listings[l].seller, volume, isDisputed)
  /\ settled' = [settled EXCEPT ![l] = to]
  /\ UNCHANGED <<now, config, listingCounter, activeCount, recovered>>

SettleSold(l, to, status, volume, isDisputed) ==
  /\ ~paused
  /\ admin # NoOne
  /\ Exists(l)
  /\ listings[l].status = "Sold"
  /\ CanPay(listings[l].token, Contract, listings[l].price)
  /\ balance' = Transferred(listings[l].token, Contract, to, listings[l].price)
  /\ listings' = [listings EXCEPT ![l].status = status]
  /\ reputation' = Reputed(listings[l].seller, volume, isDisputed)
  /\ settled' = [settled EXCEPT ![l] = to]
  /\ UNCHANGED <<now, config, listingCounter, activeCount, recovered>>

ReleasePayment(l) ==
  /\ Exists(l)
  /\ SettleSold(l, listings[l].seller, "Released", listings[l].price, FALSE)

CancelAndRefund(buyer, l) ==
  /\ Exists(l)
  /\ listings[l].buyer = buyer
  /\ SettleSold(l, buyer, "Cancelled", 0, TRUE)

ResolveDispute(l, recipient) ==
  /\ Exists(l)
  /\ recipient \in {listings[l].seller, listings[l].buyer}
  /\ SettleSold(l, recipient, "Cancelled", listings[l].price, recipient # listings[l].seller)

EmergencyWithdraw(token, recipient, amount) ==
  /\ admin # NoOne
  /\ paused
  /\ amount > 0
  /\ now >= pausedAt + EmergencyTimelock
  /\ CanPay(token, Contract, amount)
  /\ balance' = Transferred(token, Contract, recipient, amount)
  /\ recovered' = [recovered EXCEPT ![token] = @ + amount]
  /\ UNCHANGED <<now, config, listingCounter, listings, activeCount, reputation, settled>>

-----------------------------------------------------------------------------
AdminCall ==
  \/ \E a \in Admins : Initialize(a) \/ TransferAdmin(a)
  \/ Pause
  \/ Unpause
  \/ \E l \in ListingIds : ReleasePayment(l)
  \/ \E u \in Users, l \in ListingIds : CancelAndRefund(u, l) \/ ResolveDispute(l, u)
  \/ \E k \in Tokens, u \in Recipients, x \in Amounts : EmergencyWithdraw(k, u, x)

TraderCall ==
  \/ \E u \in Sellers, k \in Tokens, x \in Amounts, e \in 0..Horizon : CreateListing(u, k, x, e)
  \/ \E u \in Users, l \in ListingIds, x \in Amounts, e \in 0..Horizon : UpdateListing(u, l, x, e)
  \/ \E u \in Users, l \in ListingIds : CancelListing(u, l) \/ DepositToEscrow(u, l)
  \/ \E l \in ListingIds : CloseExpiredListing(l)

Next == Tick \/ AdminCall \/ TraderCall

\* initialize comes before the first listing, as deploy.sh runs it: create_listing
\* does not ask for it, and an initialize that comes later starts the ids anew.
Spec == Init /\ [][Next /\ (admin = NoOne => UNCHANGED listings)]_vars

-----------------------------------------------------------------------------
(* Properties.                                                             *)

\* The storage entries have the types the contract declares.
TypeOK ==
  /\ now \in Nat
  /\ admin \in Users \cup {NoOne}
  /\ paused \in BOOLEAN
  /\ pausedAt \in Nat
  /\ listingCounter \in 0..MaxListings
  /\ listings \in [ListingIds -> Listing \cup {NoListing}]
  /\ activeCount \in [Users -> Nat]
  /\ reputation \in [Users -> Reputation]
  /\ balance \in [Tokens -> [Accounts -> Int]]
  /\ settled \in [ListingIds -> Users \cup {NoOne}]
  /\ recovered \in [Tokens -> Int]

\* The listings of u in one of the given statuses.
ListingsOf(u, statuses) ==
  {l \in ListingIds : Exists(l) /\ listings[l].seller = u /\ listings[l].status \in statuses}

\* The status of a listing, which alone guards the calls that move its price, tells
\* whether it has a buyer, never its seller, and whom the price was paid to.
StatusMatchesSale ==
  \A l \in ListingIds : Exists(l) =>
    LET listing == listings[l]
        isSold  == listing.buyer \in Users \ {listing.seller}
        unsold  == listing.buyer = NoOne /\ settled[l] = NoOne
    IN  /\ listing.status = "Active" => unsold
        /\ listing.status = "Sold" => isSold /\ settled[l] = NoOne
        /\ listing.status = "Released" => isSold /\ settled[l] = listing.seller
        /\ listing.status = "Cancelled" =>
             unsold \/ (isSold /\ settled[l] \in {listing.seller, listing.buyer})

\* What the invariants need besides to be inductive: ids are handed out in order
\* and start from nothing, and nothing is listed before initialize, which resets
\* the counter.
IdsAreFresh ==
  /\ admin = NoOne => listingCounter = 0
  /\ \A l \in ListingIds : l > listingCounter => ~Exists(l)
  /\ \A l \in ListingIds : ~Exists(l) => settled[l] = NoOne

\* The count kept up by five calls in two directions is the number of the seller's
\* Active listings: it never locks a seller out below the cap, and never lets one
\* past it (issue #505).
ActiveCountIsExact ==
  \A u \in Users : /\ activeCount[u] = Cardinality(ListingsOf(u, {"Active"}))
                   /\ activeCount[u] <= MaxActive

\* The sum of the prices of the listings in S.
PriceOf(S) ==
  SumUpTo([l \in ListingIds |-> IF l \in S THEN listings[l].price ELSE 0], MaxListings)

\* Solvency: for each token the contract holds the prices of the Sold listings,
\* less what emergency_withdraw took out.
Solvent ==
  \A k \in Tokens :
    LET held == {l \in ListingIds : /\ Exists(l)
                                    /\ listings[l].token = k
                                    /\ listings[l].status = "Sold"}
    IN  balance[k][Contract] = PriceOf(held) - recovered[k]

\* Each party has what its listings say: it is out what it bought and gained the
\* prices settled with it, whichever of the three calls settled them, and only
\* parties gain anything.
PartiesMadeWhole ==
  \A k \in Tokens, u \in Users \ Recipients :
    LET bought  == {l \in ListingIds : /\ Exists(l)
                                       /\ listings[l].token = k
                                       /\ listings[l].buyer = u}
        receipt == {l \in ListingIds : /\ Exists(l)
                                       /\ listings[l].token = k
                                       /\ settled[l] = u
                                       /\ u \in {listings[l].seller, listings[l].buyer}}
    IN  balance[k][u] = Endowment - PriceOf(bought) + PriceOf(receipt)

\* The listings whose price u, their seller, was paid, and those it was not.
EarnedBy(u) == {l \in ListingsOf(u, ListingStatus) : settled[l] = u}
LostBy(u)   == {l \in ListingsOf(u, ListingStatus) : settled[l] \notin {u, NoOne}}

\* A seller's reputation is its settled listings: those paid to it, their volume,
\* and those paid back to the buyer, each counted once.
ReputationIsEarned ==
  \A u \in Users :
    /\ reputation[u].completed_trades = Cardinality(EarnedBy(u))
    /\ reputation[u].disputed_trades = Cardinality(LostBy(u))
    /\ reputation[u].total_volume = PriceOf(EarnedBy(u))

\* The inductive invariant of MarketplaceProofs.
IInv ==
  /\ TypeOK
  /\ IdsAreFresh
  /\ StatusMatchesSale
  /\ ActiveCountIsExact
  /\ ReputationIsEarned

\* What the marketplace counts beside the listings, step by step, agrees with them: a
\* seller's active listings, and its reputation; a listing's status says who bought it and
\* whom it was paid to; and every entry has the type it is stored as.
CountersAreExact == IInv

-----------------------------------------------------------------------------
(* Marketplace implements EscrowVault: a listing takes one deposit, which  *)
(* is settled once, and a listing that is over stays over.                 *)

PlaceOf(l) ==
  IF ~Exists(l) \/ listings[l].buyer = NoOne THEN << >>
  ELSE IF settled[l] = NoOne THEN <<"held">>
  ELSE IF settled[l] = listings[l].seller THEN <<"seller">>
  ELSE IF settled[l] = listings[l].buyer THEN <<"buyer">>
  ELSE <<"stranger">>

Vault == INSTANCE EscrowVault WITH
  Listings <- ListingIds,
  place    <- [l \in ListingIds |-> PlaceOf(l)],
  closed   <- {l \in ListingIds : Exists(l) /\ listings[l].status \in {"Released", "Cancelled"}}

\* The price of a sold listing is paid out once, to one of its two parties, and no
\* listing that was settled, cancelled or closed is sold again.
ImplementsVault == Vault!VaultSpec

=============================================================================
