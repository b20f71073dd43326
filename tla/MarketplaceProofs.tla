-------------------------- MODULE MarketplaceProofs --------------------------
(***************************************************************************)
(* Proofs about Marketplace, for all values of its constants: the counts   *)
(* it keeps beside the listings agree with them, the money is accounted    *)
(* for, and it implements EscrowVault.  Then the two contracts of          *)
(* MCContracts, of which EscrowProofs has the other.                       *)
(***************************************************************************)
EXTENDS MCContracts, Sequences, SumsTheorems, FiniteSetTheorems, TLAPS

-----------------------------------------------------------------------------
(* What each call on a listing does to it.                                 *)

\* The entries of every listing but l stay.
OthersKept(l) ==
  \A m \in ListingIds \ {l} : listings'[m] = listings[m] /\ settled'[m] = settled[m]

\* A listing that exists is a Listing, and what is a Listing exists.
LEMMA ExistingListing ==
  ASSUME TypeOK, NEW l \in ListingIds, Exists(l)
  PROVE  /\ listings[l] \in Listing
         /\ listings[l].seller \in Users /\ listings[l].token \in Tokens
         /\ listings[l].price \in Nat \ {0} /\ listings[l].status \in ListingStatus
         /\ listings[l].expires_at \in Nat /\ listings[l].buyer \in Users \cup {NoOne}
<1>1. listings[l] \in Listing
  BY DEF TypeOK, Exists
<1>2. QED
  BY <1>1 DEF Listing

LEMMA ListingExists ==
  ASSUME NEW l
  PROVE  /\ listings[l] \in Listing => Exists(l)
         /\ listings'[l] \in Listing => Exists(l)'
BY NoListingAssumption DEF NoListingAssumption, Exists

LEMMA CreateFacts ==
  ASSUME TypeOK, NEW u \in Sellers, NEW k \in Tokens, NEW x \in Amounts, NEW e \in 0..Horizon,
         CreateListing(u, k, x, e)
  PROVE  \E l \in ListingIds :
           /\ l = listingCounter + 1 /\ listingCounter' = listingCounter + 1
           /\ OthersKept(l)
           /\ listings'[l] = [seller |-> u, token |-> k, price |-> x, status |-> "Active",
                              expires_at |-> e, buyer |-> NoOne]
           /\ listings'[l] \in Listing
           /\ u \in Users
           /\ activeCount[u] < MaxActive
           /\ activeCount' = [activeCount EXCEPT ![u] = @ + 1]
           /\ settled' = settled
<1>1. /\ listingCounter \in Nat /\ listingCounter < MaxListings /\ MaxListings \in Nat
      /\ u \in Users /\ x \in Nat \ {0} /\ e \in Nat
  BY AddressAssumption, QuantityAssumption
     DEF AddressAssumption, QuantityAssumption, TypeOK, CreateListing
<1>2. PICK l \in ListingIds : l = listingCounter + 1
  BY <1>1 DEF ListingIds
<1> DEFINE new == [seller |-> u, token |-> k, price |-> x, status |-> "Active",
                   expires_at |-> e, buyer |-> NoOne]
<1>3. new \in Listing
  BY <1>1 DEF Listing, ListingStatus
<1>4. listings' = [listings EXCEPT ![l] = new]
  BY <1>2 DEF CreateListing
<1> HIDE DEF new
<1>5. listings'[l] = new /\ \A m \in ListingIds \ {l} : listings'[m] = listings[m]
  BY <1>4 DEF TypeOK
<1>6. /\ listingCounter' = listingCounter + 1 /\ activeCount[u] < MaxActive
      /\ activeCount' = [activeCount EXCEPT ![u] = @ + 1] /\ settled' = settled
  BY DEF CreateListing, events
<1>7. QED
  BY <1>1, <1>2, <1>3, <1>5, <1>6 DEF OthersKept, new

LEMMA UpdateFacts ==
  ASSUME TypeOK, NEW u, NEW l \in ListingIds, NEW x \in Amounts, NEW e \in 0..Horizon,
         UpdateListing(u, l, x, e)
  PROVE  /\ OthersKept(l)
         /\ listings[l] \in Listing /\ listings[l].status = "Active"
         /\ listings'[l] \in Listing /\ listings'[l].status = "Active"
         /\ listings'[l].seller = listings[l].seller
         /\ listings'[l].token = listings[l].token
         /\ listings'[l].buyer = listings[l].buyer
         /\ settled' = settled
<1>1. listings[l] \in Listing /\ x \in Nat \ {0} /\ e \in Nat
  BY ExistingListing, QuantityAssumption DEF UpdateListing, QuantityAssumption
<1> DEFINE new == [listings[l] EXCEPT !.price = x, !.expires_at = e]
<1>2. listings' = [listings EXCEPT ![l] = new]
  BY <1>1 DEF UpdateListing, TypeOK, Listing
<1>3. /\ new \in Listing /\ new.status = listings[l].status
      /\ new.seller = listings[l].seller /\ new.token = listings[l].token
      /\ new.buyer = listings[l].buyer
  BY <1>1 DEF Listing
<1> HIDE DEF new
<1>4. listings'[l] = new /\ \A m \in ListingIds \ {l} : listings'[m] = listings[m]
  BY <1>2 DEF TypeOK
<1>5. listings[l].status = "Active" /\ settled' = settled
  BY DEF UpdateListing, events
<1>6. QED
  BY <1>1, <1>3, <1>4, <1>5 DEF OthersKept

LEMMA WithdrawnFacts ==
  ASSUME TypeOK, NEW l \in ListingIds, Withdrawn(l)
  PROVE  /\ OthersKept(l)
         /\ listings[l] \in Listing /\ listings[l].status = "Active"
         /\ listings'[l] \in Listing /\ listings'[l].status = "Cancelled"
         /\ listings'[l].seller = listings[l].seller
         /\ listings'[l].token = listings[l].token
         /\ listings'[l].buyer = listings[l].buyer
         /\ settled' = settled
         /\ activeCount' = Decremented(listings[l].seller)
<1>1. listings[l] \in Listing
  BY ExistingListing DEF Withdrawn
<1> DEFINE new == [listings[l] EXCEPT !.status = "Cancelled"]
<1>2. listings' = [listings EXCEPT ![l] = new]
  BY <1>1 DEF Withdrawn, TypeOK, Listing
<1>3. /\ new \in Listing /\ new.status = "Cancelled"
      /\ new.seller = listings[l].seller /\ new.token = listings[l].token
      /\ new.buyer = listings[l].buyer
  BY <1>1 DEF Listing, ListingStatus
<1> HIDE DEF new
<1>4. listings'[l] = new /\ \A m \in ListingIds \ {l} : listings'[m] = listings[m]
  BY <1>2 DEF TypeOK
<1>5. /\ listings[l].status = "Active" /\ settled' = settled
      /\ activeCount' = Decremented(listings[l].seller)
  BY DEF Withdrawn, events
<1>6. QED
  BY <1>1, <1>3, <1>4, <1>5 DEF OthersKept

LEMMA DepositFacts ==
  ASSUME TypeOK, NEW u \in Users, NEW l \in ListingIds, DepositToEscrow(u, l)
  PROVE  /\ OthersKept(l)
         /\ listings[l] \in Listing /\ listings[l].status = "Active"
         /\ listings'[l] \in Listing /\ listings'[l].status = "Sold"
         /\ listings'[l].seller = listings[l].seller
         /\ listings'[l].token = listings[l].token
         /\ listings'[l].price = listings[l].price
         /\ listings'[l].buyer = u /\ u # listings[l].seller
         /\ settled' = settled
         /\ activeCount' = Decremented(listings[l].seller)
         /\ balance' = Transferred(listings[l].token, u, Contract, listings[l].price)
<1>1. listings[l] \in Listing
  BY ExistingListing DEF DepositToEscrow
<1> DEFINE new == [listings[l] EXCEPT !.status = "Sold", !.buyer = u]
<1>2. listings' = [listings EXCEPT ![l] = new]
  BY <1>1 DEF DepositToEscrow, TypeOK, Listing
<1>3. /\ new \in Listing /\ new.status = "Sold"
      /\ new.seller = listings[l].seller /\ new.token = listings[l].token
      /\ new.price = listings[l].price /\ new.buyer = u
  BY <1>1 DEF Listing, ListingStatus
<1> HIDE DEF new
<1>4. listings'[l] = new /\ \A m \in ListingIds \ {l} : listings'[m] = listings[m]
  BY <1>2 DEF TypeOK
<1>5. /\ listings[l].status = "Active" /\ u # listings[l].seller /\ settled' = settled
      /\ activeCount' = Decremented(listings[l].seller)
      /\ balance' = Transferred(listings[l].token, u, Contract, listings[l].price)
  BY DEF DepositToEscrow, events
<1>6. QED
  BY <1>1, <1>3, <1>4, <1>5 DEF OthersKept

\* The price of a sold listing is paid to `to`.
LEMMA SettleFacts ==
  ASSUME TypeOK, NEW l \in ListingIds, NEW to \in Users, NEW status \in ListingStatus,
         NEW volume, NEW isDisputed, SettleSold(l, to, status, volume, isDisputed)
  PROVE  /\ OthersKept(l)
         /\ listings[l] \in Listing /\ listings[l].status = "Sold"
         /\ listings'[l] \in Listing /\ listings'[l].status = status
         /\ listings'[l].seller = listings[l].seller
         /\ listings'[l].token = listings[l].token
         /\ listings'[l].price = listings[l].price
         /\ listings'[l].buyer = listings[l].buyer
         /\ settled'[l] = to
         /\ reputation' = Reputed(listings[l].seller, volume, isDisputed)
         /\ balance' = Transferred(listings[l].token, Contract, to, listings[l].price)
<1>1. listings[l] \in Listing
  BY ExistingListing DEF SettleSold
<1> DEFINE new == [listings[l] EXCEPT !.status = status]
<1>2. listings' = [listings EXCEPT ![l] = new]
  BY <1>1 DEF SettleSold, TypeOK, Listing
<1>3. /\ new \in Listing /\ new.status = status
      /\ new.seller = listings[l].seller /\ new.token = listings[l].token
      /\ new.price = listings[l].price /\ new.buyer = listings[l].buyer
  BY <1>1 DEF Listing
<1> HIDE DEF new
<1>4. listings'[l] = new /\ \A m \in ListingIds \ {l} : listings'[m] = listings[m]
  BY <1>2 DEF TypeOK
<1>5. settled'[l] = to /\ \A m \in ListingIds \ {l} : settled'[m] = settled[m]
  BY DEF SettleSold, TypeOK
<1>6. /\ listings[l].status = "Sold"
      /\ reputation' = Reputed(listings[l].seller, volume, isDisputed)
      /\ balance' = Transferred(listings[l].token, Contract, to, listings[l].price)
  BY DEF SettleSold
<1>7. QED
  BY <1>1, <1>3, <1>4, <1>5, <1>6 DEF OthersKept

\* The admin's three calls that settle a sale pay the price to one of its parties,
\* and count it as disputed when that is not the seller.
LEMMA SettleCases ==
  ASSUME TypeOK, StatusMatchesSale, NEW l \in ListingIds,
         \/ ReleasePayment(l)
         \/ \E u \in Users : CancelAndRefund(u, l) \/ ResolveDispute(l, u)
  PROVE  \E to \in Users, status \in {"Released", "Cancelled"}, volume \in Nat :
           /\ to \in {listings[l].seller, listings[l].buyer}
           /\ status = "Released" => to = listings[l].seller
           /\ to = listings[l].seller => volume = listings[l].price
           /\ listings[l].buyer \in Users /\ listings[l].buyer # listings[l].seller
           /\ settled[l] = NoOne
           /\ SettleSold(l, to, status, volume, to # listings[l].seller)
<1>1. Exists(l) /\ listings[l].status = "Sold"
  BY DEF ReleasePayment, CancelAndRefund, ResolveDispute, SettleSold
<1>2. /\ listings[l].seller \in Users /\ listings[l].price \in Nat
      /\ listings[l].buyer \in Users /\ listings[l].buyer # listings[l].seller
      /\ settled[l] = NoOne
  BY <1>1, ExistingListing DEF StatusMatchesSale
<1>3. CASE ReleasePayment(l)
  <2>1. SettleSold(l, listings[l].seller, "Released", listings[l].price, FALSE)
    BY <1>3 DEF ReleasePayment
  <2>2. (listings[l].seller # listings[l].seller) = FALSE
    OBVIOUS
  <2>3. SettleSold(l, listings[l].seller, "Released", listings[l].price,
                   listings[l].seller # listings[l].seller)
    BY <2>1, <2>2
  <2>4. QED
    BY <1>2, <2>3
<1>4. ASSUME NEW u \in Users, CancelAndRefund(u, l)
      PROVE  SettleSold(l, u, "Cancelled", 0, u # listings[l].seller) /\ u = listings[l].buyer
  <2>1. listings[l].buyer = u /\ SettleSold(l, u, "Cancelled", 0, TRUE)
    BY <1>4 DEF CancelAndRefund
  <2>2. (u # listings[l].seller) = TRUE
    BY <1>2, <2>1
  <2>3. QED
    BY <2>1, <2>2
<1>5. ASSUME NEW u \in Users, ResolveDispute(l, u)
      PROVE  /\ SettleSold(l, u, "Cancelled", listings[l].price, u # listings[l].seller)
             /\ u \in {listings[l].seller, listings[l].buyer}
  BY <1>5 DEF ResolveDispute
<1>6. QED
  <2>1. CASE \E u \in Users : CancelAndRefund(u, l)
    BY <1>2, <1>4, <2>1
  <2>2. CASE \E u \in Users : ResolveDispute(l, u)
    BY <1>2, <1>5, <2>2
  <2>3. QED
    BY <1>3, <2>1, <2>2

-----------------------------------------------------------------------------
(* Type correctness.                                                       *)

\* A listing whose entry becomes a Listing leaves the map well typed.
LEMMA ListingsType ==
  ASSUME TypeOK, NEW l \in ListingIds, OthersKept(l), listings'[l] \in Listing,
         NEW new, listings' = [listings EXCEPT ![l] = new]
  PROVE  listings' \in [ListingIds -> Listing \cup {NoListing}]
<1>1. new \in Listing
  BY DEF TypeOK
<1>2. QED
  BY <1>1 DEF TypeOK

\* A transfer between two accounts.
LEMMA TransferFacts ==
  ASSUME TypeOK, NEW k \in Tokens, NEW from \in Accounts, NEW to \in Accounts, NEW x \in Int,
         from # to, balance' = Transferred(k, from, to, x)
  PROVE  /\ balance' \in [Tokens -> [Accounts -> Int]]
         /\ \A j \in Tokens : j # k => balance'[j] = balance[j]
         /\ \A c \in Accounts : balance'[k][c] = IF c = from THEN balance[k][c] - x
                                                 ELSE IF c = to THEN balance[k][c] + x
                                                 ELSE balance[k][c]
<1>1. balance \in [Tokens -> [Accounts -> Int]]
  BY DEF TypeOK
<1> DEFINE mid == [balance EXCEPT ![k] = [balance[k] EXCEPT ![from] = @ - x]]
<1>2. /\ mid \in [Tokens -> [Accounts -> Int]]
      /\ \A j \in Tokens : j # k => mid[j] = balance[j]
      /\ mid[k] = [balance[k] EXCEPT ![from] = @ - x]
  BY <1>1
<1>3. balance' = [mid EXCEPT ![k] = [mid[k] EXCEPT ![to] = @ + x]]
  BY <1>1 DEF Transferred
<1>4. \A c \in Accounts : mid[k][c] = IF c = from THEN balance[k][c] - x ELSE balance[k][c]
  BY <1>1, <1>2
<1> HIDE DEF mid
<1>5. /\ balance' \in [Tokens -> [Accounts -> Int]]
      /\ \A j \in Tokens : j # k => balance'[j] = mid[j]
      /\ \A c \in Accounts : balance'[k][c] = IF c = to THEN mid[k][c] + x ELSE mid[k][c]
  BY <1>2, <1>3
<1>6. QED
  BY <1>2, <1>4, <1>5

LEMMA EmergencyType ==
  ASSUME TypeOK, NEW k \in Tokens, NEW u \in Recipients, NEW x \in Amounts,
         EmergencyWithdraw(k, u, x)
  PROVE  /\ balance' \in [Tokens -> [Accounts -> Int]]
         /\ recovered' \in [Tokens -> Int]
<1>1. x \in Int /\ u \in Accounts /\ Contract \in Accounts /\ u # Contract
  BY AddressAssumption, QuantityAssumption DEF AddressAssumption, QuantityAssumption, Accounts
<1>2. balance' = Transferred(k, Contract, u, x) /\ recovered' = [recovered EXCEPT ![k] = @ + x]
  BY DEF EmergencyWithdraw
<1>3. balance' \in [Tokens -> [Accounts -> Int]]
  BY <1>1, <1>2, TransferFacts
<1>4. recovered' \in [Tokens -> Int]
  BY <1>1, <1>2 DEF TypeOK
<1>5. QED
  BY <1>3, <1>4

LEMMA DecrementedType ==
  ASSUME TypeOK, NEW u \in Users
  PROVE  /\ Decremented(u) \in [Users -> Nat]
         /\ \A v \in Users : Decremented(u)[v] = IF v = u /\ activeCount[v] # 0
                                                 THEN activeCount[v] - 1 ELSE activeCount[v]
<1> DEFINE new == IF activeCount[u] = 0 THEN 0 ELSE activeCount[u] - 1
<1>1. activeCount \in [Users -> Nat] /\ activeCount[u] \in Nat /\ new \in Nat
  BY DEF TypeOK
<1>2. Decremented(u) = [activeCount EXCEPT ![u] = new]
  BY <1>1 DEF Decremented
<1>3. new = IF activeCount[u] # 0 THEN activeCount[u] - 1 ELSE activeCount[u]
  BY <1>1
<1> HIDE DEF new
<1>4. QED
  BY <1>1, <1>2, <1>3

LEMMA ReputedType ==
  ASSUME TypeOK, NEW u \in Users, NEW x \in Nat, NEW isDisputed \in BOOLEAN
  PROVE  /\ Reputed(u, x, isDisputed) \in [Users -> Reputation]
         /\ \A v \in Users \ {u} : Reputed(u, x, isDisputed)[v] = reputation[v]
         /\ isDisputed =>
              /\ Reputed(u, x, isDisputed)[u].completed_trades = reputation[u].completed_trades
              /\ Reputed(u, x, isDisputed)[u].disputed_trades = reputation[u].disputed_trades + 1
              /\ Reputed(u, x, isDisputed)[u].total_volume = reputation[u].total_volume
         /\ ~isDisputed =>
              /\ Reputed(u, x, isDisputed)[u].completed_trades = reputation[u].completed_trades + 1
              /\ Reputed(u, x, isDisputed)[u].disputed_trades = reputation[u].disputed_trades
              /\ Reputed(u, x, isDisputed)[u].total_volume = reputation[u].total_volume + x
<1> DEFINE old == reputation[u]
           lost == [completed_trades |-> old.completed_trades,
                    disputed_trades  |-> old.disputed_trades + 1,
                    total_volume     |-> old.total_volume]
           won  == [completed_trades |-> old.completed_trades + 1,
                    disputed_trades  |-> old.disputed_trades,
                    total_volume     |-> old.total_volume + x]
<1>1. reputation \in [Users -> Reputation] /\ old \in Reputation
  BY DEF TypeOK
<1>2. lost \in Reputation /\ won \in Reputation
  BY <1>1 DEF Reputation
<1>3. ASSUME isDisputed PROVE Reputed(u, x, isDisputed) = [reputation EXCEPT ![u] = lost]
  <2>1. Reputed(u, x, isDisputed) = [reputation EXCEPT ![u].disputed_trades = @ + 1]
    BY <1>3 DEF Reputed
  <2>2. [old EXCEPT !.disputed_trades = @ + 1] = lost
    BY <1>1 DEF Reputation
  <2>3. [reputation EXCEPT ![u].disputed_trades = @ + 1]
          = [reputation EXCEPT ![u] = [old EXCEPT !.disputed_trades = @ + 1]]
    BY <1>1
  <2>4. QED
    BY <2>1, <2>2, <2>3
<1>4. ASSUME ~isDisputed PROVE Reputed(u, x, isDisputed) = [reputation EXCEPT ![u] = won]
  <2>1. Reputed(u, x, isDisputed) =
          [reputation EXCEPT ![u].completed_trades = @ + 1, ![u].total_volume = @ + x]
    BY <1>4 DEF Reputed
  <2>2. [old EXCEPT !.completed_trades = @ + 1] =
          [completed_trades |-> old.completed_trades + 1,
           disputed_trades  |-> old.disputed_trades,
           total_volume     |-> old.total_volume]
    BY <1>1 DEF Reputation
  <2>3. QED
    BY <1>1, <2>1, <2>2 DEF Reputation
<1>5. /\ lost.completed_trades = old.completed_trades
      /\ lost.disputed_trades = old.disputed_trades + 1
      /\ lost.total_volume = old.total_volume
      /\ won.completed_trades = old.completed_trades + 1
      /\ won.disputed_trades = old.disputed_trades
      /\ won.total_volume = old.total_volume + x
  OBVIOUS
<1> HIDE DEF lost, won
<1>6. QED
  BY <1>1, <1>2, <1>3, <1>4, <1>5

\* A step about one listing, or about none.
LEMMA StepCases ==
  ASSUME TypeOK, IdsAreFresh, StatusMatchesSale, [Next /\ (admin = NoOne => UNCHANGED listings)]_vars
  PROVE  \/ UNCHANGED market /\ settled' = settled /\ UNCHANGED recovered
         \/ \E a \in Admins : Initialize(a)
         \/ \E k \in Tokens, u \in Recipients, x \in Amounts : EmergencyWithdraw(k, u, x)
         \/ \E u \in Sellers, k \in Tokens, x \in Amounts, e \in 0..Horizon :
              CreateListing(u, k, x, e) /\ admin # NoOne
         \/ \E u \in Users, l \in ListingIds, x \in Amounts, e \in 0..Horizon :
              UpdateListing(u, l, x, e)
         \/ \E l \in ListingIds : Withdrawn(l)
         \/ \E u \in Users, l \in ListingIds : DepositToEscrow(u, l)
         \/ \E l \in ListingIds :
              \/ ReleasePayment(l)
              \/ \E u \in Users : CancelAndRefund(u, l) \/ ResolveDispute(l, u)
<1>1. CASE UNCHANGED vars \/ Tick \/ Pause \/ Unpause \/ \E a \in Admins : TransferAdmin(a)
  BY <1>1 DEF vars, market, events, Tick, Pause, Unpause, TransferAdmin
<1>2. ASSUME NEW u \in Sellers, NEW k \in Tokens, NEW x \in Amounts, NEW e \in 0..Horizon,
             CreateListing(u, k, x, e), admin = NoOne => UNCHANGED listings
      PROVE  admin # NoOne
  <2>1. PICK l \in ListingIds : l = listingCounter + 1 /\ listings'[l] \in Listing
    BY <1>2, CreateFacts
  <2>2. ~Exists(l)
    BY <2>1 DEF IdsAreFresh, TypeOK
  <2>3. QED
    BY <1>2, <2>1, <2>2, NoListingAssumption DEF Exists, NoListingAssumption
<1>3. QED
  BY <1>1, <1>2 DEF Next, AdminCall, TraderCall, CancelListing, CloseExpiredListing

LEMMA TypeStep ==
  ASSUME TypeOK, IdsAreFresh, StatusMatchesSale,
         [Next /\ (admin = NoOne => UNCHANGED listings)]_vars
  PROVE  TypeOK'
<1>0. /\ Admins \subseteq Users /\ Recipients \subseteq Users /\ Contract \notin Users
      /\ Amounts \subseteq Int /\ Horizon \in Nat /\ MaxListings \in Nat
      /\ Contract \in Accounts /\ \A u \in Users : u \in Accounts
  BY AddressAssumption, QuantityAssumption
     DEF AddressAssumption, QuantityAssumption, Accounts
<1>1. CASE UNCHANGED vars \/ Tick \/ Pause \/ Unpause
           \/ \E a \in Admins : Initialize(a) \/ TransferAdmin(a)
  <2>1. /\ UNCHANGED <<listings, activeCount, reputation, balance, settled, recovered>>
        /\ listingCounter' \in {listingCounter, 0}
        /\ now' \in {now, now + 1} /\ (paused' = TRUE \/ paused' = FALSE \/ paused' = paused)
        /\ pausedAt' \in {pausedAt, now, 0} /\ admin' \in Admins \cup {admin}
    BY <1>1 DEF vars, config, market, events, Tick, Pause, Unpause, Initialize, TransferAdmin
  <2>2. /\ listingCounter' \in 0..MaxListings /\ now' \in Nat
        /\ pausedAt' \in Nat /\ admin' \in Users \cup {NoOne}
    BY <1>0, <2>1 DEF TypeOK
  <2>3. paused' \in BOOLEAN
    BY <2>1 DEF TypeOK
  <2>4. /\ listings' \in [ListingIds -> Listing \cup {NoListing}]
        /\ activeCount' \in [Users -> Nat] /\ reputation' \in [Users -> Reputation]
        /\ balance' \in [Tokens -> [Accounts -> Int]]
        /\ settled' \in [ListingIds -> Users \cup {NoOne}] /\ recovered' \in [Tokens -> Int]
    BY <2>1 DEF TypeOK
  <2>5. QED
    BY <2>2, <2>3, <2>4 DEF TypeOK
<1>2. ASSUME NEW k \in Tokens, NEW u \in Recipients, NEW x \in Amounts, EmergencyWithdraw(k, u, x)
      PROVE  TypeOK'
  <2>1. /\ balance' \in [Tokens -> [Accounts -> Int]]
        /\ recovered' \in [Tokens -> Int]
    BY <1>2, EmergencyType
  <2>2. QED
    BY <1>2, <2>1 DEF TypeOK, EmergencyWithdraw, config
<1>3. ASSUME NEW u \in Sellers, NEW k \in Tokens, NEW x \in Amounts, NEW e \in 0..Horizon,
             CreateListing(u, k, x, e)
      PROVE  TypeOK'
  <2>1. PICK l \in ListingIds :
          /\ l = listingCounter + 1 /\ listingCounter' = listingCounter + 1
          /\ OthersKept(l) /\ listings'[l] \in Listing /\ u \in Users
          /\ activeCount' = [activeCount EXCEPT ![u] = @ + 1]
    BY <1>3, CreateFacts
  <2>2. \E new : listings' = [listings EXCEPT ![l] = new]
    BY <1>3, <2>1 DEF CreateListing
  <2>3. listings' \in [ListingIds -> Listing \cup {NoListing}]
    BY <2>1, <2>2, ListingsType
  <2>4. activeCount' \in [Users -> Nat]
    BY <2>1 DEF TypeOK
  <2>5. listingCounter' \in 0..MaxListings
    BY <1>0, <2>1 DEF ListingIds
  <2>6. QED
    BY <1>3, <2>3, <2>4, <2>5 DEF TypeOK, CreateListing, config, events
<1>4. ASSUME NEW u \in Users, NEW l \in ListingIds, NEW x \in Amounts, NEW e \in 0..Horizon,
             UpdateListing(u, l, x, e)
      PROVE  TypeOK'
  <2>1. OthersKept(l) /\ listings'[l] \in Listing /\ listings[l] \in Listing
    BY <1>4, UpdateFacts
  <2>2. \E new : listings' = [listings EXCEPT ![l] = new]
    BY <1>4, <2>1 DEF UpdateListing, TypeOK, Listing
  <2>3. listings' \in [ListingIds -> Listing \cup {NoListing}]
    BY <2>1, <2>2, ListingsType
  <2>4. QED
    BY <1>4, <2>3 DEF TypeOK, UpdateListing, config, events
<1>5. ASSUME NEW l \in ListingIds, Withdrawn(l)
      PROVE  TypeOK'
  <2>1. OthersKept(l) /\ listings'[l] \in Listing /\ listings[l] \in Listing
        /\ activeCount' = Decremented(listings[l].seller)
    BY <1>5, WithdrawnFacts
  <2>2. \E new : listings' = [listings EXCEPT ![l] = new]
    BY <1>5, <2>1 DEF Withdrawn, TypeOK, Listing
  <2>3. listings' \in [ListingIds -> Listing \cup {NoListing}]
    BY <2>1, <2>2, ListingsType
  <2>4. activeCount' \in [Users -> Nat]
    BY <2>1, DecrementedType DEF Listing
  <2>5. QED
    BY <1>5, <2>3, <2>4 DEF TypeOK, Withdrawn, config, events
<1>6. ASSUME NEW u \in Users, NEW l \in ListingIds, DepositToEscrow(u, l)
      PROVE  TypeOK'
  <2>1. /\ OthersKept(l) /\ listings'[l] \in Listing /\ listings[l] \in Listing
        /\ activeCount' = Decremented(listings[l].seller)
        /\ balance' = Transferred(listings[l].token, u, Contract, listings[l].price)
    BY <1>6, DepositFacts
  <2>2. \E new : listings' = [listings EXCEPT ![l] = new]
    BY <1>6, <2>1 DEF DepositToEscrow, TypeOK, Listing
  <2>3. listings' \in [ListingIds -> Listing \cup {NoListing}]
    BY <2>1, <2>2, ListingsType
  <2>4. activeCount' \in [Users -> Nat]
    BY <2>1, DecrementedType DEF Listing
  <2>5. listings[l].token \in Tokens /\ listings[l].price \in Int /\ u # Contract
    BY <1>0, <2>1 DEF Listing
  <2>6. balance' \in [Tokens -> [Accounts -> Int]]
    BY <1>0, <2>1, <2>5, TransferFacts
  <2>7. QED
    BY <1>6, <2>3, <2>4, <2>6 DEF TypeOK, DepositToEscrow, config, events
<1>7. ASSUME NEW l \in ListingIds,
             \/ ReleasePayment(l)
             \/ \E u \in Users : CancelAndRefund(u, l) \/ ResolveDispute(l, u)
      PROVE  TypeOK'
  <2>1. PICK to \in Users, status \in {"Released", "Cancelled"}, volume \in Nat :
          SettleSold(l, to, status, volume, to # listings[l].seller)
    BY <1>7, SettleCases
  <2>2. status \in ListingStatus
    BY DEF ListingStatus
  <2>3. /\ OthersKept(l) /\ listings'[l] \in Listing /\ listings[l] \in Listing
        /\ reputation' = Reputed(listings[l].seller, volume, to # listings[l].seller)
        /\ balance' = Transferred(listings[l].token, Contract, to, listings[l].price)
    BY <2>1, <2>2, SettleFacts
  <2>4. \E new : listings' = [listings EXCEPT ![l] = new]
    BY <2>1, <2>3 DEF SettleSold, TypeOK, Listing
  <2>5. listings' \in [ListingIds -> Listing \cup {NoListing}]
    BY <2>3, <2>4, ListingsType
  <2>6. /\ listings[l].token \in Tokens /\ listings[l].price \in Int /\ to # Contract
        /\ listings[l].seller \in Users
    BY <1>0, <2>3 DEF Listing
  <2>7. balance' \in [Tokens -> [Accounts -> Int]]
    BY <1>0, <2>3, <2>6, TransferFacts
  <2>8. reputation' \in [Users -> Reputation]
    BY <2>3, <2>6, ReputedType
  <2>9. QED
    BY <2>1, <2>5, <2>7, <2>8 DEF TypeOK, SettleSold, config
<1>8. QED
  BY <1>1, <1>2, <1>3, <1>4, <1>5, <1>6, <1>7
     DEF Next, AdminCall, TraderCall, CancelListing, CloseExpiredListing

-----------------------------------------------------------------------------
(* Counting and adding up the listings a step about one of them changes.   *)

\* The sets of listings the properties are about, of listings and the accounts
\* they are settled with.
ActiveSet(L, u)     == {l \in ListingIds : L[l] # NoListing /\ L[l].seller = u /\ L[l].status = "Active"}
EarnedSet(L, s, u)  == {l \in ListingIds : /\ L[l] # NoListing /\ L[l].seller = u
                                           /\ L[l].status \in ListingStatus /\ s[l] = u}
LostSet(L, s, u)    == {l \in ListingIds : /\ L[l] # NoListing /\ L[l].seller = u
                                           /\ L[l].status \in ListingStatus
                                           /\ s[l] \notin {u, NoOne}}
HeldSet(L, k)       == {l \in ListingIds : L[l] # NoListing /\ L[l].token = k /\ L[l].status = "Sold"}
BoughtSet(L, k, u)  == {l \in ListingIds : L[l] # NoListing /\ L[l].token = k /\ L[l].buyer = u}
PaidSet(L, s, k, u) == {l \in ListingIds : /\ L[l] # NoListing /\ L[l].token = k /\ s[l] = u
                                           /\ u \in {L[l].seller, L[l].buyer}}

\* The prices of the listings in S.
Prices(L, S) == SumUpTo([l \in ListingIds |-> IF l \in S THEN L[l].price ELSE 0], MaxListings)

LEMMA SetsOfState ==
  /\ \A u : ListingsOf(u, {"Active"}) = ActiveSet(listings, u)
  /\ \A u : EarnedBy(u) = EarnedSet(listings, settled, u)
  /\ \A u : LostBy(u) = LostSet(listings, settled, u)
  /\ \A S : PriceOf(S) = Prices(listings, S)
BY DEF ListingsOf, EarnedBy, LostBy, PriceOf, Prices, ActiveSet, EarnedSet, LostSet, Exists

LEMMA SetsOfNext ==
  /\ \A u : ListingsOf(u, {"Active"})' = ActiveSet(listings', u)
  /\ \A u : EarnedBy(u)' = EarnedSet(listings', settled', u)
  /\ \A u : LostBy(u)' = LostSet(listings', settled', u)
  /\ \A S : PriceOf(S)' = Prices(listings', S)
BY DEF ListingsOf, EarnedBy, LostBy, PriceOf, Prices, ActiveSet, EarnedSet, LostSet, Exists

Bit(b) == IF b THEN 1 ELSE 0

\* Sets of listings that agree on all but l.
LEMMA CountsMove ==
  ASSUME NEW l \in ListingIds, NEW S \in SUBSET ListingIds, NEW T \in SUBSET ListingIds,
         \A m \in ListingIds \ {l} : m \in T <=> m \in S
  PROVE  /\ Cardinality(S) \in Nat /\ Cardinality(T) \in Nat
         /\ Cardinality(T) = Cardinality(S) + (Bit(l \in T) - Bit(l \in S))
<1>1. IsFiniteSet(ListingIds)
  BY FS_Interval, QuantityAssumption DEF ListingIds, QuantityAssumption
<1>2. IsFiniteSet(S) /\ IsFiniteSet(T)
  BY <1>1, FS_Subset
<1>3. Cardinality(S) \in Nat /\ Cardinality(T) \in Nat
  BY <1>2, FS_CardinalityType
<1>4. CASE l \in S /\ l \in T
  <2>1. S = T
    BY <1>4
  <2>2. QED
    BY <1>3, <1>4, <2>1 DEF Bit
<1>5. CASE l \notin S /\ l \notin T
  <2>1. S = T
    BY <1>5
  <2>2. QED
    BY <1>3, <1>5, <2>1 DEF Bit
<1>6. CASE l \in S /\ l \notin T
  <2>1. T = S \ {l}
    BY <1>6
  <2>2. Cardinality(T) = Cardinality(S) - 1
    BY <1>2, <1>6, <2>1, FS_RemoveElement
  <2>3. QED
    BY <1>3, <1>6, <2>2 DEF Bit
<1>7. CASE l \notin S /\ l \in T
  <2>1. T = S \cup {l}
    BY <1>7
  <2>2. Cardinality(T) = Cardinality(S) + 1
    BY <1>2, <1>7, <2>1, FS_AddElement
  <2>3. QED
    BY <1>3, <1>7, <2>2 DEF Bit
<1>8. QED
  BY <1>4, <1>5, <1>6, <1>7

\* (The prices of the listings in S and T are natural numbers; d is the price of
\* l if l joins them.)
LEMMA PricesMove ==
  ASSUME NEW L, NEW M, NEW l \in ListingIds,
         NEW S \in SUBSET ListingIds, NEW T \in SUBSET ListingIds,
         \A m \in S : L[m].price \in Nat, \A m \in T : M[m].price \in Nat,
         \A m \in ListingIds \ {l} : M[m] = L[m] /\ (m \in T <=> m \in S),
         NEW d \in Int, l \notin S, l \in T => d = M[l].price, l \notin T => d = 0
  PROVE  /\ Prices(L, S) \in Int
         /\ Prices(M, T) = Prices(L, S) + d
<1> DEFINE v == [m \in ListingIds |-> IF m \in S THEN L[m].price ELSE 0]
           w == [m \in ListingIds |-> IF m \in T THEN M[m].price ELSE 0]
<1>1. MaxListings \in Nat /\ ListingIds = 1..MaxListings
  BY QuantityAssumption DEF QuantityAssumption, ListingIds
<1>2. \A m \in ListingIds : v[m] \in Int /\ w[m] \in Int
  OBVIOUS
<1>3. \A m \in ListingIds : m # l => w[m] = v[m]
  OBVIOUS
<1>4. v[l] = 0 /\ w[l] = d
  OBVIOUS
<1>5. Prices(L, S) = SumUpTo(v, MaxListings) /\ Prices(M, T) = SumUpTo(w, MaxListings)
  BY DEF Prices
<1> HIDE DEF v, w
<1>6. SumUpTo(v, MaxListings) \in Int
  BY <1>1, <1>2, SumType
<1>7. w[l] = v[l] + d
  BY <1>4
<1>8. SumUpTo(w, MaxListings) = SumUpTo(v, MaxListings) + d
  BY ONLY l \in ListingIds, d \in Int, <1>1, <1>2, <1>3, <1>7, SumDiffersAt
<1>9. QED
  BY <1>5, <1>6, <1>8

LEMMA PricesSame ==
  ASSUME NEW L, NEW M, NEW S, \A m \in S : M[m].price = L[m].price
  PROVE  Prices(M, S) = Prices(L, S)
<1>1. [l \in ListingIds |-> IF l \in S THEN M[l].price ELSE 0]
        = [l \in ListingIds |-> IF l \in S THEN L[l].price ELSE 0]
  OBVIOUS
<1>2. QED
  BY <1>1 DEF Prices

\* What the step changes in a seller's counts is whether l is in its sets.
LEMMA CountersMove ==
  ASSUME TypeOK, TypeOK', NEW l \in ListingIds, OthersKept(l), NEW u
  PROVE  /\ Cardinality(ActiveSet(listings, u)) \in Nat
         /\ Cardinality(ActiveSet(listings', u)) = Cardinality(ActiveSet(listings, u))
              + (Bit(l \in ActiveSet(listings', u)) - Bit(l \in ActiveSet(listings, u)))
         /\ Cardinality(EarnedSet(listings, settled, u)) \in Nat
         /\ Cardinality(EarnedSet(listings', settled', u)) = Cardinality(EarnedSet(listings, settled, u))
              + (Bit(l \in EarnedSet(listings', settled', u)) - Bit(l \in EarnedSet(listings, settled, u)))
         /\ Cardinality(LostSet(listings, settled, u)) \in Nat
         /\ Cardinality(LostSet(listings', settled', u)) = Cardinality(LostSet(listings, settled, u))
              + (Bit(l \in LostSet(listings', settled', u)) - Bit(l \in LostSet(listings, settled, u)))
         /\ Prices(listings, EarnedSet(listings, settled, u)) \in Int
         /\ \A d \in Int :
              /\ l \notin EarnedSet(listings, settled, u)
              /\ l \in EarnedSet(listings', settled', u) => d = listings'[l].price
              /\ l \notin EarnedSet(listings', settled', u) => d = 0
              => Prices(listings', EarnedSet(listings', settled', u))
                   = Prices(listings, EarnedSet(listings, settled, u)) + d
<1>1. \A m \in ListingIds \ {l} : listings'[m] = listings[m] /\ settled'[m] = settled[m]
  BY DEF OthersKept
<1>2. /\ ActiveSet(listings, u) \in SUBSET ListingIds /\ ActiveSet(listings', u) \in SUBSET ListingIds
      /\ \A m \in ListingIds \ {l} : m \in ActiveSet(listings', u) <=> m \in ActiveSet(listings, u)
  BY <1>1 DEF ActiveSet
<1>3. /\ EarnedSet(listings, settled, u) \in SUBSET ListingIds
      /\ EarnedSet(listings', settled', u) \in SUBSET ListingIds
      /\ \A m \in ListingIds \ {l} :
           m \in EarnedSet(listings', settled', u) <=> m \in EarnedSet(listings, settled, u)
  BY <1>1 DEF EarnedSet
<1>4. /\ LostSet(listings, settled, u) \in SUBSET ListingIds
      /\ LostSet(listings', settled', u) \in SUBSET ListingIds
      /\ \A m \in ListingIds \ {l} :
           m \in LostSet(listings', settled', u) <=> m \in LostSet(listings, settled, u)
  BY <1>1 DEF LostSet
<1>5. /\ \A m \in EarnedSet(listings, settled, u) : listings[m].price \in Nat
      /\ \A m \in EarnedSet(listings', settled', u) : listings'[m].price \in Nat
  BY DEF EarnedSet, TypeOK, Listing
<1>6. /\ Cardinality(ActiveSet(listings, u)) \in Nat
      /\ Cardinality(ActiveSet(listings', u)) = Cardinality(ActiveSet(listings, u))
           + (Bit(l \in ActiveSet(listings', u)) - Bit(l \in ActiveSet(listings, u)))
  BY <1>2, CountsMove
<1>7. /\ Cardinality(EarnedSet(listings, settled, u)) \in Nat
      /\ Cardinality(EarnedSet(listings', settled', u)) = Cardinality(EarnedSet(listings, settled, u))
           + (Bit(l \in EarnedSet(listings', settled', u)) - Bit(l \in EarnedSet(listings, settled, u)))
  BY <1>3, CountsMove
<1>8. /\ Cardinality(LostSet(listings, settled, u)) \in Nat
      /\ Cardinality(LostSet(listings', settled', u)) = Cardinality(LostSet(listings, settled, u))
           + (Bit(l \in LostSet(listings', settled', u)) - Bit(l \in LostSet(listings, settled, u)))
  BY <1>4, CountsMove
<1>9. Prices(listings, EarnedSet(listings, settled, u)) \in Int
  <2> DEFINE S == EarnedSet(listings, settled, u)
             v == [m \in ListingIds |-> IF m \in S THEN listings[m].price ELSE 0]
  <2>1. MaxListings \in Nat /\ \A m \in 1..MaxListings : v[m] \in Int
    BY <1>5, QuantityAssumption DEF QuantityAssumption, ListingIds
  <2>2. Prices(listings, S) = SumUpTo(v, MaxListings)
    BY DEF Prices
  <2> HIDE DEF v, S
  <2>3. Prices(listings, S) \in Int
    BY <2>1, <2>2, SumType
  <2>4. QED
    BY <2>3 DEF S
<1>10. ASSUME NEW d \in Int,
              l \notin EarnedSet(listings, settled, u),
              l \in EarnedSet(listings', settled', u) => d = listings'[l].price,
              l \notin EarnedSet(listings', settled', u) => d = 0
       PROVE  Prices(listings', EarnedSet(listings', settled', u))
                = Prices(listings, EarnedSet(listings, settled, u)) + d
  BY <1>1, <1>3, <1>5, <1>10, PricesMove
<1>11. QED
  BY <1>6, <1>7, <1>8, <1>9, <1>10

\* The two counters of IInv, over the sets.
LEMMA CountersOfState ==
  /\ ActiveCountIsExact <=> \A u \in Users :
       activeCount[u] = Cardinality(ActiveSet(listings, u)) /\ activeCount[u] <= MaxActive
  /\ ReputationIsEarned <=> \A u \in Users :
       /\ reputation[u].completed_trades = Cardinality(EarnedSet(listings, settled, u))
       /\ reputation[u].disputed_trades = Cardinality(LostSet(listings, settled, u))
       /\ reputation[u].total_volume = Prices(listings, EarnedSet(listings, settled, u))
BY SetsOfState DEF ActiveCountIsExact, ReputationIsEarned

LEMMA CountersOfNext ==
  /\ ActiveCountIsExact' <=> \A u \in Users :
       activeCount'[u] = Cardinality(ActiveSet(listings', u)) /\ activeCount'[u] <= MaxActive
  /\ ReputationIsEarned' <=> \A u \in Users :
       /\ reputation'[u].completed_trades = Cardinality(EarnedSet(listings', settled', u))
       /\ reputation'[u].disputed_trades = Cardinality(LostSet(listings', settled', u))
       /\ reputation'[u].total_volume = Prices(listings', EarnedSet(listings', settled', u))
BY SetsOfNext DEF ActiveCountIsExact, ReputationIsEarned

\* A step that changes one listing's status but settles nothing.
LEMMA NothingEarned ==
  ASSUME TypeOK, TypeOK', ReputationIsEarned, NEW l \in ListingIds, OthersKept(l),
         settled[l] = NoOne, settled'[l] = NoOne, reputation' = reputation
  PROVE  ReputationIsEarned'
<1>1. ASSUME NEW u \in Users
      PROVE  /\ l \notin EarnedSet(listings, settled, u) /\ l \notin EarnedSet(listings', settled', u)
             /\ l \notin LostSet(listings, settled, u) /\ l \notin LostSet(listings', settled', u)
  BY AddressAssumption DEF AddressAssumption, EarnedSet, LostSet
<1>2. ASSUME NEW u \in Users
      PROVE  /\ Cardinality(EarnedSet(listings', settled', u)) = Cardinality(EarnedSet(listings, settled, u))
             /\ Cardinality(LostSet(listings', settled', u)) = Cardinality(LostSet(listings, settled, u))
             /\ Prices(listings', EarnedSet(listings', settled', u))
                  = Prices(listings, EarnedSet(listings, settled, u))
  BY <1>1, CountersMove DEF Bit
<1>3. QED
  BY <1>2, CountersOfState, CountersOfNext

\* A step that takes one listing of `seller` off the market.
LEMMA LeavesMarket ==
  ASSUME TypeOK, TypeOK', ActiveCountIsExact, NEW l \in ListingIds, OthersKept(l),
         listings[l] \in Listing, listings[l].status = "Active",
         listings'[l] \in Listing, listings'[l].status # "Active",
         activeCount' = Decremented(listings[l].seller)
  PROVE  ActiveCountIsExact'
<1> DEFINE seller == listings[l].seller
<1>1. seller \in Users
  BY DEF Listing
<1>2. \A u \in Users : activeCount[u] = Cardinality(ActiveSet(listings, u))
                       /\ activeCount[u] <= MaxActive /\ activeCount[u] \in Nat
  BY CountersOfState DEF TypeOK
<1>3. MaxActive \in Nat
  BY QuantityAssumption DEF QuantityAssumption
<1>4. ASSUME NEW u \in Users
      PROVE  /\ l \notin ActiveSet(listings', u)
             /\ l \in ActiveSet(listings, u) <=> u = seller
  BY NoListingAssumption DEF NoListingAssumption, ActiveSet
<1>5. \A u \in Users : activeCount'[u] = IF u = seller /\ activeCount[u] # 0
                                         THEN activeCount[u] - 1 ELSE activeCount[u]
  BY <1>1, DecrementedType
<1>6. ASSUME NEW u \in Users
      PROVE  Cardinality(ActiveSet(listings', u))
               = Cardinality(ActiveSet(listings, u)) - Bit(u = seller)
  BY <1>4, CountersMove DEF Bit
<1>7. Cardinality(ActiveSet(listings', seller)) \in Nat
  <2>1. ActiveSet(listings', seller) \in SUBSET ListingIds
    BY DEF ActiveSet
  <2>2. QED
    BY <2>1, CountsMove
<1> HIDE DEF seller
<1>8. ASSUME NEW u \in Users
      PROVE  activeCount'[u] = Cardinality(ActiveSet(listings', u)) /\ activeCount'[u] <= MaxActive
  <2>1. CASE u = seller
    BY <1>2, <1>3, <1>5, <1>6, <1>7, <2>1 DEF Bit
  <2>2. CASE u # seller
    BY <1>2, <1>3, <1>5, <1>6, <2>2 DEF Bit
  <2>3. QED
    BY <2>1, <2>2
<1>9. QED
  BY <1>8, CountersOfNext

-----------------------------------------------------------------------------
(* The inductive invariant.                                                *)

LEMMA InitIInv == Init => IInv
<1> SUFFICES ASSUME Init PROVE IInv
  OBVIOUS
<1>1. MaxListings \in Nat /\ Endowment \in Nat /\ MaxActive \in Nat
  BY QuantityAssumption DEF QuantityAssumption
<1>2. \A l \in ListingIds : ~Exists(l) /\ settled[l] = NoOne
  BY DEF Init, Exists
<1>3. TypeOK
  <2>1. /\ now \in Nat /\ admin \in Users \cup {NoOne} /\ pausedAt \in Nat
        /\ listingCounter \in 0..MaxListings
    BY <1>1 DEF Init
  <2>2. paused \in BOOLEAN
    BY DEF Init
  <2>3. /\ listings \in [ListingIds -> Listing \cup {NoListing}]
        /\ activeCount \in [Users -> Nat]
        /\ settled \in [ListingIds -> Users \cup {NoOne}]
        /\ recovered \in [Tokens -> Int]
    BY DEF Init
  <2>4. reputation \in [Users -> Reputation]
    BY DEF Init, Reputation
  <2>5. balance \in [Tokens -> [Accounts -> Int]]
    BY <1>1 DEF Init
  <2>6. QED
    BY <2>1, <2>2, <2>3, <2>4, <2>5 DEF TypeOK
<1>4. IdsAreFresh /\ StatusMatchesSale
  BY <1>2 DEF Init, IdsAreFresh, StatusMatchesSale
<1>5. \A u : /\ ListingsOf(u, {"Active"}) = {} /\ EarnedBy(u) = {} /\ LostBy(u) = {}
  BY <1>2 DEF ListingsOf, EarnedBy, LostBy
<1>6. Cardinality({}) = 0
  BY FS_EmptySet
<1>7. ActiveCountIsExact
  <2>1. \A u \in Users : activeCount[u] = 0
    BY DEF Init
  <2>2. QED
    BY <1>1, <1>5, <1>6, <2>1 DEF ActiveCountIsExact
<1>8. PriceOf({}) = 0
  <2> DEFINE v == [l \in ListingIds |-> IF l \in {} THEN listings[l].price ELSE 0]
  <2>1. \A l \in 1..MaxListings : v[l] = 0
    BY DEF ListingIds
  <2>2. PriceOf({}) = SumUpTo(v, MaxListings)
    BY DEF PriceOf
  <2> HIDE DEF v
  <2>3. QED
    BY <1>1, <2>1, <2>2, SumNone
<1>9. ReputationIsEarned
  BY <1>5, <1>6, <1>8 DEF Init, ReputationIsEarned
<1>10. QED
  BY <1>3, <1>4, <1>7, <1>9 DEF IInv

LEMMA NextIInv ==
  ASSUME IInv, [Next /\ (admin = NoOne => UNCHANGED listings)]_vars
  PROVE  IInv'
<1>0. /\ TypeOK /\ IdsAreFresh /\ StatusMatchesSale /\ ActiveCountIsExact /\ ReputationIsEarned
      /\ TypeOK'
  BY TypeStep DEF IInv
<1>1. NoOne \notin Users /\ Admins \subseteq Users /\ MaxActive \in Nat
  BY AddressAssumption, QuantityAssumption DEF AddressAssumption, QuantityAssumption
<1>2. admin' = NoOne => admin = NoOne /\ listings' = listings
  <2>1. CASE \E a \in Admins : Initialize(a) \/ TransferAdmin(a)
    BY <1>1, <2>1 DEF Initialize, TransferAdmin
  <2>2. CASE ~\E a \in Admins : Initialize(a) \/ TransferAdmin(a)
    <3>1. admin' = admin
      BY <2>2
         DEF Next, AdminCall, TraderCall, vars, config, Tick, Pause, Unpause, CreateListing,
             UpdateListing, Withdrawn, CancelListing, CloseExpiredListing, DepositToEscrow,
             SettleSold, ReleasePayment, CancelAndRefund, ResolveDispute, EmergencyWithdraw
    <3>2. admin = NoOne => listings' = listings
      BY DEF vars, market
    <3>3. QED
      BY <3>1, <3>2
  <2>3. QED
    BY <2>1, <2>2
<1>3. ASSUME UNCHANGED <<listings, activeCount, reputation, settled>>,
             listingCounter' = listingCounter \/ (admin = NoOne /\ listingCounter' = 0)
      PROVE  IInv'
  <2>1. IdsAreFresh'
    BY <1>0, <1>2, <1>3 DEF IdsAreFresh, Exists
  <2>2. StatusMatchesSale'
    BY <1>0, <1>3 DEF StatusMatchesSale, Exists
  <2>3. ActiveCountIsExact' /\ ReputationIsEarned'
    BY <1>0, <1>3, CountersOfState, CountersOfNext
  <2>4. QED
    BY <1>0, <2>1, <2>2, <2>3 DEF IInv
<1>4. ASSUME NEW u \in Sellers, NEW k \in Tokens, NEW x \in Amounts, NEW e \in 0..Horizon,
             CreateListing(u, k, x, e), admin # NoOne
      PROVE  IInv'
  <2>1. PICK l \in ListingIds :
          /\ l = listingCounter + 1 /\ listingCounter' = listingCounter + 1
          /\ OthersKept(l)
          /\ listings'[l] = [seller |-> u, token |-> k, price |-> x, status |-> "Active",
                             expires_at |-> e, buyer |-> NoOne]
          /\ listings'[l] \in Listing
          /\ u \in Users
          /\ activeCount[u] < MaxActive
          /\ activeCount' = [activeCount EXCEPT ![u] = @ + 1]
          /\ settled' = settled
    BY <1>0, <1>4, CreateFacts
  <2>2. ~Exists(l) /\ settled[l] = NoOne /\ Exists(l)'
    BY <1>0, <2>1, ListingExists DEF IdsAreFresh, TypeOK
  <2>3. IdsAreFresh'
    BY <1>0, <1>2, <1>4, <2>1, <2>2 DEF IdsAreFresh, Exists, OthersKept, TypeOK, ListingIds
  <2>4. StatusMatchesSale'
    BY <1>0, <2>1, <2>2 DEF StatusMatchesSale, Exists, OthersKept
  <2>5. ActiveCountIsExact'
    <3>1. \A v \in Users : activeCount[v] = Cardinality(ActiveSet(listings, v))
                           /\ activeCount[v] <= MaxActive /\ activeCount[v] \in Nat
      BY <1>0, CountersOfState DEF TypeOK
    <3>2. ASSUME NEW v \in Users
          PROVE  l \notin ActiveSet(listings, v) /\ (l \in ActiveSet(listings', v) <=> v = u)
      BY <2>1, <2>2 DEF ActiveSet, Exists
    <3>3. ASSUME NEW v \in Users
          PROVE  Cardinality(ActiveSet(listings', v)) = Cardinality(ActiveSet(listings, v)) + Bit(v = u)
      BY <1>0, <2>1, <3>2, CountersMove DEF Bit
    <3>4. \A v \in Users : activeCount'[v] = IF v = u THEN activeCount[v] + 1 ELSE activeCount[v]
      BY <1>0, <2>1 DEF TypeOK
    <3>5. \A v \in Users : activeCount'[v] = Cardinality(ActiveSet(listings', v))
                           /\ activeCount'[v] <= MaxActive
      BY <1>1, <2>1, <3>1, <3>3, <3>4 DEF Bit
    <3>6. QED
      BY <3>5, CountersOfNext
  <2>6. ReputationIsEarned'
    <3>1. reputation' = reputation /\ settled'[l] = NoOne
      BY <1>4, <2>1, <2>2 DEF CreateListing
    <3>2. QED
      BY <1>0, <2>1, <2>2, <3>1, NothingEarned
  <2>7. QED
    BY <1>0, <2>3, <2>4, <2>5, <2>6 DEF IInv
<1>5. ASSUME NEW u \in Users, NEW l \in ListingIds, NEW x \in Amounts, NEW e \in 0..Horizon,
             UpdateListing(u, l, x, e)
      PROVE  IInv'
  <2>1. /\ OthersKept(l)
        /\ listings[l] \in Listing /\ listings[l].status = "Active"
        /\ listings'[l] \in Listing /\ listings'[l].status = "Active"
        /\ listings'[l].seller = listings[l].seller
        /\ listings'[l].buyer = listings[l].buyer
        /\ settled' = settled
    BY <1>0, <1>5, UpdateFacts
  <2>2. Exists(l) /\ Exists(l)' /\ settled[l] = NoOne /\ listings[l].buyer = NoOne
    BY <1>0, <2>1, ListingExists DEF StatusMatchesSale
  <2>3. /\ listingCounter' = listingCounter /\ activeCount' = activeCount
        /\ reputation' = reputation
    BY <1>5 DEF UpdateListing
  <2>4. IdsAreFresh'
    BY <1>0, <1>2, <2>1, <2>2, <2>3 DEF IdsAreFresh, Exists, OthersKept
  <2>5. StatusMatchesSale'
    BY <1>0, <2>1, <2>2 DEF StatusMatchesSale, Exists, OthersKept
  <2>6. ActiveCountIsExact'
    <3>1. ASSUME NEW v \in Users
          PROVE  l \in ActiveSet(listings, v) <=> l \in ActiveSet(listings', v)
      BY <2>1, <2>2 DEF ActiveSet, Exists
    <3>2. ASSUME NEW v \in Users
          PROVE  Cardinality(ActiveSet(listings', v)) = Cardinality(ActiveSet(listings, v))
      BY <1>0, <2>1, <3>1, CountersMove DEF Bit
    <3>3. QED
      BY <1>0, <2>3, <3>2, CountersOfState, CountersOfNext
  <2>7. ReputationIsEarned'
    BY <1>0, <2>1, <2>2, <2>3, NothingEarned
  <2>8. QED
    BY <1>0, <2>4, <2>5, <2>6, <2>7 DEF IInv
<1>6. ASSUME NEW l \in ListingIds, Withdrawn(l)
      PROVE  IInv'
  <2>1. /\ OthersKept(l)
        /\ listings[l] \in Listing /\ listings[l].status = "Active"
        /\ listings'[l] \in Listing /\ listings'[l].status = "Cancelled"
        /\ listings'[l].buyer = listings[l].buyer
        /\ settled' = settled
        /\ activeCount' = Decremented(listings[l].seller)
    BY <1>0, <1>6, WithdrawnFacts
  <2>2. Exists(l) /\ Exists(l)' /\ settled[l] = NoOne /\ listings[l].buyer = NoOne
    BY <1>0, <2>1, ListingExists DEF StatusMatchesSale
  <2>3. listingCounter' = listingCounter /\ reputation' = reputation
    BY <1>6 DEF Withdrawn
  <2>4. IdsAreFresh'
    BY <1>0, <1>2, <2>1, <2>2, <2>3 DEF IdsAreFresh, Exists, OthersKept
  <2>5. StatusMatchesSale'
    BY <1>0, <2>1, <2>2 DEF StatusMatchesSale, Exists, OthersKept
  <2>6. ActiveCountIsExact'
    BY <1>0, <2>1, LeavesMarket
  <2>7. ReputationIsEarned'
    BY <1>0, <2>1, <2>2, <2>3, NothingEarned
  <2>8. QED
    BY <1>0, <2>4, <2>5, <2>6, <2>7 DEF IInv
<1>7. ASSUME NEW u \in Users, NEW l \in ListingIds, DepositToEscrow(u, l)
      PROVE  IInv'
  <2>1. /\ OthersKept(l)
        /\ listings[l] \in Listing /\ listings[l].status = "Active"
        /\ listings'[l] \in Listing /\ listings'[l].status = "Sold"
        /\ listings'[l].seller = listings[l].seller
        /\ listings'[l].buyer = u /\ u # listings[l].seller
        /\ settled' = settled
        /\ activeCount' = Decremented(listings[l].seller)
    BY <1>0, <1>7, DepositFacts
  <2>2. Exists(l) /\ Exists(l)' /\ settled[l] = NoOne
    BY <1>0, <2>1, ListingExists DEF StatusMatchesSale
  <2>3. listingCounter' = listingCounter /\ reputation' = reputation
    BY <1>7 DEF DepositToEscrow
  <2>4. IdsAreFresh'
    BY <1>0, <1>2, <2>1, <2>2, <2>3 DEF IdsAreFresh, Exists, OthersKept
  <2>5. StatusMatchesSale'
    BY <1>0, <2>1, <2>2 DEF StatusMatchesSale, Exists, OthersKept
  <2>6. ActiveCountIsExact'
    BY <1>0, <2>1, LeavesMarket
  <2>7. ReputationIsEarned'
    BY <1>0, <2>1, <2>2, <2>3, NothingEarned
  <2>8. QED
    BY <1>0, <2>4, <2>5, <2>6, <2>7 DEF IInv
<1>8. ASSUME NEW l \in ListingIds,
             \/ ReleasePayment(l)
             \/ \E u \in Users : CancelAndRefund(u, l) \/ ResolveDispute(l, u)
      PROVE  IInv'
  <2>1. PICK to \in Users, status \in {"Released", "Cancelled"}, volume \in Nat :
          /\ to \in {listings[l].seller, listings[l].buyer}
          /\ status = "Released" => to = listings[l].seller
          /\ to = listings[l].seller => volume = listings[l].price
          /\ listings[l].buyer \in Users /\ listings[l].buyer # listings[l].seller
          /\ settled[l] = NoOne
          /\ SettleSold(l, to, status, volume, to # listings[l].seller)
    BY <1>0, <1>8, SettleCases
  <2>2. status \in ListingStatus /\ (to # listings[l].seller) \in BOOLEAN
    BY DEF ListingStatus
  <2>3. /\ OthersKept(l)
        /\ listings[l] \in Listing /\ listings[l].status = "Sold"
        /\ listings'[l] \in Listing /\ listings'[l].status = status
        /\ listings'[l].seller = listings[l].seller
        /\ listings'[l].price = listings[l].price
        /\ listings'[l].buyer = listings[l].buyer
        /\ settled'[l] = to
        /\ reputation' = Reputed(listings[l].seller, volume, to # listings[l].seller)
    BY <1>0, <2>1, <2>2, SettleFacts
  <2>4. listingCounter' = listingCounter /\ activeCount' = activeCount
    BY <2>1 DEF SettleSold
  <2>5. Exists(l) /\ Exists(l)' /\ listings[l].seller \in Users
    BY <2>3, ListingExists DEF Listing
  <2>6. IdsAreFresh'
    BY <1>0, <1>2, <2>3, <2>4, <2>5 DEF IdsAreFresh, Exists, OthersKept
  <2>7. StatusMatchesSale'
    BY <1>0, <2>1, <2>3, <2>5 DEF StatusMatchesSale, Exists, OthersKept
  <2>8. ActiveCountIsExact'
    <3>1. ASSUME NEW v \in Users
          PROVE  l \notin ActiveSet(listings, v) /\ l \notin ActiveSet(listings', v)
      BY <2>3 DEF ActiveSet
    <3>2. ASSUME NEW v \in Users
          PROVE  Cardinality(ActiveSet(listings', v)) = Cardinality(ActiveSet(listings, v))
      BY <1>0, <2>3, <3>1, CountersMove DEF Bit
    <3>3. QED
      BY <1>0, <2>4, <3>2, CountersOfState, CountersOfNext
  <2>9. ReputationIsEarned'
    <3> DEFINE seller == listings[l].seller
    <3>1. ASSUME NEW v \in Users
          PROVE  /\ l \notin EarnedSet(listings, settled, v) /\ l \notin LostSet(listings, settled, v)
                 /\ l \in EarnedSet(listings', settled', v) <=> v = seller /\ to = seller
                 /\ l \in LostSet(listings', settled', v) <=> v = seller /\ to # seller
      BY <1>1, <2>1, <2>2, <2>3, <2>5 DEF EarnedSet, LostSet, Exists
    <3>2. ASSUME NEW v \in Users
          PROVE  /\ reputation[v].completed_trades = Cardinality(EarnedSet(listings, settled, v))
                 /\ reputation[v].disputed_trades = Cardinality(LostSet(listings, settled, v))
                 /\ reputation[v].total_volume = Prices(listings, EarnedSet(listings, settled, v))
      BY <1>0, CountersOfState
    <3>3. ASSUME NEW v \in Users
          PROVE  /\ Cardinality(EarnedSet(listings, settled, v)) \in Nat
                 /\ Cardinality(LostSet(listings, settled, v)) \in Nat
                 /\ Cardinality(EarnedSet(listings', settled', v))
                      = Cardinality(EarnedSet(listings, settled, v)) + Bit(v = seller /\ to = seller)
                 /\ Cardinality(LostSet(listings', settled', v))
                      = Cardinality(LostSet(listings, settled, v)) + Bit(v = seller /\ to # seller)
      BY <1>0, <2>3, <3>1, CountersMove DEF Bit
    <3>4. ASSUME NEW v \in Users
          PROVE  /\ Prices(listings, EarnedSet(listings, settled, v)) \in Int
                 /\ v = seller /\ to = seller =>
                      Prices(listings', EarnedSet(listings', settled', v))
                        = Prices(listings, EarnedSet(listings, settled, v)) + volume
                 /\ ~(v = seller /\ to = seller) =>
                      Prices(listings', EarnedSet(listings', settled', v))
                        = Prices(listings, EarnedSet(listings, settled, v)) + 0
      <4>1. Prices(listings, EarnedSet(listings, settled, v)) \in Int
        BY <1>0, <2>3, CountersMove
      <4>2. ASSUME v = seller, to = seller
            PROVE  Prices(listings', EarnedSet(listings', settled', v))
                     = Prices(listings, EarnedSet(listings, settled, v)) + volume
        <5>1. volume \in Int /\ volume = listings'[l].price
          BY <2>1, <2>3, <4>2
        <5>2. QED
          BY <1>0, <2>3, <3>1, <4>2, <5>1, CountersMove
      <4>3. ASSUME ~(v = seller /\ to = seller)
            PROVE  Prices(listings', EarnedSet(listings', settled', v))
                     = Prices(listings, EarnedSet(listings, settled, v)) + 0
        BY <1>0, <2>3, <3>1, <4>3, CountersMove
      <4>4. QED
        BY <4>1, <4>2, <4>3
    <3>5. /\ \A v \in Users \ {seller} : reputation'[v] = reputation[v]
          /\ to # seller =>
               /\ reputation'[seller].completed_trades = reputation[seller].completed_trades
               /\ reputation'[seller].disputed_trades = reputation[seller].disputed_trades + 1
               /\ reputation'[seller].total_volume = reputation[seller].total_volume
          /\ to = seller =>
               /\ reputation'[seller].completed_trades = reputation[seller].completed_trades + 1
               /\ reputation'[seller].disputed_trades = reputation[seller].disputed_trades
               /\ reputation'[seller].total_volume = reputation[seller].total_volume + volume
      BY <1>0, <2>2, <2>3, <2>5, ReputedType
    <3> HIDE DEF seller
    <3>6. ASSUME NEW v \in Users
          PROVE  /\ reputation'[v].completed_trades = Cardinality(EarnedSet(listings', settled', v))
                 /\ reputation'[v].disputed_trades = Cardinality(LostSet(listings', settled', v))
                 /\ reputation'[v].total_volume = Prices(listings', EarnedSet(listings', settled', v))
      <4>1. CASE v # seller
        BY <3>2, <3>3, <3>4, <3>5, <4>1 DEF Bit
      <4>2. CASE v = seller /\ to = seller
        BY <3>2, <3>3, <3>4, <3>5, <4>2 DEF Bit
      <4>3. CASE v = seller /\ to # seller
        BY <3>2, <3>3, <3>4, <3>5, <4>3 DEF Bit
      <4>4. QED
        BY <4>1, <4>2, <4>3
    <3>7. QED
      BY <3>6, CountersOfNext
  <2>10. QED
    BY <1>0, <2>6, <2>7, <2>8, <2>9 DEF IInv
<1>9. ASSUME NEW a \in Admins, Initialize(a)
      PROVE  IInv'
  BY <1>3, <1>9 DEF Initialize, events
<1>10. ASSUME NEW k \in Tokens, NEW u \in Recipients, NEW x \in Amounts, EmergencyWithdraw(k, u, x)
       PROVE  IInv'
  BY <1>3, <1>10 DEF EmergencyWithdraw
<1>11. ASSUME UNCHANGED market, settled' = settled
       PROVE  IInv'
  BY <1>3, <1>11 DEF market
<1>12. QED
  BY <1>0, <1>4, <1>5, <1>6, <1>7, <1>8, <1>9, <1>10, <1>11, StepCases

\* The seller's active listings and its reputation are what the listings say, and
\* a listing's status tells its buyer and whom it was settled with, in every
\* reachable state.
THEOREM CountersAlwaysExact == Spec => []CountersAreExact
<1>1. Init => IInv
  BY InitIInv
<1>2. IInv /\ [Next /\ (admin = NoOne => UNCHANGED listings)]_vars => IInv'
  BY NextIInv
<1>3. QED
  BY <1>1, <1>2, PTL DEF Spec, CountersAreExact

-----------------------------------------------------------------------------
(* The money.                                                              *)

\* What the contract holds, what an account is out, and what it was paid, in a token.
Held(L, k)       == Prices(L, HeldSet(L, k))
Bought(L, k, u)  == Prices(L, BoughtSet(L, k, u))
Paid(L, s, k, u) == Prices(L, PaidSet(L, s, k, u))

MoneyInv ==
  /\ \A k \in Tokens : balance[k][Contract] = Held(listings, k) - recovered[k]
  /\ \A k \in Tokens, u \in Users \ Recipients :
       balance[k][u] = Endowment - Bought(listings, k, u) + Paid(listings, settled, k, u)

LEMMA MoneyInvIsSolvent == MoneyInv <=> Solvent /\ PartiesMadeWhole
<1>1. \A S : PriceOf(S) = Prices(listings, S)
  BY SetsOfState
<1>2. Solvent <=> \A k \in Tokens : balance[k][Contract] = PriceOf(HeldSet(listings, k)) - recovered[k]
  BY DEF Solvent, HeldSet, Exists
<1>3. PartiesMadeWhole <=> \A k \in Tokens, u \in Users \ Recipients :
        balance[k][u] = Endowment - PriceOf(BoughtSet(listings, k, u))
                        + PriceOf(PaidSet(listings, settled, k, u))
  BY DEF PartiesMadeWhole, BoughtSet, PaidSet, Exists
<1>4. QED
  BY <1>1, <1>2, <1>3 DEF MoneyInv, Held, Bought, Paid

\* The sums are over natural numbers.
LEMMA PricesType ==
  ASSUME NEW L, NEW S \in SUBSET ListingIds, \A l \in S : L[l].price \in Nat
  PROVE  Prices(L, S) \in Int
<1> DEFINE v == [l \in ListingIds |-> IF l \in S THEN L[l].price ELSE 0]
<1>1. MaxListings \in Nat /\ \A l \in 1..MaxListings : v[l] \in Int
  BY QuantityAssumption DEF QuantityAssumption, ListingIds
<1>2. Prices(L, S) = SumUpTo(v, MaxListings)
  BY DEF Prices
<1> HIDE DEF v
<1>3. QED
  BY <1>1, <1>2, SumType

LEMMA MoneyTypes ==
  ASSUME TypeOK, NEW k, NEW u
  PROVE  /\ HeldSet(listings, k) \in SUBSET ListingIds
         /\ \A m \in HeldSet(listings, k) : listings[m].price \in Nat
         /\ BoughtSet(listings, k, u) \in SUBSET ListingIds
         /\ \A m \in BoughtSet(listings, k, u) : listings[m].price \in Nat
         /\ PaidSet(listings, settled, k, u) \in SUBSET ListingIds
         /\ \A m \in PaidSet(listings, settled, k, u) : listings[m].price \in Nat
         /\ Held(listings, k) \in Int
         /\ Bought(listings, k, u) \in Int
         /\ Paid(listings, settled, k, u) \in Int
<1>1. \A m \in ListingIds : listings[m] # NoListing => listings[m].price \in Nat
  BY DEF TypeOK, Listing
<1>2. /\ HeldSet(listings, k) \in SUBSET ListingIds
      /\ \A m \in HeldSet(listings, k) : listings[m].price \in Nat
  BY <1>1 DEF HeldSet
<1>3. /\ BoughtSet(listings, k, u) \in SUBSET ListingIds
      /\ \A m \in BoughtSet(listings, k, u) : listings[m].price \in Nat
  BY <1>1 DEF BoughtSet
<1>4. /\ PaidSet(listings, settled, k, u) \in SUBSET ListingIds
      /\ \A m \in PaidSet(listings, settled, k, u) : listings[m].price \in Nat
  BY <1>1 DEF PaidSet
<1>5. Held(listings, k) \in Int
  BY <1>2, PricesType DEF Held
<1>6. Bought(listings, k, u) \in Int
  BY <1>3, PricesType DEF Bought
<1>7. Paid(listings, settled, k, u) \in Int
  BY <1>4, PricesType DEF Paid
<1>8. QED
  BY <1>2, <1>3, <1>4, <1>5, <1>6, <1>7

LEMMA MoneyTypesNext ==
  ASSUME TypeOK', NEW k, NEW u
  PROVE  /\ HeldSet(listings', k) \in SUBSET ListingIds
         /\ \A m \in HeldSet(listings', k) : listings'[m].price \in Nat
         /\ BoughtSet(listings', k, u) \in SUBSET ListingIds
         /\ \A m \in BoughtSet(listings', k, u) : listings'[m].price \in Nat
         /\ PaidSet(listings', settled', k, u) \in SUBSET ListingIds
         /\ \A m \in PaidSet(listings', settled', k, u) : listings'[m].price \in Nat
<1>1. \A m \in ListingIds : listings'[m] # NoListing => listings'[m].price \in Nat
  BY DEF TypeOK, Listing
<1>2. QED
  BY <1>1 DEF HeldSet, BoughtSet, PaidSet

\* The sets differ at l alone after a step about l.
LEMMA MoneySetsMove ==
  ASSUME NEW l \in ListingIds, OthersKept(l), NEW k, NEW u
  PROVE  \A m \in ListingIds \ {l} :
           /\ listings'[m] = listings[m]
           /\ m \in HeldSet(listings', k) <=> m \in HeldSet(listings, k)
           /\ m \in BoughtSet(listings', k, u) <=> m \in BoughtSet(listings, k, u)
           /\ m \in PaidSet(listings', settled', k, u) <=> m \in PaidSet(listings, settled, k, u)
BY DEF OthersKept, HeldSet, BoughtSet, PaidSet

\* A step about a listing that is on no account's bill, before or after.
LEMMA MoneyUntouched ==
  ASSUME TypeOK, TypeOK', MoneyInv, NEW l \in ListingIds, OthersKept(l),
         UNCHANGED <<balance, recovered>>,
         \A k \in Tokens : l \notin HeldSet(listings, k) /\ l \notin HeldSet(listings', k),
         \A k \in Tokens, u \in Users : /\ l \notin BoughtSet(listings, k, u)
                                        /\ l \notin BoughtSet(listings', k, u)
                                        /\ l \notin PaidSet(listings, settled, k, u)
                                        /\ l \notin PaidSet(listings', settled', k, u)
  PROVE  MoneyInv'
<1>1. ASSUME NEW k \in Tokens PROVE Held(listings', k) = Held(listings, k)
  <2>1. HeldSet(listings', k) = HeldSet(listings, k)
    BY DEF OthersKept, HeldSet
  <2>2. \A m \in HeldSet(listings, k) : listings'[m].price = listings[m].price
    BY MoneySetsMove, MoneyTypes
  <2>3. Prices(listings', HeldSet(listings, k)) = Prices(listings, HeldSet(listings, k))
    BY <2>2, PricesSame
  <2>4. QED
    BY <2>1, <2>3 DEF Held
<1>2. ASSUME NEW k \in Tokens, NEW u \in Users PROVE Bought(listings', k, u) = Bought(listings, k, u)
  <2>1. BoughtSet(listings', k, u) = BoughtSet(listings, k, u)
    BY DEF OthersKept, BoughtSet
  <2>2. \A m \in BoughtSet(listings, k, u) : listings'[m].price = listings[m].price
    BY MoneySetsMove, MoneyTypes
  <2>3. Prices(listings', BoughtSet(listings, k, u)) = Prices(listings, BoughtSet(listings, k, u))
    BY <2>2, PricesSame
  <2>4. QED
    BY <2>1, <2>3 DEF Bought
<1>3. ASSUME NEW k \in Tokens, NEW u \in Users
      PROVE  Paid(listings', settled', k, u) = Paid(listings, settled, k, u)
  <2>1. PaidSet(listings', settled', k, u) = PaidSet(listings, settled, k, u)
    BY DEF OthersKept, PaidSet
  <2>2. \A m \in PaidSet(listings, settled, k, u) : listings'[m].price = listings[m].price
    BY MoneySetsMove, MoneyTypes
  <2>3. Prices(listings', PaidSet(listings, settled, k, u)) = Prices(listings, PaidSet(listings, settled, k, u))
    BY <2>2, PricesSame
  <2>4. QED
    BY <2>1, <2>3 DEF Paid
<1>4. QED
  BY <1>1, <1>2, <1>3 DEF MoneyInv

LEMMA MoneyDeposited ==
  ASSUME TypeOK, TypeOK', StatusMatchesSale, MoneyInv,
         NEW u \in Users, NEW l \in ListingIds, DepositToEscrow(u, l)
  PROVE  MoneyInv'
<1> DEFINE tok == listings[l].token
<1>0. /\ NoOne \notin Users /\ Recipients \subseteq Users /\ Contract \in Accounts
      /\ \A v \in Users : v \in Accounts /\ v # Contract
  BY AddressAssumption DEF AddressAssumption, Accounts
<1>1. /\ OthersKept(l)
      /\ listings[l] \in Listing /\ listings[l].status = "Active"
      /\ listings'[l] \in Listing /\ listings'[l].status = "Sold"
      /\ listings'[l].seller = listings[l].seller
      /\ listings'[l].token = tok
      /\ listings'[l].price = listings[l].price
      /\ listings'[l].buyer = u /\ u # listings[l].seller
      /\ settled' = settled
      /\ balance' = Transferred(tok, u, Contract, listings[l].price)
  BY DepositFacts
<1>2. Exists(l) /\ Exists(l)' /\ settled[l] = NoOne /\ listings[l].buyer = NoOne
  BY <1>1, ListingExists DEF StatusMatchesSale
<1>3. PICK x \in Int : x = listings[l].price
  BY <1>1 DEF Listing
<1>4. tok \in Tokens
  BY <1>1 DEF Listing
<1>5. /\ \A k \in Tokens : k # tok => balance'[k] = balance[k]
      /\ \A c \in Accounts : balance'[tok][c] = IF c = u THEN balance[tok][c] - x
                                                ELSE IF c = Contract THEN balance[tok][c] + x
                                                ELSE balance[tok][c]
  <2> HIDE DEF tok
  <2>1. balance' = Transferred(tok, u, Contract, x)
    BY <1>1, <1>3
  <2>2. QED
    BY <1>0, <1>4, <2>1, TransferFacts
<1>6. ASSUME NEW k \in Tokens
      PROVE  /\ k = tok => Held(listings', k) = Held(listings, k) + x
             /\ k # tok => Held(listings', k) = Held(listings, k) + 0
  <2>1. l \notin HeldSet(listings, k) /\ (l \in HeldSet(listings', k) <=> k = tok)
    BY <1>1, <1>2 DEF HeldSet, Exists
  <2>2. /\ HeldSet(listings, k) \in SUBSET ListingIds /\ HeldSet(listings', k) \in SUBSET ListingIds
        /\ \A m \in HeldSet(listings, k) : listings[m].price \in Nat
        /\ \A m \in HeldSet(listings', k) : listings'[m].price \in Nat
    BY MoneyTypes, MoneyTypesNext
  <2>3. \A m \in ListingIds \ {l} :
          listings'[m] = listings[m] /\ (m \in HeldSet(listings', k) <=> m \in HeldSet(listings, k))
    BY <1>1, MoneySetsMove
  <2>4. ASSUME NEW d \in Int, k = tok => d = listings'[l].price, k # tok => d = 0
        PROVE  Held(listings', k) = Held(listings, k) + d
    <3> DEFINE S == HeldSet(listings, k)
               T == HeldSet(listings', k)
    <3>1. l \notin S /\ (l \in T => d = listings'[l].price) /\ (l \notin T => d = 0)
      BY <2>1, <2>4
    <3>2. /\ S \in SUBSET ListingIds /\ T \in SUBSET ListingIds
          /\ \A m \in S : listings[m].price \in Nat
          /\ \A m \in T : listings'[m].price \in Nat
          /\ \A m \in ListingIds \ {l} : listings'[m] = listings[m] /\ (m \in T <=> m \in S)
      BY <2>2, <2>3
    <3> HIDE DEF S, T
    <3>3. Prices(listings', T) = Prices(listings, S) + d
      BY ONLY <2>4, <3>1, <3>2, l \in ListingIds, PricesMove
    <3>4. QED
      BY <3>3 DEF Held, S, T
  <2>5. QED
    BY <1>1, <1>3, <2>4
<1>7. ASSUME NEW k \in Tokens, NEW v \in Users
      PROVE  /\ k = tok /\ v = u => Bought(listings', k, v) = Bought(listings, k, v) + x
             /\ ~(k = tok /\ v = u) => Bought(listings', k, v) = Bought(listings, k, v) + 0
  <2>1. l \notin BoughtSet(listings, k, v) /\ (l \in BoughtSet(listings', k, v) <=> k = tok /\ v = u)
    BY <1>0, <1>1, <1>2 DEF BoughtSet, Exists
  <2>2. /\ BoughtSet(listings, k, v) \in SUBSET ListingIds
        /\ BoughtSet(listings', k, v) \in SUBSET ListingIds
        /\ \A m \in BoughtSet(listings, k, v) : listings[m].price \in Nat
        /\ \A m \in BoughtSet(listings', k, v) : listings'[m].price \in Nat
    BY MoneyTypes, MoneyTypesNext
  <2>3. \A m \in ListingIds \ {l} : /\ listings'[m] = listings[m]
                                    /\ m \in BoughtSet(listings', k, v) <=> m \in BoughtSet(listings, k, v)
    BY <1>1, MoneySetsMove
  <2>4. ASSUME NEW d \in Int, k = tok /\ v = u => d = listings'[l].price, ~(k = tok /\ v = u) => d = 0
        PROVE  Bought(listings', k, v) = Bought(listings, k, v) + d
    <3> DEFINE S == BoughtSet(listings, k, v)
               T == BoughtSet(listings', k, v)
    <3>1. l \notin S /\ (l \in T => d = listings'[l].price) /\ (l \notin T => d = 0)
      BY <2>1, <2>4
    <3>2. /\ S \in SUBSET ListingIds /\ T \in SUBSET ListingIds
          /\ \A m \in S : listings[m].price \in Nat
          /\ \A m \in T : listings'[m].price \in Nat
          /\ \A m \in ListingIds \ {l} : listings'[m] = listings[m] /\ (m \in T <=> m \in S)
      BY <2>2, <2>3
    <3> HIDE DEF S, T
    <3>3. Prices(listings', T) = Prices(listings, S) + d
      BY ONLY <2>4, <3>1, <3>2, l \in ListingIds, PricesMove
    <3>4. QED
      BY <3>3 DEF Bought, S, T
  <2>5. QED
    BY <1>1, <1>3, <2>4
<1>8. ASSUME NEW k \in Tokens, NEW v \in Users
      PROVE  Paid(listings', settled', k, v) = Paid(listings, settled, k, v)
  <2>1. l \notin PaidSet(listings, settled, k, v) /\ l \notin PaidSet(listings', settled', k, v)
    BY <1>0, <1>1, <1>2 DEF PaidSet
  <2>2. PaidSet(listings', settled', k, v) = PaidSet(listings, settled, k, v)
    BY <1>1, <2>1 DEF OthersKept, PaidSet
  <2>3. \A m \in PaidSet(listings, settled, k, v) : listings'[m].price = listings[m].price
    BY <1>1, MoneySetsMove, MoneyTypes
  <2>4. Prices(listings', PaidSet(listings, settled, k, v)) = Prices(listings, PaidSet(listings, settled, k, v))
    BY <2>3, PricesSame
  <2>5. QED
    BY <2>2, <2>4 DEF Paid
<1>9. /\ recovered' = recovered /\ Endowment \in Int
      /\ \A k \in Tokens : recovered[k] \in Int /\ \A c \in Accounts : balance[k][c] \in Int
  BY QuantityAssumption DEF DepositToEscrow, events, TypeOK, QuantityAssumption
<1> HIDE DEF tok
<1>10. ASSUME NEW k \in Tokens
       PROVE  balance'[k][Contract] = Held(listings', k) - recovered'[k]
  <2>1. balance[k][Contract] = Held(listings, k) - recovered[k] /\ Held(listings, k) \in Int
    BY MoneyTypes DEF MoneyInv
  <2>2. CASE k = tok
    <3>1. balance'[k][Contract] = balance[k][Contract] + x
      BY <1>0, <1>5, <2>2
    <3>2. QED
      BY <1>6, <1>9, <2>1, <2>2, <3>1
  <2>3. CASE k # tok
    BY <1>5, <1>6, <1>9, <2>1, <2>3
  <2>4. QED
    BY <2>2, <2>3
<1>11. ASSUME NEW k \in Tokens, NEW v \in Users \ Recipients
       PROVE  balance'[k][v] = Endowment - Bought(listings', k, v) + Paid(listings', settled', k, v)
  <2>1. /\ balance[k][v] = Endowment - Bought(listings, k, v) + Paid(listings, settled, k, v)
        /\ Bought(listings, k, v) \in Int /\ Paid(listings, settled, k, v) \in Int
    BY MoneyTypes DEF MoneyInv
  <2>2. Paid(listings', settled', k, v) = Paid(listings, settled, k, v)
    BY <1>8
  <2>3. CASE k = tok /\ v = u
    <3>1. balance'[k][v] = balance[k][v] - x
      BY <1>0, <1>5, <2>3
    <3>2. QED
      BY <1>7, <1>9, <2>1, <2>2, <2>3, <3>1
  <2>4. CASE ~(k = tok /\ v = u)
    <3>1. balance'[k][v] = balance[k][v]
      BY <1>0, <1>5, <2>4
    <3>2. QED
      BY <1>7, <1>9, <2>1, <2>2, <2>4, <3>1
  <2>5. QED
    BY <2>3, <2>4
<1>12. QED
  BY <1>10, <1>11 DEF MoneyInv

LEMMA MoneySettled ==
  ASSUME TypeOK, TypeOK', StatusMatchesSale, MoneyInv, NEW l \in ListingIds,
         \/ ReleasePayment(l)
         \/ \E u \in Users : CancelAndRefund(u, l) \/ ResolveDispute(l, u)
  PROVE  MoneyInv'
<1> DEFINE tok == listings[l].token
<1>0. /\ NoOne \notin Users /\ Recipients \subseteq Users /\ Contract \in Accounts
      /\ \A v \in Users : v \in Accounts /\ v # Contract
  BY AddressAssumption DEF AddressAssumption, Accounts
<1>1. PICK to \in Users, status \in {"Released", "Cancelled"}, volume \in Nat :
        /\ to \in {listings[l].seller, listings[l].buyer}
        /\ listings[l].buyer \in Users
        /\ settled[l] = NoOne
        /\ SettleSold(l, to, status, volume, to # listings[l].seller)
  BY SettleCases
<1>2. /\ OthersKept(l)
      /\ listings[l] \in Listing /\ listings[l].status = "Sold"
      /\ listings'[l] \in Listing /\ listings'[l].status = status
      /\ listings'[l].seller = listings[l].seller
      /\ listings'[l].token = tok
      /\ listings'[l].price = listings[l].price
      /\ listings'[l].buyer = listings[l].buyer
      /\ settled'[l] = to
      /\ balance' = Transferred(tok, Contract, to, listings[l].price)
  <2>1. status \in ListingStatus
    BY DEF ListingStatus
  <2>2. QED
    BY <1>1, <2>1, SettleFacts
<1>3. Exists(l) /\ Exists(l)' /\ status # "Sold"
  BY <1>2, ListingExists
<1>4. PICK x \in Int : x = listings[l].price
  BY <1>2 DEF Listing
<1>5. tok \in Tokens
  BY <1>2 DEF Listing
<1>6. /\ \A k \in Tokens : k # tok => balance'[k] = balance[k]
      /\ \A c \in Accounts : balance'[tok][c] = IF c = Contract THEN balance[tok][c] - x
                                                ELSE IF c = to THEN balance[tok][c] + x
                                                ELSE balance[tok][c]
  <2> HIDE DEF tok
  <2>1. balance' = Transferred(tok, Contract, to, x)
    BY <1>2, <1>4
  <2>2. QED
    BY <1>0, <1>5, <2>1, TransferFacts
<1>7. ASSUME NEW k \in Tokens
      PROVE  /\ k = tok => Held(listings, k) = Held(listings', k) + x
             /\ k # tok => Held(listings, k) = Held(listings', k) + 0
             /\ Held(listings', k) \in Int
  <2>1. l \notin HeldSet(listings', k) /\ (l \in HeldSet(listings, k) <=> k = tok)
    BY <1>2, <1>3 DEF HeldSet, Exists
  <2>2. /\ HeldSet(listings, k) \in SUBSET ListingIds /\ HeldSet(listings', k) \in SUBSET ListingIds
        /\ \A m \in HeldSet(listings, k) : listings[m].price \in Nat
        /\ \A m \in HeldSet(listings', k) : listings'[m].price \in Nat
    BY MoneyTypes, MoneyTypesNext
  <2>3. \A m \in ListingIds \ {l} :
          listings[m] = listings'[m] /\ (m \in HeldSet(listings, k) <=> m \in HeldSet(listings', k))
    BY <1>2, MoneySetsMove
  <2>4. ASSUME NEW d \in Int, k = tok => d = listings[l].price, k # tok => d = 0
        PROVE  Held(listings, k) = Held(listings', k) + d
    BY <2>1, <2>2, <2>3, <2>4, PricesMove DEF Held
  <2>5. Held(listings', k) \in Int
    BY <2>2, PricesType DEF Held
  <2>6. QED
    BY <1>2, <1>4, <2>4, <2>5
<1>8. ASSUME NEW k \in Tokens, NEW v \in Users
      PROVE  Bought(listings', k, v) = Bought(listings, k, v)
  <2>1. BoughtSet(listings', k, v) = BoughtSet(listings, k, v)
    BY <1>2, <1>3 DEF OthersKept, BoughtSet, Exists
  <2>2. \A m \in BoughtSet(listings, k, v) : listings'[m].price = listings[m].price
    BY <1>2, MoneySetsMove, MoneyTypes
  <2>3. Prices(listings', BoughtSet(listings, k, v)) = Prices(listings, BoughtSet(listings, k, v))
    BY <2>2, PricesSame
  <2>4. QED
    BY <2>1, <2>3 DEF Bought
<1>9. ASSUME NEW k \in Tokens, NEW v \in Users
      PROVE  /\ k = tok /\ v = to =>
                  Paid(listings', settled', k, v) = Paid(listings, settled, k, v) + x
             /\ ~(k = tok /\ v = to) =>
                  Paid(listings', settled', k, v) = Paid(listings, settled, k, v) + 0
  <2>1. /\ l \notin PaidSet(listings, settled, k, v)
        /\ l \in PaidSet(listings', settled', k, v) <=> k = tok /\ v = to
    BY <1>0, <1>1, <1>2, <1>3 DEF PaidSet, Exists
  <2>2. /\ PaidSet(listings, settled, k, v) \in SUBSET ListingIds
        /\ PaidSet(listings', settled', k, v) \in SUBSET ListingIds
        /\ \A m \in PaidSet(listings, settled, k, v) : listings[m].price \in Nat
        /\ \A m \in PaidSet(listings', settled', k, v) : listings'[m].price \in Nat
    BY MoneyTypes, MoneyTypesNext
  <2>3. \A m \in ListingIds \ {l} :
          /\ listings'[m] = listings[m]
          /\ m \in PaidSet(listings', settled', k, v) <=> m \in PaidSet(listings, settled, k, v)
    BY <1>2, MoneySetsMove
  <2>4. ASSUME NEW d \in Int, k = tok /\ v = to => d = listings'[l].price, ~(k = tok /\ v = to) => d = 0
        PROVE  Paid(listings', settled', k, v) = Paid(listings, settled, k, v) + d
    <3> DEFINE S == PaidSet(listings, settled, k, v)
               T == PaidSet(listings', settled', k, v)
    <3>1. l \notin S /\ (l \in T => d = listings'[l].price) /\ (l \notin T => d = 0)
      BY <2>1, <2>4
    <3>2. /\ S \in SUBSET ListingIds /\ T \in SUBSET ListingIds
          /\ \A m \in S : listings[m].price \in Nat
          /\ \A m \in T : listings'[m].price \in Nat
          /\ \A m \in ListingIds \ {l} : listings'[m] = listings[m] /\ (m \in T <=> m \in S)
      BY <2>2, <2>3
    <3> HIDE DEF S, T
    <3>3. Prices(listings', T) = Prices(listings, S) + d
      BY ONLY <2>4, <3>1, <3>2, l \in ListingIds, PricesMove
    <3>4. QED
      BY <3>3 DEF Paid, S, T
  <2>5. QED
    BY <1>2, <1>4, <2>4
<1>10. /\ recovered' = recovered /\ Endowment \in Int
       /\ \A k \in Tokens : recovered[k] \in Int /\ \A c \in Accounts : balance[k][c] \in Int
  BY <1>1, QuantityAssumption DEF SettleSold, TypeOK, QuantityAssumption
<1> HIDE DEF tok
<1>11. ASSUME NEW k \in Tokens
       PROVE  balance'[k][Contract] = Held(listings', k) - recovered'[k]
  <2>1. balance[k][Contract] = Held(listings, k) - recovered[k] /\ Held(listings, k) \in Int
    BY MoneyTypes DEF MoneyInv
  <2>2. CASE k = tok
    <3>1. balance'[k][Contract] = balance[k][Contract] - x
      BY <1>0, <1>6, <2>2
    <3>2. QED
      BY <1>7, <1>10, <2>1, <2>2, <3>1
  <2>3. CASE k # tok
    BY <1>6, <1>7, <1>10, <2>1, <2>3
  <2>4. QED
    BY <2>2, <2>3
<1>12. ASSUME NEW k \in Tokens, NEW v \in Users \ Recipients
       PROVE  balance'[k][v] = Endowment - Bought(listings', k, v) + Paid(listings', settled', k, v)
  <2>1. /\ balance[k][v] = Endowment - Bought(listings, k, v) + Paid(listings, settled, k, v)
        /\ Bought(listings, k, v) \in Int /\ Paid(listings, settled, k, v) \in Int
    BY MoneyTypes DEF MoneyInv
  <2>2. Bought(listings', k, v) = Bought(listings, k, v)
    BY <1>8
  <2>3. CASE k = tok /\ v = to
    <3>1. balance'[k][v] = balance[k][v] + x
      BY <1>0, <1>6, <2>3
    <3>2. QED
      BY <1>9, <1>10, <2>1, <2>2, <2>3, <3>1
  <2>4. CASE ~(k = tok /\ v = to)
    <3>1. balance'[k][v] = balance[k][v]
      BY <1>0, <1>6, <2>4
    <3>2. QED
      BY <1>9, <1>10, <2>1, <2>2, <2>4, <3>1
  <2>5. QED
    BY <2>3, <2>4
<1>13. QED
  BY <1>11, <1>12 DEF MoneyInv

LEMMA MoneyEmergency ==
  ASSUME TypeOK, MoneyInv, NEW k \in Tokens, NEW u \in Recipients, NEW x \in Amounts,
         EmergencyWithdraw(k, u, x)
  PROVE  MoneyInv'
<1>1. /\ x \in Int /\ u \in Users /\ Contract \in Accounts
      /\ \A v \in Users : v \in Accounts /\ v # Contract
  BY AddressAssumption, QuantityAssumption DEF AddressAssumption, QuantityAssumption, Accounts
<1>2. /\ listings' = listings /\ settled' = settled
      /\ balance' = Transferred(k, Contract, u, x)
      /\ recovered' = [recovered EXCEPT ![k] = @ + x]
  BY DEF EmergencyWithdraw
<1>3. /\ \A j \in Tokens : j # k => balance'[j] = balance[j]
      /\ \A c \in Accounts : balance'[k][c] = IF c = Contract THEN balance[k][c] - x
                                              ELSE IF c = u THEN balance[k][c] + x
                                              ELSE balance[k][c]
  BY <1>1, <1>2, TransferFacts
<1>4. /\ recovered'[k] = recovered[k] + x
      /\ \A j \in Tokens : j # k => recovered'[j] = recovered[j]
  BY <1>2 DEF TypeOK
<1>5. ASSUME NEW j \in Tokens
      PROVE  balance'[j][Contract] = Held(listings', j) - recovered'[j]
  <2>1. /\ balance[j][Contract] = Held(listings, j) - recovered[j]
        /\ Held(listings, j) \in Int /\ recovered[j] \in Int /\ balance[j][Contract] \in Int
    BY <1>1, MoneyTypes DEF MoneyInv, TypeOK
  <2>2. Held(listings', j) = Held(listings, j)
    BY <1>2
  <2>3. CASE j = k
    <3>1. balance'[j][Contract] = balance[j][Contract] - x /\ recovered'[j] = recovered[j] + x
      BY <1>1, <1>3, <1>4, <2>3
    <3>2. QED
      BY <1>1, <2>1, <2>2, <3>1
  <2>4. CASE j # k
    BY <1>3, <1>4, <2>1, <2>2, <2>4
  <2>5. QED
    BY <2>3, <2>4
<1>6. ASSUME NEW j \in Tokens, NEW v \in Users \ Recipients
      PROVE  balance'[j][v] = Endowment - Bought(listings', j, v) + Paid(listings', settled', j, v)
  <2>1. balance'[j][v] = balance[j][v]
    BY <1>1, <1>3
  <2>2. Bought(listings', j, v) = Bought(listings, j, v)
        /\ Paid(listings', settled', j, v) = Paid(listings, settled, j, v)
    BY <1>2
  <2>3. QED
    BY <2>1, <2>2 DEF MoneyInv
<1>7. QED
  BY <1>5, <1>6 DEF MoneyInv

LEMMA MoneyNext ==
  ASSUME IInv, IInv', MoneyInv, [Next /\ (admin = NoOne => UNCHANGED listings)]_vars
  PROVE  MoneyInv'
<1>0. TypeOK /\ TypeOK' /\ IdsAreFresh /\ StatusMatchesSale /\ NoOne \notin Users
  BY AddressAssumption DEF IInv, AddressAssumption
<1>1. CASE UNCHANGED market /\ settled' = settled /\ UNCHANGED recovered
  BY <1>1 DEF market, MoneyInv
<1>2. ASSUME NEW a \in Admins, Initialize(a) PROVE MoneyInv'
  BY <1>2 DEF Initialize, events, MoneyInv
<1>3. ASSUME NEW u \in Sellers, NEW k \in Tokens, NEW x \in Amounts, NEW e \in 0..Horizon,
             CreateListing(u, k, x, e)
      PROVE  MoneyInv'
  <2>1. PICK l \in ListingIds :
          /\ l = listingCounter + 1 /\ OthersKept(l)
          /\ listings'[l] = [seller |-> u, token |-> k, price |-> x, status |-> "Active",
                             expires_at |-> e, buyer |-> NoOne]
          /\ settled' = settled
    BY <1>0, <1>3, CreateFacts
  <2>2. listings'[l].buyer = NoOne /\ listings'[l].status = "Active"
    BY <2>1
  <2>3. listings[l] = NoListing /\ settled[l] = NoOne /\ settled'[l] = NoOne
    BY <1>0, <2>1 DEF IdsAreFresh, Exists, TypeOK
  <2>4. UNCHANGED <<balance, recovered>>
    BY <1>3 DEF CreateListing, events
  <2>5. \A j \in Tokens : l \notin HeldSet(listings, j) /\ l \notin HeldSet(listings', j)
    BY <2>2, <2>3 DEF HeldSet
  <2>6. \A j \in Tokens, v \in Users : l \notin BoughtSet(listings, j, v)
                                       /\ l \notin BoughtSet(listings', j, v)
                                       /\ l \notin PaidSet(listings, settled, j, v)
                                       /\ l \notin PaidSet(listings', settled', j, v)
    BY <1>0, <2>2, <2>3 DEF BoughtSet, PaidSet
  <2>7. QED
    BY <1>0, <2>1, <2>4, <2>5, <2>6, MoneyUntouched
<1>4. ASSUME NEW l \in ListingIds, OthersKept(l), UNCHANGED <<balance, recovered, settled>>,
             listings[l] \in Listing, listings[l].status = "Active",
             listings'[l].status # "Sold", listings'[l].buyer = listings[l].buyer
      PROVE  MoneyInv'
  <2>1. listings[l].buyer = NoOne /\ settled[l] = NoOne /\ settled'[l] = NoOne
    BY <1>0, <1>4, ListingExists DEF StatusMatchesSale
  <2>2. \A j \in Tokens : l \notin HeldSet(listings, j) /\ l \notin HeldSet(listings', j)
    BY <1>4 DEF HeldSet
  <2>3. \A j \in Tokens, v \in Users : l \notin BoughtSet(listings, j, v)
                                       /\ l \notin BoughtSet(listings', j, v)
                                       /\ l \notin PaidSet(listings, settled, j, v)
                                       /\ l \notin PaidSet(listings', settled', j, v)
    BY <1>0, <1>4, <2>1 DEF BoughtSet, PaidSet
  <2>4. UNCHANGED <<balance, recovered>>
    BY <1>4
  <2>5. QED
    BY <1>0, <1>4, <2>2, <2>3, <2>4, MoneyUntouched
<1>5. ASSUME NEW u \in Users, NEW l \in ListingIds, NEW x \in Amounts, NEW e \in 0..Horizon,
             UpdateListing(u, l, x, e)
      PROVE  MoneyInv'
  <2>1. /\ OthersKept(l) /\ listings[l] \in Listing /\ listings[l].status = "Active"
        /\ listings'[l].status = "Active" /\ listings'[l].buyer = listings[l].buyer
    BY <1>0, <1>5, UpdateFacts
  <2>2. UNCHANGED <<balance, recovered, settled>>
    BY <1>5 DEF UpdateListing, events
  <2>3. QED
    BY <1>4, <2>1, <2>2
<1>6. ASSUME NEW l \in ListingIds, Withdrawn(l) PROVE MoneyInv'
  <2>1. /\ OthersKept(l) /\ listings[l] \in Listing /\ listings[l].status = "Active"
        /\ listings'[l].status = "Cancelled" /\ listings'[l].buyer = listings[l].buyer
    BY <1>0, <1>6, WithdrawnFacts
  <2>2. UNCHANGED <<balance, recovered, settled>>
    BY <1>6 DEF Withdrawn, events
  <2>3. QED
    BY <1>4, <2>1, <2>2
<1>7. ASSUME NEW u \in Users, NEW l \in ListingIds, DepositToEscrow(u, l) PROVE MoneyInv'
  BY <1>0, <1>7, MoneyDeposited
<1>8. ASSUME NEW l \in ListingIds,
             \/ ReleasePayment(l)
             \/ \E u \in Users : CancelAndRefund(u, l) \/ ResolveDispute(l, u)
      PROVE  MoneyInv'
  BY <1>0, <1>8, MoneySettled
<1>9. ASSUME NEW k \in Tokens, NEW u \in Recipients, NEW x \in Amounts, EmergencyWithdraw(k, u, x)
      PROVE  MoneyInv'
  BY <1>0, <1>9, MoneyEmergency
<1>10. QED
  BY <1>0, <1>1, <1>2, <1>3, <1>5, <1>6, <1>7, <1>8, <1>9, StepCases

LEMMA MoneyInit == Init => MoneyInv
<1> SUFFICES ASSUME Init PROVE MoneyInv
  OBVIOUS
<1>1. MaxListings \in Nat /\ Endowment \in Nat /\ Contract \notin Users /\ NoOne \notin Users
  BY AddressAssumption, QuantityAssumption DEF AddressAssumption, QuantityAssumption
<1>2. \A k, u : HeldSet(listings, k) = {} /\ BoughtSet(listings, k, u) = {}
                /\ PaidSet(listings, settled, k, u) = {}
  BY DEF Init, HeldSet, BoughtSet, PaidSet
<1>3. Prices(listings, {}) = 0
  <2> DEFINE z == [l \in ListingIds |-> IF l \in {} THEN listings[l].price ELSE 0]
  <2>1. \A l \in 1..MaxListings : z[l] = 0
    BY DEF ListingIds
  <2>2. Prices(listings, {}) = SumUpTo(z, MaxListings)
    BY DEF Prices
  <2> HIDE DEF z
  <2>3. QED
    BY <1>1, <2>1, <2>2, SumNone
<1>4. \A k \in Tokens : balance[k][Contract] = 0 /\ recovered[k] = 0
                        /\ \A u \in Users : balance[k][u] = Endowment
  BY <1>1 DEF Init, Accounts
<1>5. \A k, u : Held(listings, k) = 0 /\ Bought(listings, k, u) = 0
                /\ Paid(listings, settled, k, u) = 0
  BY <1>2, <1>3 DEF Held, Bought, Paid
<1>6. QED
  BY <1>1, <1>4, <1>5 DEF MoneyInv

LEMMA MoneyAlways == Spec => []MoneyInv
<1>1. Init => MoneyInv
  BY MoneyInit
<1>2. IInv /\ IInv' /\ MoneyInv /\ [Next /\ (admin = NoOne => UNCHANGED listings)]_vars => MoneyInv'
  BY MoneyNext
<1>3. QED
  BY <1>1, <1>2, CountersAlwaysExact, PTL DEF Spec, CountersAreExact

\* Solvency: for each token the contract holds the prices of the Sold listings,
\* less what emergency_withdraw took out.
THEOREM AlwaysSolvent == Spec => []Solvent
<1>1. MoneyInv => Solvent
  BY MoneyInvIsSolvent
<1>2. QED
  BY <1>1, MoneyAlways, PTL

\* Each party is out what it bought and gained the prices settled with it, and
\* nobody else gains or loses.
THEOREM PartiesWhole == Spec => []PartiesMadeWhole
<1>1. MoneyInv => PartiesMadeWhole
  BY MoneyInvIsSolvent
<1>2. QED
  BY <1>1, MoneyAlways, PTL

-----------------------------------------------------------------------------
(* Marketplace implements EscrowVault.                                     *)

\* The refinement mapping of Marketplace!Vault.
placeBar  == [l \in ListingIds |-> PlaceOf(l)]
closedBar == {l \in ListingIds : Exists(l) /\ listings[l].status \in {"Released", "Cancelled"}}

\* What a step about l does to the other listings' places.
LEMMA PlacesKept ==
  ASSUME NEW l \in ListingIds, OthersKept(l)
  PROVE  /\ \A m \in ListingIds \ {l} : placeBar'[m] = placeBar[m] /\ (m \in closedBar' <=> m \in closedBar)
         /\ placeBar[l] = PlaceOf(l) /\ placeBar'[l] = PlaceOf(l)'
         /\ placeBar' = [m \in ListingIds |-> placeBar'[m]]
         /\ placeBar = [m \in ListingIds |-> placeBar[m]]
         /\ closedBar \subseteq ListingIds /\ closedBar' \subseteq ListingIds
BY DEF OthersKept, placeBar, closedBar, PlaceOf, Exists

LEMMA VaultSame ==
  ASSUME NEW l \in ListingIds, OthersKept(l), PlaceOf(l)' = PlaceOf(l),
         l \notin closedBar, l \notin closedBar'
  PROVE  UNCHANGED Vault!vaultVars
<1>1. placeBar' = placeBar
  BY PlacesKept
<1>2. closedBar' = closedBar
  BY PlacesKept
<1>3. QED
  BY <1>1, <1>2 DEF Vault!vaultVars, placeBar, closedBar

\* The deposit of l leaves for a side and l is over.
LEMMA VaultSettles ==
  ASSUME NEW l \in ListingIds, OthersKept(l), NEW side \in {"seller", "buyer"},
         PlaceOf(l) = <<"held">>, PlaceOf(l)' = <<side>>, l \notin closedBar, l \in closedBar'
  PROVE  Vault!VaultNext
<1>1. Len(placeBar[l]) = 1 /\ placeBar[l][1] = "held"
  BY PlacesKept
<1>2. [i \in 1..Len(placeBar[l]) |-> IF i \in {1} THEN side ELSE placeBar[l][i]] = <<side>>
  BY <1>1
<1>3. placeBar' = [placeBar EXCEPT ![l] = <<side>>]
  BY PlacesKept
<1>4. placeBar' = [placeBar EXCEPT ![l] =
                     [i \in 1..Len(placeBar[l]) |-> IF i \in {1} THEN side ELSE placeBar[l][i]]]
  BY <1>2, <1>3
<1>5. closedBar' = closedBar \cup {l}
  BY PlacesKept
<1>6. \A i \in 1..Len(placeBar'[l]) : placeBar'[l][i] # "held"
  <2>1. placeBar'[l] = <<side>> /\ Len(<<side>>) = 1 /\ <<side>>[1] = side
    BY PlacesKept
  <2>2. QED
    BY <2>1
<1>7. {1} \in SUBSET (1..Len(placeBar[l])) /\ \A i \in {1} : placeBar[l][i] = "held"
  BY <1>1
<1>8. Vault!Settle(l, {1}, side)
  BY <1>4, <1>5, <1>6, <1>7 DEF Vault!Settle, Vault!HoldsNone, placeBar, closedBar
<1>9. QED
  BY <1>7, <1>8 DEF Vault!VaultNext, placeBar

\* l is over without a deposit.
LEMMA VaultCloses ==
  ASSUME NEW l \in ListingIds, OthersKept(l),
         PlaceOf(l) = << >>, PlaceOf(l)' = << >>, l \notin closedBar, l \in closedBar'
  PROVE  Vault!VaultNext
<1>1. placeBar[l] = << >> /\ placeBar'[l] = << >> /\ Len(<< >>) = 0
  BY PlacesKept
<1>2. [i \in 1..Len(placeBar[l]) |-> IF i \in {} THEN "seller" ELSE placeBar[l][i]] = << >>
  BY <1>1
<1>3. placeBar' = [placeBar EXCEPT ![l] = << >>]
  BY <1>1, PlacesKept
<1>4. placeBar' = [placeBar EXCEPT ![l] =
                     [i \in 1..Len(placeBar[l]) |-> IF i \in {} THEN "seller" ELSE placeBar[l][i]]]
  BY <1>2, <1>3
<1>5. closedBar' = closedBar \cup {l}
  BY PlacesKept
<1>6. \A i \in 1..Len(placeBar'[l]) : placeBar'[l][i] # "held"
  BY <1>1
<1>7. {} \in SUBSET (1..Len(placeBar[l])) /\ \A i \in {} : placeBar[l][i] = "held"
  OBVIOUS
<1>8. Vault!Settle(l, {}, "seller")
  BY <1>4, <1>5, <1>6, <1>7 DEF Vault!Settle, Vault!HoldsNone, placeBar, closedBar
<1>9. QED
  BY <1>7, <1>8 DEF Vault!VaultNext, placeBar

LEMMA VaultStep ==
  ASSUME IInv, IInv', [Next /\ (admin = NoOne => UNCHANGED listings)]_vars
  PROVE  Vault!VaultNext \/ UNCHANGED Vault!vaultVars
<1>0. /\ TypeOK /\ TypeOK' /\ IdsAreFresh /\ StatusMatchesSale /\ StatusMatchesSale'
      /\ NoOne \notin Users
  BY AddressAssumption DEF IInv, AddressAssumption
<1>1. ASSUME UNCHANGED <<listings, settled>> PROVE UNCHANGED Vault!vaultVars
  BY <1>1 DEF Vault!vaultVars, PlaceOf, Exists
<1>2. CASE UNCHANGED market /\ settled' = settled
  BY <1>1, <1>2 DEF market
<1>3. ASSUME NEW a \in Admins, Initialize(a) PROVE UNCHANGED Vault!vaultVars
  BY <1>1, <1>3 DEF Initialize, events
<1>4. ASSUME NEW k \in Tokens, NEW u \in Recipients, NEW x \in Amounts, EmergencyWithdraw(k, u, x)
      PROVE  UNCHANGED Vault!vaultVars
  BY <1>1, <1>4 DEF EmergencyWithdraw
<1>5. ASSUME NEW u \in Sellers, NEW k \in Tokens, NEW x \in Amounts, NEW e \in 0..Horizon,
             CreateListing(u, k, x, e)
      PROVE  UNCHANGED Vault!vaultVars
  <2>1. PICK l \in ListingIds :
          /\ l = listingCounter + 1 /\ OthersKept(l)
          /\ listings'[l] = [seller |-> u, token |-> k, price |-> x, status |-> "Active",
                             expires_at |-> e, buyer |-> NoOne]
    BY <1>0, <1>5, CreateFacts
  <2>2. listings'[l].buyer = NoOne /\ listings'[l].status = "Active"
    BY <2>1
  <2>3. ~Exists(l)
    BY <1>0, <2>1 DEF IdsAreFresh, TypeOK
  <2>4. PlaceOf(l) = << >> /\ PlaceOf(l)' = << >>
    BY <2>2, <2>3 DEF PlaceOf
  <2>5. l \notin closedBar /\ l \notin closedBar'
    BY <2>2, <2>3 DEF closedBar
  <2>6. QED
    BY <2>1, <2>4, <2>5, VaultSame
<1>6. ASSUME NEW l \in ListingIds, listings[l] \in Listing, listings[l].status = "Active"
      PROVE  /\ listings[l].buyer = NoOne /\ settled[l] = NoOne
             /\ PlaceOf(l) = << >> /\ l \notin closedBar
  <2>1. listings[l].buyer = NoOne /\ settled[l] = NoOne
    BY <1>0, <1>6, ListingExists DEF StatusMatchesSale
  <2>2. l \notin closedBar
    BY <1>6 DEF closedBar
  <2>3. QED
    BY <2>1, <2>2 DEF PlaceOf
<1>7. ASSUME NEW u \in Users, NEW l \in ListingIds, NEW x \in Amounts, NEW e \in 0..Horizon,
             UpdateListing(u, l, x, e)
      PROVE  UNCHANGED Vault!vaultVars
  <2>1. /\ OthersKept(l) /\ listings[l] \in Listing /\ listings[l].status = "Active"
        /\ listings'[l].status = "Active" /\ listings'[l].buyer = listings[l].buyer
    BY <1>0, <1>7, UpdateFacts
  <2>2. PlaceOf(l)' = << >> /\ l \notin closedBar'
    BY <1>6, <2>1 DEF PlaceOf, closedBar
  <2>3. QED
    BY <1>6, <2>1, <2>2, VaultSame
<1>8. ASSUME NEW l \in ListingIds, Withdrawn(l) PROVE Vault!VaultNext
  <2>1. /\ OthersKept(l) /\ listings[l] \in Listing /\ listings[l].status = "Active"
        /\ listings'[l] \in Listing /\ listings'[l].status = "Cancelled"
        /\ listings'[l].buyer = listings[l].buyer
    BY <1>0, <1>8, WithdrawnFacts
  <2>2. PlaceOf(l)' = << >> /\ l \in closedBar'
    BY <1>6, <2>1, ListingExists DEF PlaceOf, closedBar
  <2>3. QED
    BY <1>6, <2>1, <2>2, VaultCloses
<1>9. ASSUME NEW u \in Users, NEW l \in ListingIds, DepositToEscrow(u, l) PROVE Vault!VaultNext
  <2>1. /\ OthersKept(l) /\ listings[l] \in Listing /\ listings[l].status = "Active"
        /\ listings'[l] \in Listing /\ listings'[l].status = "Sold"
        /\ listings'[l].buyer = u /\ settled' = settled
    BY <1>0, <1>9, DepositFacts
  <2>2. PlaceOf(l) = << >> /\ settled'[l] = NoOne /\ l \notin closedBar
    BY <1>6, <2>1
  <2>3. PlaceOf(l)' = <<"held">> /\ l \notin closedBar'
    BY <1>0, <2>1, <2>2, ListingExists DEF PlaceOf, closedBar
  <2>4. placeBar[l] = << >> /\ placeBar'[l] = <<"held">> /\ Append(<< >>, "held") = <<"held">>
    BY <2>1, <2>2, <2>3, PlacesKept
  <2>5. placeBar' = [placeBar EXCEPT ![l] = Append(@, "held")]
    BY <2>1, <2>4, PlacesKept
  <2>6. closedBar' = closedBar
    <3>1. OthersKept(l) /\ l \notin closedBar /\ l \notin closedBar'
      BY <2>1, <2>2, <2>3
    <3>2. /\ \A m \in ListingIds \ {l} : m \in closedBar' <=> m \in closedBar
          /\ closedBar \subseteq ListingIds /\ closedBar' \subseteq ListingIds
      BY <3>1, PlacesKept
    <3>3. QED
      BY ONLY <3>1, <3>2
  <2>7. Vault!Deposit(l)
    BY <2>2, <2>5, <2>6 DEF Vault!Deposit, placeBar, closedBar
  <2>8. QED
    BY <2>7 DEF Vault!VaultNext
<1>10. ASSUME NEW l \in ListingIds,
              \/ ReleasePayment(l)
              \/ \E u \in Users : CancelAndRefund(u, l) \/ ResolveDispute(l, u)
       PROVE  Vault!VaultNext
  <2>1. PICK to \in Users, status \in {"Released", "Cancelled"}, volume \in Nat :
          /\ to \in {listings[l].seller, listings[l].buyer}
          /\ listings[l].buyer \in Users
          /\ settled[l] = NoOne
          /\ SettleSold(l, to, status, volume, to # listings[l].seller)
    BY <1>0, <1>10, SettleCases
  <2>2. status \in ListingStatus
    BY DEF ListingStatus
  <2>3. /\ OthersKept(l) /\ listings[l] \in Listing /\ listings[l].status = "Sold"
        /\ listings'[l] \in Listing /\ listings'[l].status = status
        /\ listings'[l].seller = listings[l].seller /\ listings'[l].buyer = listings[l].buyer
        /\ settled'[l] = to
    BY <1>0, <2>1, <2>2, SettleFacts
  <2>4. Exists(l) /\ Exists(l)'
    BY <2>3, ListingExists
  <2>5. PlaceOf(l) = <<"held">> /\ l \notin closedBar
    BY <1>0, <2>1, <2>3, <2>4 DEF PlaceOf, closedBar
  <2>6. l \in closedBar'
    BY <2>3, <2>4 DEF closedBar
  <2>7. PlaceOf(l)' = <<IF to = listings[l].seller THEN "seller" ELSE "buyer">>
    BY <1>0, <2>1, <2>3, <2>4 DEF PlaceOf
  <2>8. QED
    BY <2>3, <2>5, <2>6, <2>7, VaultSettles
<1>11. QED
  BY <1>0, <1>2, <1>3, <1>4, <1>5, <1>7, <1>8, <1>9, <1>10, StepCases

LEMMA VaultStart == Init => Vault!VaultInit
<1> SUFFICES ASSUME Init PROVE Vault!VaultInit
  OBVIOUS
<1>1. \A l \in ListingIds : ~Exists(l) /\ PlaceOf(l) = << >>
  BY DEF Init, Exists, PlaceOf
<1>2. QED
  BY <1>1 DEF Vault!VaultInit

\* The price of a sold listing is paid out once, to one of its two parties, and no
\* listing that was settled, cancelled or closed is sold again.
THEOREM VaultImplemented == Spec => ImplementsVault
<1>1. Init => Vault!VaultInit
  BY VaultStart
<1>2. IInv /\ IInv' /\ [Next /\ (admin = NoOne => UNCHANGED listings)]_vars
        => [Vault!VaultNext]_(Vault!vaultVars)
  BY VaultStep
<1>3. QED
  BY <1>1, <1>2, CountersAlwaysExact, PTL DEF Spec, CountersAreExact, ImplementsVault, Vault!VaultSpec

-----------------------------------------------------------------------------
(* Both contracts.                                                         *)

\* What EscrowProofs proves, with MCContracts' values: EscrowAssumption is what Escrow assumes.
K == INSTANCE EscrowProofs WITH
       Users <- EscrowUsers, NoAdmin <- NoOne, NoTrade <- NoListing, Tokens <- EscrowTokens,
       Admins <- EscrowAdmins, Sellers <- EscrowSellers, Recipients <- EscrowRecipients,
       Amounts <- EscrowAmounts, Endowment <- EscrowEndowment, Horizon <- EscrowHorizon,
       EmergencyTimelock <- EscrowTimelock,
       now <- clock, admin <- eAdmin, paused <- ePaused, pausedAt <- ePausedAt,
       balance <- eBalance, recovered <- eRecovered

\* It speaks of the same contract as MCContracts does.
LEMMA SameEscrow ==
  /\ E!Init <=> K!Init
  /\ E!Next <=> K!Next
  /\ E!vars = K!vars
  /\ E!MoneyIsAccountedFor <=> K!MoneyIsAccountedFor
  /\ E!Vault!VaultInit <=> K!Vault!VaultInit
  /\ (E!Vault!VaultNext \/ UNCHANGED E!Vault!vaultVars)
       <=> (K!Vault!VaultNext \/ UNCHANGED K!Vault!vaultVars)
BY DEF E!TradeIds, K!TradeIds, E!Accounts, K!Accounts, E!TradeStatus, K!TradeStatus,
       E!TradeOffer, K!TradeOffer, E!SubEscrow, K!SubEscrow, E!config, K!config,
       E!escrows, K!escrows, E!events, K!events, E!vars, K!vars,
       E!Active, K!Active, E!Exists, K!Exists, E!SumFills, K!SumFills,
       E!CanPay, K!CanPay, E!Transferred, K!Transferred, E!Init, K!Init,
       E!Tick, K!Tick, E!Initialize, K!Initialize, E!Pause, K!Pause,
       E!Unpause, K!Unpause, E!AddAllowedToken, K!AddAllowedToken, E!RemoveAllowedToken, K!RemoveAllowedToken,
       E!AddCategory, K!AddCategory, E!RemoveCategory, K!RemoveCategory, E!TransferAdmin, K!TransferAdmin,
       E!NewTrade, K!NewTrade, E!CreateListing, K!CreateListing, E!HasActiveFill, K!HasActiveFill,
       E!AfterDeposit, K!AfterDeposit, E!DepositToEscrow, K!DepositToEscrow, E!PaySeller, K!PaySeller,
       E!ReleasePayment, K!ReleasePayment, E!ReleaseByTimelock, K!ReleaseByTimelock, E!RefundableStatuses, K!RefundableStatuses,
       E!Refundable, K!Refundable, E!Refunds, K!Refunds, E!MayRefund, K!MayRefund,
       E!Owed, K!Owed, E!AfterRefund, K!AfterRefund, E!CancelAndRefund, K!CancelAndRefund,
       E!CloseExpiredListing, K!CloseExpiredListing, E!FlagDispute, K!FlagDispute, E!EmergencyWithdraw, K!EmergencyWithdraw,
       E!AdminCall, K!AdminCall, E!TradeCall, K!TradeCall, E!Next, K!Next,
       E!TypeOK, K!TypeOK, E!ActiveFills, K!ActiveFills, E!KeptFills, K!KeptFills,
       E!FilledIsSumOfKeptFills, K!FilledIsSumOfKeptFills, E!StatusMatchesFills, K!StatusMatchesFills, E!NoStrandedFills, K!NoStrandedFills,
       E!OneActiveFillPerBuyer, K!OneActiveFillPerBuyer, E!IdsAreFresh, K!IdsAreFresh, E!IInv, K!IInv,
       E!SumListings, K!SumListings, E!Solvent, K!Solvent, E!PartiesMadeWhole, K!PartiesMadeWhole,
       E!MoneyIsAccountedFor, K!MoneyIsAccountedFor, E!RefundsWaitForExpiry, K!RefundsWaitForExpiry, E!FillsEventuallySettle, K!FillsEventuallySettle,
       E!TimelockReleaseIsUndisputed, K!TimelockReleaseIsUndisputed, E!PlaceOf, K!PlaceOf, E!Over, K!Over,
       E!Vault!vaultVars, K!Vault!vaultVars, E!Vault!Place, K!Vault!Place, E!Vault!HoldsNone, K!Vault!HoldsNone,
       E!Vault!VaultInit, K!Vault!VaultInit, E!Vault!Deposit, K!Vault!Deposit, E!Vault!Settle, K!Vault!Settle,
       E!Vault!VaultNext, K!Vault!VaultNext, E!PartialSums, K!PartialSums, E!SumUpTo, K!SumUpTo

\* What it assumes of its parameters, MCContracts' assumption gives.
LEMMA EscrowAssumed ==
  /\ EscrowAdmins \subseteq EscrowUsers
  /\ EscrowSellers \subseteq EscrowUsers
  /\ EscrowRecipients \subseteq EscrowUsers
  /\ Contract \notin EscrowUsers
  /\ NoOne \notin EscrowUsers
  /\ DefaultCategories \subseteq Categories
  /\ EscrowAmounts \subseteq Int
  /\ EscrowEndowment \in Nat
  /\ MaxTrades \in Nat
  /\ MaxFills \in Nat
  /\ EscrowHorizon \in Nat
  /\ PauseCooldown \in Nat
  /\ DisputeWindow \in Nat
  /\ EscrowTimelock \in Nat
  /\ MaxExpiry \in Nat
  /\ NoListing \notin K!TradeOffer
<1>1. E!TradeOffer = K!TradeOffer
  BY DEF E!TradeOffer, K!TradeOffer, E!TradeStatus, K!TradeStatus
<1>2. QED
  BY <1>1, EscrowAssumption DEF EscrowAssumption

MarketKept == focus = "market" => IInv /\ MoneyInv
EscrowKept == focus = "escrow" => K!Kept
ContractsKept == focus \in {"market", "escrow"} /\ MarketKept /\ EscrowKept

LEMMA ContractsStart == ContractsInit => ContractsKept /\ Vault!VaultInit /\ E!Vault!VaultInit
<1> SUFFICES ASSUME ContractsInit
             PROVE  ContractsKept /\ Vault!VaultInit /\ E!Vault!VaultInit
  OBVIOUS
<1>1. focus \in {"market", "escrow"} /\ Init /\ K!Init
  BY SameEscrow DEF ContractsInit
<1>2. IInv /\ MoneyInv /\ Vault!VaultInit
  BY <1>1, InitIInv, MoneyInit, VaultStart
<1>3. K!Kept /\ K!Vault!VaultInit
  BY <1>1, EscrowAssumed, K!KeptInit, K!VaultStart
<1>4. QED
  BY <1>1, <1>2, <1>3, SameEscrow DEF ContractsKept, MarketKept, EscrowKept

\* The market's calls, or none of them.
LEMMA MarketStep ==
  ASSUME ContractsKept, [ContractsNext]_<<focus, vars, escrow>>
  PROVE  /\ MarketKept'
         /\ [Vault!VaultNext \/ UNCHANGED Vault!vaultVars]_vars
<1>1. CASE focus = "market" /\ focus' = focus /\ [Next /\ (admin = NoOne => UNCHANGED listings)]_vars
  <2>1. IInv /\ MoneyInv
    BY <1>1 DEF ContractsKept, MarketKept
  <2>2. IInv'
    BY <1>1, <2>1, NextIInv
  <2>3. MoneyInv'
    BY <1>1, <2>1, <2>2, MoneyNext
  <2>4. Vault!VaultNext \/ UNCHANGED Vault!vaultVars
    BY <1>1, <2>1, <2>2, VaultStep
  <2>5. QED
    BY <2>2, <2>3, <2>4 DEF MarketKept
<1>2. CASE focus # "market" /\ focus' = focus /\ UNCHANGED vars
  BY <1>2 DEF MarketKept
<1>3. QED
  BY <1>1, <1>2 DEF ContractsNext, ContractsKept

LEMMA EscrowStep ==
  ASSUME ContractsKept, [ContractsNext]_<<focus, vars, escrow>>
  PROVE  /\ EscrowKept'
         /\ [E!Vault!VaultNext \/ UNCHANGED E!Vault!vaultVars]_escrow
<1>1. CASE focus = "escrow" /\ focus' = focus /\ [K!Next]_K!vars
  <2>1. K!Kept
    BY <1>1 DEF ContractsKept, EscrowKept
  <2>2. K!Kept'
    BY <1>1, <2>1, EscrowAssumed, K!KeptNext
  <2>3. K!Vault!VaultNext \/ UNCHANGED K!Vault!vaultVars
    BY <1>1, <2>1, <2>2, EscrowAssumed, K!KeptVault
  <2>4. QED
    BY <2>2, <2>3, SameEscrow DEF EscrowKept
<1>2. CASE focus # "escrow" /\ focus' = focus /\ UNCHANGED escrow
  BY <1>2 DEF EscrowKept
<1>3. UNCHANGED escrow => UNCHANGED K!vars
  BY DEF escrow, K!vars, K!config, K!escrows, K!events
<1>4. CASE UNCHANGED <<focus, vars, escrow>>
  BY <1>1, <1>2, <1>3, <1>4 DEF ContractsKept
<1>5. CASE ContractsNext
  BY <1>1, <1>2, <1>5, SameEscrow DEF ContractsNext, ContractsKept
<1>6. QED
  BY <1>4, <1>5

LEMMA ContractsStep ==
  ContractsKept /\ [ContractsNext]_<<focus, vars, escrow>> => ContractsKept'
<1> SUFFICES ASSUME ContractsKept, [ContractsNext]_<<focus, vars, escrow>>
             PROVE  ContractsKept'
  OBVIOUS
<1>1. focus' = focus
  BY DEF ContractsNext
<1>2. QED
  BY <1>1, MarketStep, EscrowStep DEF ContractsKept

\* For each token a contract holds exactly what its unsettled sales are owed, less what
\* emergency_withdraw took out, and each party has what its listings and sub-escrows say.
THEOREM ContractsAccountForMoney == ContractsSpec => []MoneyIsAccountedFor
<1>1. ContractsKept => MoneyIsAccountedFor
  <2> SUFFICES ASSUME ContractsKept PROVE MoneyIsAccountedFor
    OBVIOUS
  <2>1. focus = "market" => Solvent /\ PartiesMadeWhole
    BY MoneyInvIsSolvent DEF ContractsKept, MarketKept
  <2>2. focus = "escrow" => E!MoneyIsAccountedFor
    BY SameEscrow, EscrowAssumed, K!KeptIsSafe DEF ContractsKept, EscrowKept
  <2>3. QED
    BY <2>1, <2>2 DEF MoneyIsAccountedFor
<1>2. QED
  BY <1>1, ContractsStart, ContractsStep, PTL DEF ContractsSpec

\* Every deposit, in either contract, is settled once and with one side, and a listing that is
\* over holds nothing and takes no deposit: each contract implements EscrowVault.
THEOREM ContractsImplementVault == ContractsSpec => BothImplementVault
<1>1. ContractsInit => Vault!VaultInit /\ E!Vault!VaultInit
  BY ContractsStart
<1>2. ContractsKept /\ [ContractsNext]_<<focus, vars, escrow>>
        => [Vault!VaultNext \/ UNCHANGED Vault!vaultVars]_vars
  BY MarketStep
<1>3. ContractsKept /\ [ContractsNext]_<<focus, vars, escrow>>
        => [E!Vault!VaultNext \/ UNCHANGED E!Vault!vaultVars]_escrow
  BY EscrowStep
<1>4. QED
  BY <1>1, <1>2, <1>3, ContractsStart, ContractsStep, PTL DEF ContractsSpec, BothImplementVault

=============================================================================
