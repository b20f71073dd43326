------------------------------- MODULE Escrow -------------------------------
(***************************************************************************)
(* The Soroban escrow contract, contracts/escrow/src/lib.rs.               *)
(*                                                                         *)
(* A seller lists an amount of a token; buyers fill the listing, each with *)
(* a sub-escrow of their own; the admin (or, after the dispute window, the *)
(* seller) releases sub-escrows to the seller; the admin, or a buyer after *)
(* the expiry, cancels and refunds them.                                   *)
(*                                                                         *)
(* One action is one successful contract call.  A call that returns an     *)
(* Err or traps is rolled back by the ledger and is no step here: every    *)
(* `return Err` is a negated conjunct of the action's guard.  `caller`,    *)
(* `buyer` and `seller` have passed require_auth; actions that only the    *)
(* admin may call take no caller.                                          *)
(*                                                                         *)
(* A definition Name_Variant is Name with a plausible mistake in it; no    *)
(* specification uses one.  The runs' properties are known to have teeth   *)
(* because each fails when such a variant takes the place of Name.         *)
(***************************************************************************)
EXTENDS Sums, Sequences, FiniteSets

CONSTANTS
  Users,              \* addresses of people: admins, sellers, buyers
  Contract,           \* the contract's own address
  NoAdmin,            \* the absent Admin entry, before initialize
  NoTrade,            \* an absent Trade(id) entry
  Tokens,             \* token contracts
  Categories,         \* asset category symbols
  DefaultCategories,  \* those initialize seeds
  Admins,             \* addresses that initialize or are handed the admin role
  Sellers,            \* addresses that list
  Recipients,         \* addresses an emergency withdrawal pays
  Amounts,            \* the i128 arguments of calls
  Endowment,          \* what every user holds of every token at the start
  MaxTrades,          \* bound: listings created
  MaxFills,           \* bound: deposits per listing
  Horizon,            \* bound: last ledger time
  PauseCooldown,      \* PAUSE_COOLDOWN_SECONDS
  DisputeWindow,      \* DISPUTE_WINDOW_SECS
  EmergencyTimelock,  \* EMERGENCY_TIMELOCK_SECS
  MaxExpiry           \* MAX_EXPIRY_SECS

ASSUME RoleAssumption ==
  /\ Admins \subseteq Users
  /\ Sellers \subseteq Users
  /\ Recipients \subseteq Users
  /\ Contract \notin Users
  /\ NoAdmin \notin Users
  /\ DefaultCategories \subseteq Categories

ASSUME NumberAssumption ==
  /\ Amounts \subseteq Int
  /\ Endowment \in Nat
  /\ MaxTrades \in Nat
  /\ MaxFills \in Nat
  /\ Horizon \in Nat
  /\ PauseCooldown \in Nat
  /\ DisputeWindow \in Nat
  /\ EmergencyTimelock \in Nat
  /\ MaxExpiry \in Nat

TradeIds == 1..MaxTrades
Accounts == Users \cup {Contract}

TradeStatus ==
  {"Open", "PartiallyFilled", "Locked", "Completed", "Disputed", "Cancelled"}

TradeOffer ==
  [seller        : Users,
   token         : Tokens,
   total_amount  : Nat \ {0},
   filled_amount : Int,
   asset_type    : Categories,
   status        : TradeStatus,
   expires_at    : Nat]

SubEscrow ==
  [buyer : Users, amount : Nat \ {0}, released : BOOLEAN, refunded : BOOLEAN]

ASSUME NoTradeAssumption == NoTrade \notin TradeOffer

VARIABLES
  now,                \* ledger timestamp
  admin,              \* DataKey::Admin
  paused,             \* DataKey::Paused
  pausedAt,           \* DataKey::PausedAt, 0 when absent
  allowedTokens,      \* DataKey::AllowedToken
  allowedCategories,  \* DataKey::AllowedCategory
  tradeCounter,       \* DataKey::TradeCounter
  trades,             \* DataKey::Trade(id)
  fills,              \* DataKey::SubEscrow(id, fill); its length is TradeFillCounter(id)
  windowCloseAt,      \* DataKey::DisputeWindowCloseAt(id), 0 when absent
  balance,            \* the token contracts' balances
  disputed,           \* event log: trades with a `disputed` event
  recovered           \* event log: amounts of the `emergency_withdrawal` events, by token

config  == <<admin, paused, pausedAt, allowedTokens, allowedCategories>>
escrows == <<tradeCounter, trades, fills, windowCloseAt, balance>>
events  == <<disputed, recovered>>
vars    == <<now, config, escrows, events>>

-----------------------------------------------------------------------------
\* A sub-escrow that still holds its buyer's tokens.
Active(sub) == ~sub.released /\ ~sub.refunded

Exists(t) == trades[t] # NoTrade

\* What `for i in 1..=fill_count { total += sub.amount }` adds up over the
\* sub-escrows of t whose ids are in S.
SumFills(t, S) ==
  SumUpTo([i \in 1..Len(fills[t]) |-> IF i \in S THEN fills[t][i].amount ELSE 0],
          Len(fills[t]))

\* token::Client::transfer, which traps when the payer is short.
CanPay(token, from, amount) == balance[token][from] >= amount

Transferred(token, from, to, amount) ==
  [balance EXCEPT ![token][from] = @ - amount, ![token][to] = @ + amount]

-----------------------------------------------------------------------------
Init ==
  /\ now = 1
  /\ admin = NoAdmin
  /\ paused = FALSE
  /\ pausedAt = 0
  /\ allowedTokens = {}
  /\ allowedCategories = {}
  /\ tradeCounter = 0
  /\ trades = [t \in TradeIds |-> NoTrade]
  /\ fills = [t \in TradeIds |-> << >>]
  /\ windowCloseAt = [t \in TradeIds |-> 0]
  /\ balance = [k \in Tokens |-> [a \in Accounts |-> IF a = Contract THEN 0 ELSE Endowment]]
  /\ disputed = {}
  /\ recovered = [k \in Tokens |-> 0]

\* The ledger closes with a later timestamp.
Tick ==
  /\ now < Horizon
  /\ now' = now + 1
  /\ UNCHANGED <<config, escrows, events>>

Initialize(newAdmin, tokens) ==
  /\ admin = NoAdmin
  /\ admin' = newAdmin
  /\ paused' = FALSE
  /\ pausedAt' = 0
  /\ allowedTokens' = tokens
  /\ allowedCategories' = DefaultCategories
  /\ tradeCounter' = 0
  /\ UNCHANGED <<now, trades, fills, windowCloseAt, balance, events>>

-----------------------------------------------------------------------------
(* Admin calls; none of them looks at the pause flag.                      *)

\* Pausing a paused contract does not move the clock of the emergency timelock.
\* (now + PauseCooldown <= Horizon is a bound: it leaves room to unpause.)
Pause ==
  /\ admin # NoAdmin
  /\ now + PauseCooldown <= Horizon
  /\ paused' = TRUE
  /\ pausedAt' = IF paused THEN pausedAt ELSE now
  /\ UNCHANGED <<now, admin, allowedTokens, allowedCategories, escrows, events>>

Unpause ==
  /\ admin # NoAdmin
  /\ ~(pausedAt > 0 /\ now < pausedAt + PauseCooldown)
  /\ paused' = FALSE
  /\ pausedAt' = 0
  /\ UNCHANGED <<now, admin, allowedTokens, allowedCategories, escrows, events>>

AddAllowedToken(token) ==
  /\ admin # NoAdmin
  /\ allowedTokens' = allowedTokens \cup {token}
  /\ UNCHANGED <<now, admin, paused, pausedAt, allowedCategories, escrows, events>>

RemoveAllowedToken(token) ==
  /\ admin # NoAdmin
  /\ allowedTokens' = allowedTokens \ {token}
  /\ UNCHANGED <<now, admin, paused, pausedAt, allowedCategories, escrows, events>>

AddCategory(category) ==
  /\ admin # NoAdmin
  /\ allowedCategories' = allowedCategories \cup {category}
  /\ UNCHANGED <<now, admin, paused, pausedAt, allowedTokens, escrows, events>>

RemoveCategory(category) ==
  /\ admin # NoAdmin
  /\ allowedCategories' = allowedCategories \ {category}
  /\ UNCHANGED <<now, admin, paused, pausedAt, allowedTokens, escrows, events>>

TransferAdmin(newAdmin) ==
  /\ admin # NoAdmin
  /\ admin' = newAdmin
  /\ UNCHANGED <<now, paused, pausedAt, allowedTokens, allowedCategories, escrows, events>>

-----------------------------------------------------------------------------
\* The TradeOffer create_listing stores.
NewTrade(seller, token, amount, category, expires) ==
  [seller        |-> seller,
   token         |-> token,
   total_amount  |-> amount,
   filled_amount |-> 0,
   asset_type    |-> category,
   status        |-> "Open",
   expires_at    |-> expires]

CreateListing_AnyAmount(seller, token, amount, category, expires) ==
  /\ ~paused
  /\ token \in allowedTokens
  /\ category \in allowedCategories
  /\ expires > now
  /\ expires <= now + MaxExpiry
  /\ tradeCounter < MaxTrades
  /\ tradeCounter' = tradeCounter + 1
  /\ trades' = [trades EXCEPT ![tradeCounter + 1] =
                  NewTrade(seller, token, amount, category, expires)]
  /\ UNCHANGED <<now, config, fills, windowCloseAt, balance, events>>

CreateListing(seller, token, amount, category, expires) ==
  /\ ~paused
  /\ token \in allowedTokens
  /\ category \in allowedCategories
  /\ amount > 0
  /\ expires > now
  /\ expires <= now + MaxExpiry
  /\ tradeCounter < MaxTrades                              \* bound
  /\ tradeCounter' = tradeCounter + 1
  /\ trades' = [trades EXCEPT ![tradeCounter + 1] =
                  NewTrade(seller, token, amount, category, expires)]
  /\ UNCHANGED <<now, config, fills, windowCloseAt, balance, events>>

\* require_no_active_fill fails: the buyer already holds a place in t.
HasActiveFill_MissesLast(t, buyer) ==
  \E i \in 1..(Len(fills[t]) - 1) : fills[t][i].buyer = buyer /\ Active(fills[t][i])

HasActiveFill(t, buyer) ==
  \E i \in 1..Len(fills[t]) : fills[t][i].buyer = buyer /\ Active(fills[t][i])

\* The TradeOffer after a deposit of `amount`.
AfterDeposit_ThisFillOnly(trade, amount) ==
  [trade EXCEPT
     !.filled_amount = @ + amount,
     !.status = IF amount = trade.total_amount THEN "Locked" ELSE "PartiallyFilled"]

AfterDeposit(trade, amount) ==
  [trade EXCEPT
     !.filled_amount = @ + amount,
     !.status = IF trade.filled_amount + amount = trade.total_amount
                THEN "Locked" ELSE "PartiallyFilled"]

DepositToEscrow(buyer, t, amount) ==
  LET trade == trades[t]
  IN  /\ ~paused
      /\ Exists(t)
      /\ trade.status \in {"Open", "PartiallyFilled"}
      /\ now < trade.expires_at
      /\ buyer # trade.seller
      /\ buyer # admin
      /\ amount > 0
      /\ amount <= trade.total_amount - trade.filled_amount
      /\ ~HasActiveFill(t, buyer)
      /\ CanPay(trade.token, buyer, amount)
      /\ Len(fills[t]) < MaxFills                          \* bound
      /\ balance' = Transferred(trade.token, buyer, Contract, amount)
      /\ trades' = [trades EXCEPT ![t] = AfterDeposit(trade, amount)]
      /\ fills' = [fills EXCEPT ![t] = Append(@,
                     [buyer |-> buyer, amount |-> amount,
                      released |-> FALSE, refunded |-> FALSE])]
      /\ windowCloseAt' = [windowCloseAt EXCEPT ![t] = now + DisputeWindow]
      /\ UNCHANGED <<now, config, tradeCounter, events>>

-----------------------------------------------------------------------------
(* Release: the part release_payment and release_by_timelock share.        *)

\* Sub-escrow i of t is paid to the seller; a fully filled trade with no
\* active sub-escrow left is Completed.
PaySeller(t, i) ==
  LET trade == trades[t]
      sub   == fills[t][i]
  IN  /\ Exists(t)
      /\ trade.status \in {"Locked", "PartiallyFilled"}
      /\ i \in 1..Len(fills[t])
      /\ Active(sub)
      /\ CanPay(trade.token, Contract, sub.amount)
      /\ balance' = Transferred(trade.token, Contract, trade.seller, sub.amount)
      /\ fills' = [fills EXCEPT ![t] = [@ EXCEPT ![i] = [sub EXCEPT !.released = TRUE]]]
      /\ trades' = [trades EXCEPT ![t] = [trade EXCEPT
                      !.status = IF /\ trade.filled_amount = trade.total_amount
                                    /\ \A j \in 1..Len(fills[t]) \ {i} : ~Active(fills[t][j])
                                 THEN "Completed" ELSE @]]
      /\ UNCHANGED <<now, config, tradeCounter, windowCloseAt, events>>

ReleasePayment(t, i) ==
  /\ ~paused
  /\ admin # NoAdmin
  /\ PaySeller(t, i)

ReleaseByTimelock(caller, t, i) ==
  /\ ~paused
  /\ Exists(t)
  /\ caller \in {trades[t].seller, admin}
  /\ windowCloseAt[t] # 0
  /\ now >= windowCloseAt[t]
  /\ PaySeller(t, i)

-----------------------------------------------------------------------------
\* The statuses cancel_and_refund accepts.
RefundableStatuses_OnlyFull == {"Locked", "Disputed"}

RefundableStatuses == {"Locked", "Disputed", "PartiallyFilled"}

\* The sub-escrows of t that cancel_and_refund pays back when `caller` calls it:
\* every active one for the admin, the caller's own for anyone else.
Refundable_EvenReleased(caller, t, i) ==
  /\ ~fills[t][i].refunded
  /\ caller = admin \/ fills[t][i].buyer = caller

Refundable(caller, t, i) ==
  /\ Active(fills[t][i])
  /\ caller = admin \/ fills[t][i].buyer = caller

Refunds(caller, t) == {i \in 1..Len(fills[t]) : Refundable(caller, t, i)}

\* Only the admin may cancel a listing it has no fill in, or before its expiry.
MayRefund_AnyTime(caller, t) == caller # admin => Refunds(caller, t) # {}

MayRefund(caller, t) ==
  caller # admin => Refunds(caller, t) # {} /\ now >= trades[t].expires_at

\* What account u is paid: every sub-escrow goes back to its own buyer.
Owed_ToCaller(caller, t, u) ==
  IF u = caller THEN SumFills(t, Refunds(caller, t)) ELSE 0

Owed(caller, t, u) == SumFills(t, {i \in Refunds(caller, t) : fills[t][i].buyer = u})

\* The TradeOffer after `refund` has gone back to the buyers.
AfterRefund_FilledStays(caller, trade, refund) ==
  [trade EXCEPT !.status = IF caller = admin THEN "Cancelled" ELSE "PartiallyFilled"]

AfterRefund_Reopens(caller, trade, refund) ==
  [trade EXCEPT
     !.filled_amount = @ - refund,
     !.status = IF caller = admin THEN "Cancelled" ELSE "Open"]

AfterRefund(caller, trade, refund) ==
  LET remaining == trade.filled_amount - refund
  IN  [trade EXCEPT
         !.filled_amount = remaining,
         !.status = IF caller = admin THEN "Cancelled"
                    ELSE IF remaining = 0 THEN "Open"
                    ELSE IF remaining < trade.total_amount THEN "PartiallyFilled"
                    ELSE @]

CancelAndRefund(caller, t) ==
  LET trade   == trades[t]
      refunds == Refunds(caller, t)
      refund  == SumFills(t, refunds)
  IN  /\ ~paused
      /\ admin # NoAdmin
      /\ Exists(t)
      /\ trade.status \in RefundableStatuses
      /\ MayRefund(caller, t)
      /\ CanPay(trade.token, Contract, refund)
      /\ balance' = [balance EXCEPT ![trade.token] =
                       [a \in Accounts |-> IF a = Contract THEN @[a] - refund
                                           ELSE @[a] + Owed(caller, t, a)]]
      /\ fills' = [fills EXCEPT ![t] =
                     [i \in 1..Len(fills[t]) |->
                        IF i \in refunds THEN [fills[t][i] EXCEPT !.refunded = TRUE]
                                         ELSE fills[t][i]]]
      /\ trades' = [trades EXCEPT ![t] = AfterRefund(caller, trade, refund)]
      /\ UNCHANGED <<now, config, tradeCounter, windowCloseAt, events>>

\* Anyone, paused or not: an expired listing nobody holds funds in is removed.
CloseExpiredListing(t) ==
  /\ Exists(t)
  /\ trades[t].status = "Open"
  /\ now >= trades[t].expires_at
  /\ trades' = [trades EXCEPT ![t] = NoTrade]
  /\ UNCHANGED <<now, config, tradeCounter, fills, windowCloseAt, balance, events>>

FlagDispute(caller, t) ==
  /\ ~paused
  /\ Exists(t)
  /\ trades[t].status = "Locked"
  /\ \/ caller = trades[t].seller
     \/ \E i \in 1..Len(fills[t]) : fills[t][i].buyer = caller
  /\ trades' = [trades EXCEPT ![t] = [@ EXCEPT !.status = "Disputed"]]
  /\ disputed' = disputed \cup {t}
  /\ UNCHANGED <<now, config, tradeCounter, fills, windowCloseAt, balance, recovered>>

EmergencyWithdraw(token, recipient, amount) ==
  /\ admin # NoAdmin
  /\ paused
  /\ amount > 0
  /\ now >= pausedAt + EmergencyTimelock
  /\ CanPay(token, Contract, amount)
  /\ balance' = Transferred(token, Contract, recipient, amount)
  /\ recovered' = [recovered EXCEPT ![token] = @ + amount]
  /\ UNCHANGED <<now, config, tradeCounter, trades, fills, windowCloseAt, disputed>>

-----------------------------------------------------------------------------
AdminCall ==
  \/ \E a \in Admins, tokens \in SUBSET Tokens : Initialize(a, tokens)
  \/ Pause
  \/ Unpause
  \/ \E k \in Tokens : AddAllowedToken(k) \/ RemoveAllowedToken(k)
  \/ \E c \in Categories : AddCategory(c) \/ RemoveCategory(c)
  \/ \E a \in Admins : TransferAdmin(a)
  \/ \E k \in Tokens, u \in Recipients, x \in Amounts : EmergencyWithdraw(k, u, x)

TradeCall ==
  \/ \E u \in Sellers, k \in Tokens, x \in Amounts, c \in Categories, e \in 0..Horizon :
       CreateListing(u, k, x, c, e)
  \/ \E u \in Users, t \in TradeIds, x \in Amounts : DepositToEscrow(u, t, x)
  \/ \E u \in Users, t \in TradeIds, i \in 1..MaxFills : ReleaseByTimelock(u, t, i)
  \/ \E t \in TradeIds, i \in 1..MaxFills : ReleasePayment(t, i)
  \/ \E u \in Users, t \in TradeIds : CancelAndRefund(u, t)
  \/ \E t \in TradeIds : CloseExpiredListing(t)
  \/ \E u \in Users, t \in TradeIds : FlagDispute(u, t)

Next == Tick \/ AdminCall \/ TradeCall

Spec == Init /\ [][Next]_vars

\* Time passes, an admin that paused the contract resumes it, and a buyer whose
\* refund keeps coming within reach keeps asking for it.
Fairness ==
  /\ WF_vars(Tick)
  /\ WF_vars(Unpause)
  /\ \A u \in Users, t \in TradeIds : SF_vars(CancelAndRefund(u, t))

FairSpec == Spec /\ Fairness

-----------------------------------------------------------------------------
(* Properties.                                                             *)

\* The storage entries have the types the contract declares.
TypeOK ==
  /\ now \in Nat
  /\ admin \in Users \cup {NoAdmin}
  /\ paused \in BOOLEAN
  /\ pausedAt \in Nat
  /\ allowedTokens \subseteq Tokens
  /\ allowedCategories \subseteq Categories
  /\ tradeCounter \in 0..MaxTrades
  /\ trades \in [TradeIds -> TradeOffer \cup {NoTrade}]
  /\ fills \in [TradeIds -> Seq(SubEscrow)]
  /\ windowCloseAt \in [TradeIds -> Nat]
  /\ balance \in [Tokens -> [Accounts -> Int]]
  /\ disputed \subseteq TradeIds
  /\ recovered \in [Tokens -> Int]

\* The ids of t's sub-escrows that still hold tokens, and of those not refunded.
ActiveFills(t) == {i \in 1..Len(fills[t]) : Active(fills[t][i])}
KeptFills(t)   == {i \in 1..Len(fills[t]) : ~fills[t][i].refunded}

\* filled_amount, which deposits and refunds keep up incrementally and releases
\* leave alone, is what the sub-escrows that were not refunded add up to.
FilledIsSumOfKeptFills ==
  \A t \in TradeIds : Exists(t) =>
    trades[t].filled_amount = SumFills(t, KeptFills(t))

\* No listing is sold beyond its amount, and the status tells how full it is and
\* whether tokens are still held: each of the calls guarded by the status alone
\* relies on this.
StatusMatchesFills ==
  \A t \in TradeIds : Exists(t) =>
    LET trade == trades[t]
        full  == trade.filled_amount = trade.total_amount
    IN  /\ trade.filled_amount \in 0..trade.total_amount
        /\ trade.status = "Open" => trade.filled_amount = 0
        /\ trade.status = "PartiallyFilled" => trade.filled_amount > 0 /\ ~full
        /\ trade.status \in {"Locked", "Disputed"} => full /\ ActiveFills(t) # {}
        /\ trade.status = "Completed" => full /\ ActiveFills(t) = {}
        /\ trade.status = "Cancelled" => ActiveFills(t) = {}

\* Tokens are never stranded: a sub-escrow that still holds its buyer's tokens
\* belongs to a listing that exists and is in a status cancel_and_refund accepts.
NoStrandedFills ==
  \A t \in TradeIds : ActiveFills(t) # {} =>
    Exists(t) /\ trades[t].status \in {"PartiallyFilled", "Locked", "Disputed"}

\* At most one active sub-escrow per buyer and listing (issue #294).
OneActiveFillPerBuyer ==
  \A t \in TradeIds : \A i, j \in ActiveFills(t) :
    fills[t][i].buyer = fills[t][j].buyer => i = j

\* What the invariants above need besides to be inductive: ids are handed out in
\* order and start from nothing, and nothing is listed before initialize, which
\* resets the counter.
IdsAreFresh ==
  /\ admin = NoAdmin => allowedTokens = {} /\ tradeCounter = 0
  /\ \A t \in TradeIds : t > tradeCounter => ~Exists(t) /\ fills[t] = << >>

\* The inductive invariant of EscrowProofs.
IInv ==
  /\ TypeOK
  /\ IdsAreFresh
  /\ FilledIsSumOfKeptFills
  /\ StatusMatchesFills
  /\ NoStrandedFills

\* What the listings in `token` add up to, over the sub-escrows picked[t] of each t.
SumListings(token, picked) ==
  SumUpTo([t \in TradeIds |-> IF Exists(t) /\ trades[t].token = token
                              THEN SumFills(t, picked[t]) ELSE 0],
          MaxTrades)

\* Solvency: for each token the contract holds exactly what its active
\* sub-escrows are owed, less what emergency_withdraw took out.
Solvent ==
  \A k \in Tokens :
    LET held == [t \in TradeIds |-> ActiveFills(t)]
    IN  balance[k][Contract] = SumListings(k, held) - recovered[k]

\* Each party has what the sub-escrows say: a buyer is out what was kept of its
\* fills, a seller has gained what was released of its listings, and nobody who
\* receives no emergency withdrawal gains or loses anything else.
PartiesMadeWhole ==
  \A k \in Tokens, u \in Users \ Recipients :
    LET bought == [t \in TradeIds |-> {i \in KeptFills(t) : fills[t][i].buyer = u}]
        sold   == [t \in TradeIds |-> {i \in 1..Len(fills[t]) :
                                         Exists(t) /\ trades[t].seller = u /\ fills[t][i].released}]
    IN  balance[k][u] = Endowment - SumListings(k, bought) + SumListings(k, sold)

\* Both, as the runs check them.
MoneyIsAccountedFor == Solvent /\ PartiesMadeWhole

\* A refund before the listing's expiry is the admin's, and it cancels the
\* listing: a buyer cannot take its tokens back while the seller still delivers.
RefundsWaitForExpiry ==
  [][\A t \in TradeIds : \A i \in ActiveFills(t) :
       fills'[t][i].refunded => now >= trades[t].expires_at
                                \/ trades'[t].status = "Cancelled"]_vars

\* A buyer that keeps asking gets its tokens back or sees them paid to the
\* seller: no status, pause or other party's call blocks the refund for ever.
FillsEventuallySettle ==
  \A t \in TradeIds, i \in 1..MaxFills :
    (i \in ActiveFills(t)) ~> (i \notin ActiveFills(t))

\* "Releases escrowed funds to the seller after the dispute window has elapsed
\* without a dispute being flagged" (lib.rs:665): no sub-escrow of a listing on
\* which a dispute was flagged is released by the timelock.
TimelockReleaseIsUndisputed ==
  [][\A u \in Users, t \in TradeIds, i \in 1..MaxFills :
       ReleaseByTimelock(u, t, i) => t \notin disputed]_vars

-----------------------------------------------------------------------------
(* Escrow implements EscrowVault: the flags of a sub-escrow say where its  *)
(* deposit is, the Trade entry (or its removal) whether the listing is     *)
(* over.                                                                   *)

\* A sub-escrow with both flags set is in no place of the vault.
PlaceOf(sub) ==
  IF sub.released THEN IF sub.refunded THEN "both" ELSE "seller"
                  ELSE IF sub.refunded THEN "buyer" ELSE "held"

Over(t) ==
  IF Exists(t) THEN trades[t].status \in {"Completed", "Cancelled"}
               ELSE t <= tradeCounter

Vault == INSTANCE EscrowVault WITH
  Listings <- TradeIds,
  place    <- [t \in TradeIds |-> [i \in 1..Len(fills[t]) |-> PlaceOf(fills[t][i])]],
  closed   <- {t \in TradeIds : Over(t)}

\* Every deposit is settled once, with one side, and a listing that is over
\* holds nothing and takes no deposit: the calls of all the parties, in any
\* order, implement the vault.
ImplementsVault == Vault!VaultSpec

=============================================================================
