--------------------------------- MODULE Ledger ---------------------------------
(***************************************************************************)
(* The ledger of a settlement, row by row, and what is read from it:       *)
(*   server/src/services/tradeVerification.ts  the settlement transaction  *)
(*   server/src/services/wallet.ts             WalletService               *)
(*   server/src/services/referrals.ts, routes/referrals.ts, routes/auth.ts *)
(*   server/src/services/dataExport.ts         buildUserDataExport         *)
(*                                                                         *)
(* Settlements run at the same time.  What one writes is seen when it      *)
(* commits; the rows it updates are locked until then, and an update that  *)
(* meets a locked row waits, then looks at the row again.  Trade has what  *)
(* leads to a settlement and what follows a failed one; here a run starts  *)
(* when the contract has answered that the payment is released.            *)
(*                                                                         *)
(* Left out: withdrawals and deposits, which have other rows; sections of  *)
(* an export about one row; names, masks and formats.                      *)
(* Name_Variant is Name with a plausible mistake in it, as in Escrow.      *)
(***************************************************************************)
EXTENDS Naturals, FiniteSets, FiniteSetsExt

CONSTANTS
  Users,
  Treasury,     \* PLATFORM_TREASURY_USER_ID
  NoOne,        \* no row in `referrals`
  Trades,
  BuyerOf, SellerOf, AmountOf,   \* by trade, AmountOf in kobo
  Runs,         \* bound: runVerificationWithRetry past the release
  TradeOf,      \* by run
  FeeRate,      \* PLATFORM_FEE_PERCENT, in hundredths of a percent
  Reward,       \* REFERRAL_REWARD_NGN, in kobo
  Readers,      \* bound: users that export their data
  MaxFaults     \* bound: statements that fail, restarts

Parameters ==
  /\ BuyerOf \in [Trades -> Users] /\ SellerOf \in [Trades -> Users]
  /\ \A t \in Trades : BuyerOf[t] # SellerOf[t]
  /\ TradeOf \in [Runs -> Trades]
  /\ NoOne \notin Users
  /\ IsFiniteSet(Users)
  /\ Readers \subseteq Users
  /\ AmountOf \in [Trades -> Nat]
  /\ FeeRate \in 0..10000      \* with another the ledger's CHECK (amount >= 0) takes no settlement
  /\ Reward \in Nat
  /\ MaxFaults \in Nat

\* A row of `transactions` by the statement that inserted it: the run, and the user whose
\* part of the trade it is about.
Kinds == {"debit", "trade_settlement", "platform_fee", "referral_reward"}
Entry == [by : Runs, kind : Kinds, about : Users, user : Users \cup {Treasury}, amount : Nat]

VARIABLES
  offers,      \* trade_offers: status, and whether fee_amount is set
  ledger,      \* transactions
  referrals,   \* by referred user: the referrer, and whether rewarded_at is set
  tx,          \* of each run: its step, and what its transaction has written
  report,      \* an export under way: its reader, its snapshot, the sections it has read
  faults

tables == <<offers, ledger, referrals>>
vars   == <<tables, tx, report, faults>>

NoWrites == [step |-> "released", entries |-> {}, rewarded |-> {}]

\* What a transaction sees when it starts.
Tables == [offers |-> offers, ledger |-> ledger, referrals |-> referrals]
NoReport == [step |-> "none"]

Init ==
  /\ offers = [t \in Trades |-> [status |-> "Locked", charged |-> FALSE]]
  /\ ledger = {}
  /\ referrals = [u \in Users |-> [referrer |-> NoOne, rewarded |-> FALSE]]
  /\ tx = [r \in Runs |-> NoWrites]
  /\ report = NoReport
  /\ faults = 0

Fault == faults < MaxFaults /\ faults' = faults + 1        \* bound

InTransaction(r) == tx[r].step \in {"posted", "buyer done", "seller done"}
Holds(r, t) == InTransaction(r) /\ TradeOf[r] = t

-----------------------------------------------------------------------------
(* POST /request-otp with a referral code, before or after the user's trades. *)

Refer(u, v) ==
  /\ u # v
  /\ referrals[v].referrer = NoOne
  /\ referrals' = [referrals EXCEPT ![v].referrer = u]
  /\ UNCHANGED <<offers, ledger, tx, report, faults>>

-----------------------------------------------------------------------------
(* The settlement.                                                         *)

\* calculatePlatformFee: the percentage, rounded to a kobo.
Fee(amount) == (amount * FeeRate + 5000) \div 10000

DebitEntry(r) ==
  LET t == TradeOf[r]
  IN  [by |-> r, kind |-> "debit", about |-> BuyerOf[t], user |-> BuyerOf[t],
       amount |-> AmountOf[t]]

CreditEntry(r, kind, about, user, amount) ==
  [by |-> r, kind |-> kind, about |-> about, user |-> user, amount |-> amount]

Posted(r) ==
  LET t   == TradeOf[r]
      fee == Fee(AmountOf[t])
  IN  {DebitEntry(r),
       CreditEntry(r, "trade_settlement", SellerOf[t], SellerOf[t], AmountOf[t] - fee),
       CreditEntry(r, "platform_fee", SellerOf[t], Treasury, fee)}

\* SELECT ... FOR UPDATE of the trade if it is Locked, the debit and the two credits, and
\* the update of the trade.  A trade that is no longer Locked is not settled.
Settle_Unlocked(r) ==
  /\ tx[r].step = "released"
  /\ IF offers[TradeOf[r]].status = "Locked"
     THEN tx' = [tx EXCEPT ![r] = [step |-> "posted", entries |-> Posted(r), rewarded |-> {}]]
     ELSE tx' = [tx EXCEPT ![r].step = "ended"]
  /\ UNCHANGED <<tables, report, faults>>

Settle(r) ==
  /\ tx[r].step = "released"
  /\ \A q \in Runs : ~Holds(q, TradeOf[r])
  /\ IF offers[TradeOf[r]].status = "Locked"
     THEN tx' = [tx EXCEPT ![r] = [step |-> "posted", entries |-> Posted(r), rewarded |-> {}]]
     ELSE tx' = [tx EXCEPT ![r].step = "ended"]
  /\ UNCHANGED <<tables, report, faults>>

\* Whose referral the run looks at next.
Wants(r) == IF tx[r].step = "posted" THEN BuyerOf[TradeOf[r]] ELSE SellerOf[TradeOf[r]]

\* UPDATE ... WHERE referred_id = $1 AND rewarded_at IS NULL finds a row.
Due_Again(u) == referrals[u].referrer # NoOne

Due(u) == referrals[u].referrer # NoOne /\ ~referrals[u].rewarded

\* creditReferralReward, for the buyer and then for the seller.
CreditReferralReward(r) ==
  LET u == Wants(r)
  IN  /\ tx[r].step \in {"posted", "buyer done"}
      /\ \A q \in Runs : u \notin tx[q].rewarded
      /\ tx' = [tx EXCEPT ![r] =
           [step     |-> IF @.step = "posted" THEN "buyer done" ELSE "seller done",
            rewarded |-> @.rewarded \cup (IF Due(u) THEN {u} ELSE {}),
            entries  |-> @.entries \cup
                         (IF Due(u) THEN {CreditEntry(r, "referral_reward", u,
                                                      referrals[u].referrer, Reward)}
                          ELSE {})]]
      /\ UNCHANGED <<tables, report, faults>>

Ended(r, step) == tx' = [tx EXCEPT ![r] = [NoWrites EXCEPT !.step = step]]

Commit(r) ==
  /\ tx[r].step = "seller done"
  /\ offers' = [offers EXCEPT ![TradeOf[r]] = [status |-> "Completed", charged |-> TRUE]]
  /\ ledger' = ledger \cup tx[r].entries
  /\ referrals' = [u \in Users |-> [referrals[u] EXCEPT !.rewarded = @ \/ u \in tx[r].rewarded]]
  /\ Ended(r, "ended")
  /\ UNCHANGED <<report, faults>>

\* A statement or the COMMIT fails, and everything is rolled back.
SettlementFails(r) ==
  /\ InTransaction(r)
  /\ Fault
  /\ Ended(r, "escalating")
  /\ UNCHANGED <<tables, report>>

\* Two settlements that cross: each has locked the referral that the other wants.  The
\* database ends one of them.
WaitsFor(r, q) == tx[r].step \in {"posted", "buyer done"} /\ Wants(r) \in tx[q].rewarded

EndDeadlock(r) ==
  /\ \E S \in SUBSET Runs : r \in S /\ \A q \in S : \E p \in S \ {q} : WaitsFor(q, p)
  /\ Ended(r, "escalating")
  /\ UNCHANGED <<tables, report, faults>>

\* The attempts that are left find the listing released, which is no success; the last of
\* them makes the trade Disputed if it is still Locked.
Escalate(r) ==
  /\ tx[r].step = "escalating"
  /\ \A q \in Runs : ~Holds(q, TradeOf[r])
  /\ offers' = [offers EXCEPT ![TradeOf[r]].status = IF @ = "Locked" THEN "Disputed" ELSE @]
  /\ Ended(r, "ended")
  /\ UNCHANGED <<ledger, referrals, report, faults>>

\* POST /trades/:id/dispute, and an admin's POST /trades/:id/resolve, which writes no ledger.
ChangeStatus(t, status) ==
  /\ \A q \in Runs : ~Holds(q, t)
  /\ \/ offers[t].status = "Locked" /\ status = "Disputed"
     \/ offers[t].status = "Disputed" /\ status \in {"Completed", "Cancelled"}
  /\ offers' = [offers EXCEPT ![t].status = status]
  /\ UNCHANGED <<ledger, referrals, tx, report, faults>>

\* A restart ends every run; their transactions are rolled back.
Restart ==
  /\ Fault
  /\ tx' = [r \in Runs |-> [NoWrites EXCEPT !.step = "ended"]]
  /\ UNCHANGED <<tables, report>>

-----------------------------------------------------------------------------
(* What is read.                                                           *)

\* BEGIN ISOLATION LEVEL REPEATABLE READ READ ONLY.
StartReport(u) ==
  /\ report.step = "none"
  /\ report' = [step |-> "begun", reader |-> u, snapshot |-> Tables]
  /\ UNCHANGED <<tables, tx, faults>>

\* What the statements of an export see: the snapshot, not the tables as they are.
Seen_Current == Tables

Seen == report.snapshot

\* SELECT ... FROM trade_offers WHERE seller_id = $1 OR buyer_id = $1.
ReadTrades ==
  /\ report.step = "begun"
  /\ report' = [step |-> "trades read", reader |-> report.reader, snapshot |-> report.snapshot,
                trades |-> [t \in {x \in Trades : report.reader \in {BuyerOf[x], SellerOf[x]}} |->
                              Seen.offers[t]]]
  /\ UNCHANGED <<tables, tx, faults>>

\* SELECT ... FROM referrals WHERE referrer_id = $1.
ReadReferrals ==
  /\ report.step = "trades read"
  /\ report' = [step |-> "referrals read", reader |-> report.reader,
                snapshot |-> report.snapshot, trades |-> report.trades,
                rewarded |-> {v \in Users : Seen.referrals[v].referrer = report.reader
                                            /\ Seen.referrals[v].rewarded}]
  /\ UNCHANGED <<tables, tx, faults>>

\* WalletService.exportHistory, and COMMIT.
ExportHistory ==
  /\ report.step = "referrals read"
  /\ report' = [step |-> "done", reader |-> report.reader, trades |-> report.trades,
                rewarded |-> report.rewarded,
                transactions |-> {e \in Seen.ledger : e.user = report.reader}]
  /\ UNCHANGED <<tables, tx, faults>>

\* getReferralStats: one statement over `referrals`, and the reward as it is configured.
ReferralStats(u) ==
  LET referred == {v \in Users : referrals[v].referrer = u}
      verified == {v \in referred : referrals[v].rewarded}
  IN  [totalReferrals |-> Cardinality(referred), verifiedReferrals |-> Cardinality(verified),
       totalRewardsCredited |-> Cardinality(verified) * Reward]

-----------------------------------------------------------------------------
Settlement(r) ==
  Settle(r) \/ CreditReferralReward(r) \/ Commit(r) \/ SettlementFails(r) \/ EndDeadlock(r)
  \/ Escalate(r)

Export == (\E u \in Readers : StartReport(u)) \/ ReadTrades \/ ReadReferrals \/ ExportHistory

Next ==
  \/ \E u, v \in Users : Refer(u, v)
  \/ \E r \in Runs : Settlement(r)
  \/ \E t \in Trades, s \in {"Disputed", "Completed", "Cancelled"} : ChangeStatus(t, s)
  \/ Restart
  \/ Export

Spec == Init /\ [][Next]_vars

-----------------------------------------------------------------------------
(* Properties.                                                             *)

TypeOK ==
  /\ offers \in [Trades -> [status : {"Locked", "Completed", "Disputed", "Cancelled"},
                            charged : BOOLEAN]]
  /\ ledger \subseteq Entry
  /\ referrals \in [Users -> [referrer : Users \cup {NoOne}, rewarded : BOOLEAN]]
  /\ \A r \in Runs : tx[r].entries \subseteq Entry /\ tx[r].rewarded \subseteq Users
  /\ faults \in 0..MaxFaults

Total(S) == MapThenSumSet(LAMBDA e : e.amount, S)
OfKind(S, k) == {e \in S : e.kind = k}
SettlementsOf(t) == {e \in ledger : TradeOf[e.by] = t /\ e.kind # "referral_reward"}

\* A trade with a fee has exactly one settlement in the ledger, one without has none; what
\* the buyer is charged is what the seller and the platform get, and a user's referrer is
\* paid once, by a settlement of a trade of that user, if the referral says so.
SettlementsAreWhole ==
  /\ \A t \in Trades :
       LET S == SettlementsOf(t)
       IN  /\ offers[t].charged <=> S # {}
           /\ offers[t].charged => offers[t].status = "Completed"
           /\ Cardinality({e.by : e \in S}) <= 1
           /\ Total(OfKind(S, "debit")) = Total(S \ OfKind(S, "debit"))
  /\ \A u \in Users :
       LET paid == {e \in OfKind(ledger, "referral_reward") : e.about = u}
       IN  /\ Cardinality(paid) = IF referrals[u].rewarded THEN 1 ELSE 0
           /\ \A e \in paid : /\ e.user = referrals[u].referrer
                              /\ u \in {BuyerOf[TradeOf[e.by]], SellerOf[TradeOf[e.by]]}
                              /\ offers[TradeOf[e.by]].charged

\* What a user's rewards page adds up is what the ledger has credited.
StatsMatchLedger ==
  \A u \in Users :
    ReferralStats(u).totalRewardsCredited =
      Total({e \in OfKind(ledger, "referral_reward") : e.user = u})

\* An export shows a fee on a trade if and only if it shows the user's row for it, and as
\* many rewards as it shows rewarded referrals, whatever settles while it is put together.
ExportsAreSnapshots ==
  report.step = "done" =>
    /\ \A t \in DOMAIN report.trades :
         report.trades[t].charged
           <=> \E e \in report.transactions :
                 TradeOf[e.by] = t /\ e.kind \in {"debit", "trade_settlement"}
    /\ Cardinality(OfKind(report.transactions, "referral_reward")) = Cardinality(report.rewarded)

-----------------------------------------------------------------------------
(* The inductive invariant.                                                *)

Steps == {"released", "posted", "buyer done", "seller done", "escalating", "ended"}
TxRow == [step : Steps, entries : SUBSET Entry, rewarded : SUBSET Users]

TypedTables(T) ==
  /\ T.offers \in [Trades -> [status : {"Locked", "Completed", "Disputed", "Cancelled"},
                              charged : BOOLEAN]]
  /\ T.ledger \subseteq Entry
  /\ T.referrals \in [Users -> [referrer : Users \cup {NoOne}, rewarded : BOOLEAN]]

Parties(t) == {BuyerOf[t], SellerOf[t]}

\* The rows of T about a trade, those about the referral of a user, and those of a referrer.
TradeRows(T, t)  == {e \in T.ledger : TradeOf[e.by] = t /\ e.kind # "referral_reward"}
RewardRows(T, u) == {e \in T.ledger : e.kind = "referral_reward" /\ e.about = u}
RewardsTo(T, u)  == {e \in T.ledger : e.kind = "referral_reward" /\ e.user = u}
RewardedOf(T, u) == {v \in Users : T.referrals[v].referrer = u /\ T.referrals[v].rewarded}
RewardRow(T, r, u) == CreditEntry(r, "referral_reward", u, T.referrals[u].referrer, Reward)

\* A trade with a fee has the three rows of one run, and a rewarded referral one row.
WholeTables(T) ==
  /\ \A t \in Trades :
       IF T.offers[t].charged
       THEN /\ T.offers[t].status = "Completed"
            /\ \E r \in Runs : TradeOf[r] = t /\ TradeRows(T, t) = Posted(r)
       ELSE TradeRows(T, t) = {}
  /\ \A u \in Users :
       IF T.referrals[u].rewarded
       THEN /\ T.referrals[u].referrer \in Users
            /\ \E r \in Runs : /\ u \in Parties(TradeOf[r])
                               /\ T.offers[TradeOf[r]].charged
                               /\ RewardRows(T, u) = {RewardRow(T, r, u)}
       ELSE RewardRows(T, u) = {}

\* Whose referrals a transaction may have rewarded by now.
Visited(r) ==
  CASE tx[r].step = "posted"     -> {}
    [] tx[r].step = "buyer done" -> {BuyerOf[TradeOf[r]]}
    [] OTHER                     -> Parties(TradeOf[r])

\* A transaction has its trade locked and its referrals to itself, and has written what it will
\* commit; without one, a run has written nothing.
TransactionIsWhole(r) ==
  IF InTransaction(r)
  THEN /\ offers[TradeOf[r]] = [status |-> "Locked", charged |-> FALSE]
       /\ tx[r].rewarded \subseteq Visited(r)
       /\ \A u \in tx[r].rewarded : Due(u)
       /\ tx[r].entries = Posted(r) \cup {RewardRow(Tables, r, u) : u \in tx[r].rewarded}
  ELSE tx[r].entries = {} /\ tx[r].rewarded = {}

TransactionsAreWhole ==
  /\ \A r \in Runs : TransactionIsWhole(r)
  /\ \A q, r \in Runs :
       q # r /\ InTransaction(q) /\ InTransaction(r)
         => TradeOf[q] # TradeOf[r] /\ tx[q].rewarded \cap tx[r].rewarded = {}

\* An export is read from tables that were whole.
ReportIsOfSnapshot ==
  /\ report.step \in {"none", "begun", "trades read", "referrals read", "done"}
  /\ report.step \in {"begun", "trades read", "referrals read"} =>
       /\ report.reader \in Users
       /\ TypedTables(report.snapshot) /\ WholeTables(report.snapshot)
  /\ report.step \in {"trades read", "referrals read"} =>
       report.trades = [t \in {x \in Trades : report.reader \in Parties(x)} |->
                          report.snapshot.offers[t]]
  /\ report.step = "referrals read" =>
       report.rewarded = {v \in Users : report.snapshot.referrals[v].referrer = report.reader
                                        /\ report.snapshot.referrals[v].rewarded}

IInv ==
  /\ TypedTables(Tables)
  /\ tx \in [Runs -> TxRow]
  /\ faults \in 0..MaxFaults
  /\ WholeTables(Tables)
  /\ TransactionsAreWhole
  /\ ReportIsOfSnapshot
  /\ ExportsAreSnapshots

=============================================================================
