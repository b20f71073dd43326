--------------------------------- MODULE Trade ---------------------------------
(***************************************************************************)
(* The life of a trade in the server: the row in trade_offers, the escrow  *)
(* on chain, and the handlers and jobs that keep the two together.         *)
(*   server/src/routes/trades.ts             POST /trades, buy, dispute    *)
(*   server/src/services/tradeVerification.ts  release and settlement      *)
(*   server/src/routes/admin.ts              POST /trades/:id/resolve      *)
(*   server/src/routes/profile.ts            DELETE /profile               *)
(*   server/src/jobs/processors/refund-cancelled-trade.ts                  *)
(*   server/src/services/stellar.ts          transactions and their answers*)
(*                                                                         *)
(* One action is one database transaction or statement, one contract call  *)
(* or one queue operation; anything else may happen between two of them.   *)
(* The contract is modelled as stellar.ts calls it: an escrow is funded    *)
(* once and paid out once.  The answer to a call may be lost, before or    *)
(* after the transaction landed, or while it may still land.               *)
(*                                                                         *)
(* Left out: refused requests, which change nothing; amounts, fees and     *)
(* referral rewards, which go with the settlement; notifications; the      *)
(* pending_deletion flag of a user, which no trade looks at.               *)
(*                                                                         *)
(* Name_Variant is Name with a plausible mistake in it, as in Escrow.      *)
(***************************************************************************)
EXTENDS Naturals, Sequences

CONSTANTS
  Users,
  NoOne,        \* the absent buyer_id of a row, depositor of an escrow
  NoTrade,      \* an absent row
  Sellers,      \* users that list
  MaxTrades,    \* bound: trades
  MaxBuys,      \* bound: POST buy requests
  MaxRuns,      \* bound: POST confirm-delivery requests
  MaxRefunds,   \* bound: refund jobs of one trade
  MaxAttempts,  \* RELEASE_RETRY_MAX, MAX_ATTEMPTS of queue.ts
  MaxCrashes    \* bound: server restarts

ASSUME TradeAssumption ==
  /\ NoOne \notin Users
  /\ Sellers \subseteq Users
  /\ MaxTrades \in Nat
  /\ MaxBuys \in Nat
  /\ MaxRuns \in Nat
  /\ MaxRefunds \in Nat
  /\ MaxAttempts \in Nat \ {0}
  /\ MaxCrashes \in Nat

TradeIds == 1..MaxTrades

TradeStatus == {"Active", "Locked", "Completed", "Disputed", "Cancelled"}

\* The trade that a transaction is the deposit of; 0: it is none.
Deposit == {0} \cup TradeIds

TradeOffer == [seller : Users, buyer : Users \cup {NoOne}, status : TradeStatus, deposit : Deposit]

ASSUME NoTradeAssumption == NoTrade \notin TradeOffer

Escrow == [state     : {"none", "open", "funded", "released", "refunded"},
           depositor : Users \cup {NoOne}]

Transaction == [op : {"deposit", "release", "refund"}, trade : TradeIds, by : Users \cup {NoOne}]

\* Handlers and jobs, by the step they are at.  What was submitted is known to the model
\* only: the handler, and the row's escrow_tx_hash, have its hash.
Buy    == [trade : TradeIds, buyer : Users, step : {"checked", "submitted", "ended"},
           deposit : Deposit]
Run    == [trade : TradeIds, attempt : 1..MaxAttempts,
           step  : {"releasing", "released", "escalating", "ended"}]
Refund == [attempts : 0..MaxAttempts,
           state    : {"fresh", "queued", "running", "done", "dead", "lost"}]

Resolution == {"RELEASE", "REFUND"}
Resolving  == [trade : TradeIds, resolution : Resolution, confirmed : BOOLEAN]

VARIABLES
  trades,     \* table trade_offers, the columns that matter
  settled,    \* how often each trade was settled in the transactions ledger
  escrow,     \* the contract's state of each listing
  inFlight,   \* transactions whose answer was lost and that may still land
  posting,    \* POST /trades handlers, listed on chain and not yet inserted
  buys,       \* POST /trades/:id/buy handlers
  runs,       \* runVerificationWithRetry, one per confirmed delivery
  resolving,  \* POST /trades/:id/resolve handlers: they hold the row's lock
  refunds,    \* refund-cancelled-trade jobs of each trade
  crashes     \* server restarts so far

table    == <<trades, settled>>
chain    == <<escrow, inFlight>>
handlers == <<posting, buys, runs, resolving, refunds>>
vars     == <<table, chain, handlers, crashes>>

-----------------------------------------------------------------------------
Init ==
  /\ trades = [t \in TradeIds |-> NoTrade]
  /\ settled = [t \in TradeIds |-> 0]
  /\ escrow = [t \in TradeIds |-> [state |-> "none", depositor |-> NoOne]]
  /\ inFlight = {}
  /\ posting = {}
  /\ buys = << >>
  /\ runs = << >>
  /\ resolving = {}
  /\ refunds = [t \in TradeIds |-> << >>]
  /\ crashes = 0

HasStatus(t, status) == trades[t] # NoTrade /\ trades[t].status = status

-----------------------------------------------------------------------------
(* The chain.                                                              *)

Accepted(tx) ==
  escrow[tx.trade].state = IF tx.op = "deposit" THEN "open" ELSE "funded"

Landed(tx) ==
  [escrow EXCEPT ![tx.trade] =
     CASE tx.op = "deposit" -> [state |-> "funded", depositor |-> tx.by]
       [] tx.op = "release" -> [@ EXCEPT !.state = "released"]
       [] tx.op = "refund"  -> [@ EXCEPT !.state = "refunded"]]

\* A buyer that sends its signed envelope again is told that it has landed.
AlreadyLanded(tx) == tx.op = "deposit" /\ escrow[tx.trade].depositor = tx.by

\* sendTransaction and pollForResult, as their caller sees them: success, the
\* contract's rejection, or any other error, which says nothing about the chain.
Submit(tx, answer) ==
  \/ /\ answer = "success"
     /\ \/ Accepted(tx) /\ escrow' = Landed(tx)
        \/ AlreadyLanded(tx) /\ UNCHANGED escrow
     /\ UNCHANGED inFlight
  \/ /\ answer = "rejected"
     /\ ~Accepted(tx)
     /\ UNCHANGED chain
  \/ /\ answer = "unknown"
     /\ \/ Accepted(tx) /\ escrow' = Landed(tx) /\ UNCHANGED inFlight
        \/ inFlight' = inFlight \cup {tx} /\ UNCHANGED escrow
        \/ UNCHANGED chain

LandLate(tx) ==
  /\ tx \in inFlight
  /\ inFlight' = inFlight \ {tx}
  /\ escrow' = IF Accepted(tx) THEN Landed(tx) ELSE escrow
  /\ UNCHANGED <<table, handlers, crashes>>

Answers == {"success", "rejected", "unknown"}

-----------------------------------------------------------------------------
(* POST /trades.                                                           *)

\* create_listing; when its answer is lost the listing has no row.
ListOnChain(t, s) ==
  /\ escrow[t].state = "none"
  /\ escrow' = [escrow EXCEPT ![t].state = "open"]
  /\ \/ posting' = posting \cup {<<t, s>>}
     \/ UNCHANGED posting
  /\ UNCHANGED <<table, inFlight, buys, runs, resolving, refunds, crashes>>

InsertTrade(t, s) ==
  /\ <<t, s>> \in posting
  /\ posting' = posting \ {<<t, s>>}
  /\ \/ trades' = [trades EXCEPT ![t] = [seller |-> s, buyer |-> NoOne, status |-> "Active",
                                            deposit |-> 0]]
     \/ UNCHANGED trades
  /\ UNCHANGED <<settled, chain, buys, runs, resolving, refunds, crashes>>

-----------------------------------------------------------------------------
(* POST /trades/:id/buy.                                                   *)

\* loadBuyableTrade.
StartBuy(t, b) ==
  /\ HasStatus(t, "Active")
  /\ b # trades[t].seller
  /\ Len(buys) < MaxBuys                                   \* bound
  /\ buys' = Append(buys, [trade |-> t, buyer |-> b, step |-> "checked", deposit |-> 0])
  /\ UNCHANGED <<table, chain, posting, runs, resolving, refunds, crashes>>

\* A handler that is through, or gone.
Ended(buy) == [buy EXCEPT !.step = "ended", !.deposit = 0]

\* The handler after the envelope was answered.
Submitted(buy, e, answer) ==
  IF answer = "success" THEN [buy EXCEPT !.step = "submitted", !.deposit = e]
                        ELSE [buy EXCEPT !.step = "ended"]

\* submitSignedTransaction: the envelope is any transaction of the buyer, the deposit for
\* this trade or not; only that it is his and is signed is looked at.
SubmitDeposit(i) ==
  /\ buys[i].step = "checked"
  /\ \E answer \in Answers, e \in Deposit :
       /\ IF e = 0 THEN UNCHANGED chain
          ELSE Submit([op |-> "deposit", trade |-> e, by |-> buys[i].buyer], answer)
       /\ buys' = [buys EXCEPT ![i] = Submitted(@, e, answer)]
  /\ UNCHANGED <<table, posting, runs, resolving, refunds, crashes>>

\* UPDATE ... SET status = 'Locked', buyer_id = $1 WHERE id = $3, whatever the
\* status has become; it waits for the lock of an admin's transaction.
Locked(t, buy) ==
  [trades EXCEPT ![t] = [@ EXCEPT !.status = "Locked", !.buyer = buy.buyer, !.deposit = buy.deposit]]

LockTrade_First(i) ==
  LET t == buys[i].trade
  IN  /\ buys[i].step \in {"checked", "submitted"}
      /\ \A r \in resolving : r.trade # t
      /\ trades' = Locked(t, [buys[i] EXCEPT !.deposit = t])
      /\ buys' = [buys EXCEPT ![i].step = IF @ = "submitted" THEN "ended" ELSE @]
      /\ UNCHANGED <<settled, chain, posting, runs, resolving, refunds, crashes>>

LockTrade(i) ==
  LET t == buys[i].trade
  IN  /\ buys[i].step = "submitted"
      /\ \A r \in resolving : r.trade # t
      /\ trades' = Locked(t, buys[i]) \/ UNCHANGED trades
      /\ buys' = [buys EXCEPT ![i] = Ended(@)]
      /\ UNCHANGED <<settled, chain, posting, runs, resolving, refunds, crashes>>

-----------------------------------------------------------------------------
(* POST /trades/:id/confirm-delivery and what it leaves running.           *)

ConfirmDelivery(t) ==
  /\ HasStatus(t, "Locked")
  /\ Len(runs) < MaxRuns                                   \* bound
  /\ runs' = Append(runs, [trade |-> t, attempt |-> 1, step |-> "releasing"])
  /\ UNCHANGED <<table, chain, posting, buys, resolving, refunds, crashes>>

\* A run after an error that is not permanent.
Retried_OnceMore(run) ==
  IF run.attempt <= MaxAttempts
  THEN [run EXCEPT !.attempt = @ + 1, !.step = "releasing"]
  ELSE [run EXCEPT !.step = "escalating"]

Retried(run) ==
  IF run.attempt < MaxAttempts
  THEN [run EXCEPT !.attempt = @ + 1, !.step = "releasing"]
  ELSE [run EXCEPT !.step = "escalating"]

\* The run after release_payment was answered.  Whatever the contract rejects is
\* a permanent error.
Answered_RejectedIsPaid(run, answer) ==
  IF answer \in {"success", "rejected"} THEN [run EXCEPT !.step = "released"]
                                        ELSE Retried(run)

Answered(run, answer) ==
  CASE answer = "success"  -> [run EXCEPT !.step = "released"]
    [] answer = "rejected" -> [run EXCEPT !.step = "escalating"]
    [] answer = "unknown"  -> Retried(run)

ReleasePayment(i) ==
  LET tx == [op |-> "release", trade |-> runs[i].trade, by |-> NoOne]
  IN  /\ runs[i].step = "releasing"
      /\ \E answer \in Answers :
           /\ Submit(tx, answer)
           /\ runs' = [runs EXCEPT ![i] = Answered(@, answer)]
      /\ UNCHANGED <<table, posting, buys, resolving, refunds, crashes>>

\* The settlement transaction: it commits, finds the trade no longer Locked and
\* is skipped, or fails and sends the run back to release_payment.
Settle(i) ==
  LET t == runs[i].trade
  IN  /\ runs[i].step = "released"
      /\ \/ /\ HasStatus(t, "Locked")
            /\ trades' = [trades EXCEPT ![t] = [@ EXCEPT !.status = "Completed"]]
            /\ settled' = [settled EXCEPT ![t] = @ + 1]
            /\ runs' = [runs EXCEPT ![i].step = "ended"]
         \/ /\ ~HasStatus(t, "Locked")
            /\ runs' = [runs EXCEPT ![i].step = "ended"]
            /\ UNCHANGED table
         \/ /\ runs' = [runs EXCEPT ![i] = Retried(@)]
            /\ UNCHANGED table
      /\ UNCHANGED <<chain, posting, buys, resolving, refunds, crashes>>

\* UPDATE ... SET status = 'Disputed' WHERE status = 'Locked'; its failure is
\* logged.
Escalate(i) ==
  LET t == runs[i].trade
  IN  /\ runs[i].step = "escalating"
      /\ runs' = [runs EXCEPT ![i].step = "ended"]
      /\ \/ /\ HasStatus(t, "Locked")
            /\ trades' = [trades EXCEPT ![t] = [@ EXCEPT !.status = "Disputed"]]
         \/ UNCHANGED trades
      /\ UNCHANGED <<settled, chain, posting, buys, resolving, refunds, crashes>>

-----------------------------------------------------------------------------
(* Disputes.                                                               *)

\* The UPDATE is guarded by the status, whatever was read before it.
FileDispute(t) ==
  /\ HasStatus(t, "Locked")
  /\ trades' = [trades EXCEPT ![t] = [@ EXCEPT !.status = "Disputed"]]
  /\ UNCHANGED <<settled, chain, handlers, crashes>>

\* An admin's transaction begins: SELECT ... FOR UPDATE.
StartResolve(t, resolution) ==
  /\ HasStatus(t, "Disputed")
  /\ \A r \in resolving : r.trade # t
  /\ resolving' = resolving \cup
       {[trade |-> t, resolution |-> resolution, confirmed |-> FALSE]}
  /\ UNCHANGED <<table, chain, posting, buys, runs, refunds, crashes>>

\* resolve_dispute on chain; any error rolls the transaction back.
Confirmed_UnlessRejected(answer) == answer # "rejected"

Confirmed(answer) == answer = "success"

ResolveOnChain(r) ==
  LET tx == [op |-> IF r.resolution = "RELEASE" THEN "release" ELSE "refund",
             trade |-> r.trade, by |-> NoOne]
  IN  /\ r \in resolving
      /\ ~r.confirmed
      /\ \E answer \in Answers :
           /\ Submit(tx, answer)
           /\ resolving' = (resolving \ {r}) \cup
                IF Confirmed(answer) THEN {[r EXCEPT !.confirmed = TRUE]} ELSE {}
      /\ UNCHANGED <<table, posting, buys, runs, refunds, crashes>>

\* The UPDATE and the COMMIT; or one of them fails, and the row stays Disputed.
CommitResolve(r) ==
  /\ r \in resolving
  /\ r.confirmed
  /\ resolving' = resolving \ {r}
  /\ \/ trades' = [trades EXCEPT ![r.trade] = [@ EXCEPT
          !.status = IF r.resolution = "RELEASE" THEN "Completed" ELSE "Cancelled"]]
     \/ UNCHANGED trades
  /\ UNCHANGED <<settled, chain, posting, buys, runs, refunds, crashes>>

-----------------------------------------------------------------------------
(* Account deletion and its refund jobs.                                   *)

\* The trades of user u that DELETE /profile cancels.
Cancellable(u) ==
  {t \in TradeIds : /\ HasStatus(t, "Active") \/ HasStatus(t, "Locked")
                    /\ u \in {trades[t].seller, trades[t].buyer}}

\* Those with tokens in escrow, read before the UPDATE: its RETURNING would only
\* show Cancelled rows.
NeedRefund_ReadAfter(u) == {t \in Cancellable(u) : HasStatus(t, "Locked")'}

NeedRefund(u) == {t \in Cancellable(u) : HasStatus(t, "Locked")}

\* One transaction cancels them all; the refunds are enqueued after the COMMIT.  A COMMIT
\* after a statement whose error was swallowed rolls back, and says nothing of it.
DeleteAccount(u) ==
  /\ Cancellable(u) # {}
  /\ \A t \in TradeIds : Len(refunds[t]) < MaxRefunds      \* bound
  /\ \/ trades' = [t \in TradeIds |->
          IF t \in Cancellable(u) THEN [trades[t] EXCEPT !.status = "Cancelled"] ELSE trades[t]]
     \/ UNCHANGED trades
  /\ refunds' = [t \in TradeIds |->
       IF t \in NeedRefund(u) THEN Append(refunds[t], [attempts |-> 0, state |-> "fresh"])
                              ELSE refunds[t]]
  /\ UNCHANGED <<settled, chain, posting, buys, runs, resolving, crashes>>

EnqueueRefund(t, n) ==
  /\ refunds[t][n].state = "fresh"
  /\ \E s \in {"queued", "lost"} : refunds' = [refunds EXCEPT ![t][n].state = s]
  /\ UNCHANGED <<table, chain, posting, buys, runs, resolving, crashes>>

StartRefund(t, n) ==
  /\ refunds[t][n].state = "queued"
  /\ refunds' = [refunds EXCEPT ![t][n] = [attempts |-> @.attempts + 1, state |-> "running"]]
  /\ UNCHANGED <<table, chain, posting, buys, runs, resolving, crashes>>

\* resolve_dispute on chain; any error is retried by the queue.
RefundOnChain(t, n) ==
  LET tx == [op |-> "refund", trade |-> t, by |-> NoOne]
  IN  /\ refunds[t][n].state = "running"
      /\ \E answer \in Answers :
           /\ Submit(tx, answer)
           /\ refunds' = [refunds EXCEPT ![t][n].state =
                IF answer = "success" THEN "done"
                ELSE IF refunds[t][n].attempts < MaxAttempts THEN "queued" ELSE "dead"]
      /\ UNCHANGED <<table, posting, buys, runs, resolving, crashes>>

-----------------------------------------------------------------------------
\* The server restarts: handlers, background runs and running jobs are gone, an
\* admin's open transaction is rolled back; the tables and Redis are not.
Crash ==
  /\ crashes < MaxCrashes                                  \* bound
  /\ crashes' = crashes + 1
  /\ posting' = {}
  /\ buys' = [i \in 1..Len(buys) |-> Ended(buys[i])]
  /\ runs' = [i \in 1..Len(runs) |-> [runs[i] EXCEPT !.step = "ended"]]
  /\ resolving' = {}
  /\ refunds' = [t \in TradeIds |-> [n \in 1..Len(refunds[t]) |->
       IF refunds[t][n].state \in {"fresh", "running"}
       THEN [refunds[t][n] EXCEPT !.state = "lost"] ELSE refunds[t][n]]]
  /\ UNCHANGED <<table, chain>>

Verification(i) == ReleasePayment(i) \/ Settle(i) \/ Escalate(i)

Dispute ==
  \/ \E t \in TradeIds : FileDispute(t)
  \/ \E t \in TradeIds, resolution \in Resolution : StartResolve(t, resolution)
  \/ \E r \in resolving : ResolveOnChain(r) \/ CommitResolve(r)

Deletion ==
  \/ \E u \in Users : DeleteAccount(u)
  \/ \E t \in TradeIds : \E n \in 1..Len(refunds[t]) :
       EnqueueRefund(t, n) \/ StartRefund(t, n) \/ RefundOnChain(t, n)

Next ==
  \/ \E tx \in inFlight : LandLate(tx)
  \/ \E t \in TradeIds, s \in Sellers : ListOnChain(t, s) \/ InsertTrade(t, s)
  \/ \E t \in TradeIds, b \in Users : StartBuy(t, b)
  \/ \E i \in 1..Len(buys) : SubmitDeposit(i) \/ LockTrade(i)
  \/ \E t \in TradeIds : ConfirmDelivery(t)
  \/ \E i \in 1..Len(runs) : Verification(i)
  \/ Dispute
  \/ Deletion
  \/ Crash

Spec == Init /\ [][Next]_vars

\* A background run goes on: nothing but a crash stops it.
FairSpec == Spec /\ \A i \in 1..MaxRuns : WF_vars(i <= Len(runs) /\ Verification(i))

-----------------------------------------------------------------------------
(* Properties.                                                             *)

\* The rows have the types of their columns, and retries stop at their maximum.
TypeOK ==
  /\ trades \in [TradeIds -> TradeOffer \cup {NoTrade}]
  /\ settled \in [TradeIds -> Nat]
  /\ escrow \in [TradeIds -> Escrow]
  /\ inFlight \subseteq Transaction
  /\ posting \subseteq TradeIds \X Users
  /\ buys \in Seq(Buy)
  /\ runs \in Seq(Run)
  /\ resolving \subseteq Resolving
  /\ refunds \in [TradeIds -> Seq(Refund)]
  /\ crashes \in 0..MaxCrashes

\* "Completed: payment released to seller" (docs/overview.md): no order of
\* answers, retries and resolutions completes a trade whose seller was not paid.
CompletedIsPaid ==
  \A t \in TradeIds : HasStatus(t, "Completed") => escrow[t].state = "released"

\* A row whose transaction is a deposit has for its buyer the user whose tokens that escrow
\* took: of two buyers racing for a trade, the one the contract refused never becomes its
\* buyer by it.  (By any other transaction of his he does.)
BuyerHasDeposited ==
  \A t \in TradeIds : trades[t] # NoTrade /\ trades[t].deposit # 0 =>
    escrow[trades[t].deposit].depositor = trades[t].buyer

\* The ledger charges the buyer and credits the seller of a trade at most once,
\* and only when the escrow has paid the seller.
SettledOnceWhenPaid ==
  \A t \in TradeIds :
    /\ settled[t] <= 1
    /\ settled[t] = 1 => escrow[t].state = "released"

\* A trade that had a buyer, was cancelled and still has its tokens in escrow has
\* a refund job that is still to run, or that is known to have failed or to have
\* been lost: no such trade is simply forgotten.
CancelledTradesKeepARefund ==
  \A t \in TradeIds :
    HasStatus(t, "Cancelled") /\ trades[t].buyer # NoOne /\ escrow[t].state = "funded" =>
      \E n \in 1..Len(refunds[t]) : refunds[t][n].state # "done"

\* A dispute ends as the contract has ended it, whatever the answers of the chain
\* were and whatever ran at the same time.
ResolutionsMatchEscrow ==
  [][\A t \in TradeIds : HasStatus(t, "Disputed") =>
       /\ HasStatus(t, "Completed")' => escrow'[t].state = "released"
       /\ HasStatus(t, "Cancelled")' => escrow'[t].state = "refunded"]_vars

\* "On success -> updates the DB row to Completed" (tradeVerification.ts:11): a
\* trade whose release was confirmed becomes Completed.
ReleasedTradesComplete ==
  \A i \in 1..MaxRuns :
    i <= Len(runs) /\ runs[i].step = "released"
      ~> i <= Len(runs) /\ HasStatus(runs[i].trade, "Completed")

=============================================================================
