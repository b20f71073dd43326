------------------------------ MODULE MCServices ------------------------------
(***************************************************************************)
(* What runs beside the trades: background jobs and the Redis              *)
(* client under them (JobQueue), exports of personal data (Exports),       *)
(* server-sent events (Events), the flags of the fraud detection           *)
(* (FraudFlags), the queue of orders in the browser (Orders), the          *)
(* transactions sent to the contract (Submission), the audit log           *)
(* (AuditLog), the ledger of the settlements (Ledger), the dashboard's     *)
(* figures (Analytics) and the migrations of the database (Migrations).    *)
(*                                                                         *)
(* They share no state, so each behaviour is one of theirs: `focus` says   *)
(* whose, and the others stay as they start, which is Nil.  ServicesProofs *)
(* is about any values of the constants; those TLC takes are at the end.   *)
(***************************************************************************)
EXTENDS Naturals, Sequences, FiniteSets, TLC

CONSTANTS
  Nil,
  Jobs, QueueOf, QueueNames, Length, Greeting, Refusal, JobAttempts, JobFaults, \* JobQueue
  Handlers, Cooldown, Retention, LinkLife, ExportTries, MaxExports, ExportTime,
  ExportFaults,                                                              \* Exports
  Users, Listeners, BufferSize, MaxUnread, MaxEmitted, MaxBreaks,            \* Events
  Processes, Tasks, Threshold, FraudWindow, MaxFailures, FraudTime,          \* FraudFlags
  Tabs, Requests, MaxOrders, OrderFaults,                                    \* Orders
  Calls, Accounts, Escrows, EscrowOf, ReleaserOf, ReleaseOp, Deposited,
  SignerOf, BuyOp, MaxPolls,                                                 \* Submission, twice
  Offered, Flagged, Webhooks, Admins, AuditWindow, BatchSize, Limit, AuditTime,  \* AuditLog
  Treasury, Trades, BuyerOf, SellerOf, AmountOf, Runs, TradeOf, FeeRate, Reward,
  Readers, LedgerFaults,                                                     \* Ledger
  Questions, AssetOf, FeeOf, AtStart, Endpoints, Life, ChartWindow, MaxChanges,
  ChartTime,                                                                 \* Analytics
  ReleaseDirs, Reversible, MaxStarts, MigrationFaults                        \* Migrations

VARIABLES
  focus,
  now, faults,                                               \* of the component that moves
  conn, wire, replies, buffer, waiting, answered,
  lists, dead, mem, memDead, enqueuing, enqueued, refused, poller, running, done, lost,
  exports, handler, links, downloads, unclear,
  lastEventId, replayBuffer, clients, listening, frames, lastSeen, received, boot, log,
  evicted, skipped, breaks,
  at, redis, copies, link, task, flags,
  submitted, queue, page, flush, retries, sending, request, cached, listings, rows, online,
  session, discarded, queuedEver, excused,
  contract, sequence, call, seqOf, fate,
  status, audit, recorded, admin, reader,
  offers, ledger, referrals, tx, report,
  past, changes, figures, memory, connected, requests, storing, asked,
  schema, migrations, nextId, process, left, recordedBy, starts

jobs   == <<conn, wire, replies, buffer, waiting, answered, lists, dead, mem, enqueuing,
            enqueued, poller, running, done, memDead, refused, lost>>
data   == <<exports, handler, links, downloads, unclear>>
events == <<lastEventId, replayBuffer, clients, listening, frames, lastSeen, received, boot,
            log, evicted, skipped, breaks>>
fraud  == <<at, redis, copies, link, task, flags>>
orders == <<submitted, queue, page, flush, retries, sending, request, cached, listings, rows,
            online, session, discarded, queuedEver, excused>>
chain  == <<contract, sequence, call, seqOf, fate>>
trail  == <<status, audit, recorded, admin, reader>>
books  == <<offers, ledger, referrals, tx, report>>
charts == <<past, changes, figures, memory, connected, requests, storing, asked>>
tables == <<schema, migrations, nextId, process, left, recordedBy, starts>>

J == INSTANCE JobQueue WITH
       HasPassword <- FALSE, MaxAttempts <- JobAttempts, MaxFaults <- JobFaults

X == INSTANCE Exports WITH
       MaxTries <- ExportTries, MaxTime <- ExportTime, MaxFaults <- ExportFaults

V == INSTANCE Events WITH online <- listening

F == INSTANCE FraudFlags WITH Window <- FraudWindow, MaxTime <- FraudTime, mem <- copies

O == INSTANCE Orders WITH Sellers <- Users, NoRequest <- Nil, MaxFaults <- OrderFaults

\* Calls signed by the server about deposits that are there.
Releases == INSTANCE Submission WITH
       NoCall <- Nil, Trades <- Escrows, TradeOf <- EscrowOf, AccountOf <- ReleaserOf,
       OpOf <- ReleaseOp, Funded <- Deposited

\* Listings, and buyers who deposit, twice or with an envelope sent twice.
Buys == INSTANCE Submission WITH
       NoCall <- Nil, Trades <- Escrows, TradeOf <- EscrowOf, AccountOf <- SignerOf,
       OpOf <- BuyOp, Funded <- {}

L == INSTANCE AuditLog WITH
       Trades <- Offered, Flags <- Flagged, Window <- AuditWindow, MaxTime <- AuditTime

G == INSTANCE Ledger WITH NoOne <- Nil, MaxFaults <- LedgerFaults

A == INSTANCE Analytics WITH
       Servers <- Processes, Requests <- Questions, Offers <- Trades, Nothing <- Nil,
       Window <- ChartWindow, MaxTime <- ChartTime, redis <- figures

D == INSTANCE Migrations WITH MaxFaults <- MigrationFaults

ASSUME InstancesAssumption ==
  /\ Releases!Parameters /\ Buys!Parameters
  /\ V!Parameters /\ F!Parameters /\ L!Parameters /\ G!Parameters /\ A!Parameters /\ D!Parameters

Init ==
  /\ focus \in {"jobs", "exports", "events", "fraud", "orders", "releases", "buys", "audit",
               "ledger", "analytics", "migrations"}
  /\ now = 0 /\ faults = 0
  /\ IF focus = "jobs" THEN J!Init
     ELSE /\ conn = Nil /\ wire = Nil /\ replies = Nil /\ buffer = Nil /\ waiting = Nil
          /\ answered = Nil /\ lists = Nil /\ dead = Nil /\ mem = Nil /\ enqueuing = Nil
          /\ enqueued = Nil /\ poller = Nil /\ running = Nil /\ done = Nil
          /\ memDead = Nil /\ refused = Nil /\ lost = Nil
  /\ IF focus = "exports" THEN X!Init
     ELSE exports = Nil /\ handler = Nil /\ links = Nil /\ downloads = Nil /\ unclear = Nil
  /\ IF focus = "events" THEN V!Init
     ELSE /\ lastEventId = Nil /\ replayBuffer = Nil /\ clients = Nil /\ listening = Nil
          /\ frames = Nil /\ lastSeen = Nil /\ received = Nil /\ boot = Nil /\ log = Nil
          /\ evicted = Nil /\ skipped = Nil /\ breaks = Nil
  /\ IF focus = "fraud" THEN F!Init
     ELSE /\ at = Nil /\ redis = Nil /\ copies = Nil /\ link = Nil /\ task = Nil
          /\ flags = Nil
  /\ IF focus = "orders" THEN O!Init
     ELSE /\ submitted = Nil /\ queue = Nil /\ page = Nil /\ flush = Nil /\ retries = Nil
          /\ sending = Nil /\ request = Nil /\ cached = Nil /\ listings = Nil /\ rows = Nil
          /\ online = Nil /\ session = Nil /\ discarded = Nil /\ queuedEver = Nil
          /\ excused = Nil
  /\ CASE focus = "releases" -> Releases!Init
       [] focus = "buys"     -> Buys!Init
       [] OTHER -> contract = Nil /\ sequence = Nil /\ call = Nil /\ seqOf = Nil /\ fate = Nil
  /\ IF focus = "audit" THEN L!Init
     ELSE status = Nil /\ audit = Nil /\ recorded = Nil /\ admin = Nil /\ reader = Nil
  /\ IF focus = "ledger" THEN G!Init
     ELSE ledger = Nil /\ referrals = Nil /\ tx = Nil /\ report = Nil
  /\ IF focus = "analytics" THEN A!Init
     ELSE /\ past = Nil /\ changes = Nil /\ figures = Nil /\ memory = Nil /\ connected = Nil
          /\ requests = Nil /\ storing = Nil /\ asked = Nil
  /\ focus \notin {"ledger", "analytics"} => offers = Nil
  /\ IF focus = "migrations" THEN D!Init
     ELSE /\ schema = Nil /\ migrations = Nil /\ nextId = Nil /\ process = Nil /\ left = Nil
          /\ recordedBy = Nil /\ starts = Nil

Services ==
  \/ focus = "jobs"    /\ J!Next /\ UNCHANGED <<data, events, fraud, orders, chain, now>>
  \/ focus = "exports" /\ X!Next /\ UNCHANGED <<jobs, events, fraud, orders, chain>>
  \/ focus = "events"  /\ V!Next /\ UNCHANGED <<jobs, data, fraud, orders, chain, now, faults>>
  \/ focus = "fraud"   /\ F!Next /\ UNCHANGED <<jobs, data, events, orders, chain, faults>>
  \/ focus = "orders"  /\ O!Next /\ UNCHANGED <<jobs, data, events, fraud, chain, now>>
  \/ /\ UNCHANGED <<jobs, data, events, fraud, orders, now, faults>>
     /\ \/ focus = "releases" /\ Releases!Next
        \/ focus = "buys"     /\ Buys!Next

Reports ==
  \/ focus = "ledger"     /\ G!Next /\ UNCHANGED <<charts, tables, now>>
  \/ focus = "analytics"  /\ A!Next /\ UNCHANGED <<ledger, referrals, tx, report, tables, faults>>
  \/ focus = "migrations" /\ D!Next /\ UNCHANGED <<books, charts, now>>

Next ==
  /\ UNCHANGED focus
  /\ \/ Services /\ UNCHANGED <<trail, books, charts, tables>>
     \/ /\ focus = "audit" /\ L!Next
        /\ UNCHANGED <<jobs, data, events, fraud, orders, chain, faults, books, charts, tables>>
     \/ Reports /\ UNCHANGED <<jobs, data, events, fraud, orders, chain, trail>>

Spec ==
  Init /\ [][Next]_<<focus, now, faults, jobs, data, events, fraud, orders, chain, trail, books,
                     charts, tables>>

\* Which tab and which request is which does not matter to Orders, nor which admin to AuditLog.
Names == Permutations(Tabs) \cup Permutations(Requests)

-----------------------------------------------------------------------------
(* The components' properties.                                             *)

\* Every row, queue, connection and cache entry has the type its declaration gives it, and
\* the queue in the browser holds each order once.
TypeOK ==
  /\ focus = "jobs"    => J!TypeOK
  /\ focus = "exports" => X!TypeOK
  /\ focus = "events"  => V!TypeOK
  /\ focus = "fraud"   => F!TypeOK
  /\ focus = "orders"  => O!TypeOK
  /\ focus = "releases" => Releases!TypeOK
  /\ focus = "buys"    => Buys!TypeOK
  /\ focus = "audit"   => L!TypeOK
  /\ focus = "ledger"  => G!TypeOK
  /\ focus = "analytics"  => A!TypeOK
  /\ focus = "migrations" => D!TypeOK

\* queue.ts: whatever happens, a job is run by one runJob at a time, on the queue it was
\* pushed to; an accepted job disappears only when the connection or the process stops while
\* they alone have it or Redis refuses its push, and a job whose enqueue() threw is nowhere.
JobsRunOnce ==
  focus = "jobs" =>
    J!OneRunPerJob /\ J!RunsOnItsOwnQueue /\ J!NoJobLost /\ J!RefusedIsNowhere


\* tradeVerification.ts, referrals.ts: a trade is settled in the ledger whole or not at all,
\* and once; each referral is rewarded once; and what the referrals page adds up was credited.
SettlementsAreWhole == focus = "ledger" => G!SettlementsAreWhole /\ G!StatsMatchLedger

\* migrate.ts: the schema is what the records say, each release's files were recorded in
\* their order, and a run that reports success has left none of them out.
MigrationsAreRecorded ==
  focus = "migrations" => D!RecordsMatchSchema /\ D!RecordedInOrder /\ D!SuccessIsWhole

\* sseEmitter.ts: a listener reads its events in order, once, and without gaps but those
\* that the buffer had lost when it reconnected and, after a restart, those whose ids are not
\* above the one it came back with.
NoGapsNorRepeats == focus = "events" => V!NoGapsNorRepeats

\* fraudDetection.ts: an account is flagged only for enough failures within one window.
FlagsAreEarned == focus = "fraud" => F!FlagsAreEarned

\* orderQueue.ts, trades.ts: an order that was queued and not discarded is queued or in the
\* table, as a trade of whoever was signed in when it was sent; and it is listed twice only if
\* its requests overlapped, one stopped between the listing and the cache entry, the entry was
\* lost, or the order went out again with another seller's token.
OrdersAreKept == focus = "orders" => O!NoOrderLost /\ O!DuplicatesHaveACause

\* auditLog.ts, admin.ts: a dispute that an admin resolved, and no other, has its entry, in the
\* same transaction; and a reader who turns the pages to the last misses no entry that was
\* there all the time.
AuditTrailIsWhole == focus = "audit" => L!TrailMatchesChanges /\ L!NothingIsSkipped

\* stellar.ts, isPermanentError: whatever the node, the ledger and the other calls do, a
\* call that was told success has landed, and one told of a contract error never lands.
\* (Both instances say the same; the steps of the others leave `chain` as it is.)
ImplementsAnswers ==
  /\ focus \in {"releases", "buys"} => Releases!Answers!AnswerInit
  /\ [][(focus \in {"releases", "buys"}) =>
          (Releases!Answers!AnswerNext \/ UNCHANGED Releases!Answers!answerVars)]_chain

-----------------------------------------------------------------------------
(* Values for TLC.                                                         *)

CONSTANTS
  j1, j2, l1, l2, t1, t2, c1, c2, c3

\* Two jobs, each in a queue of its own.
TwoQueues    == <<"process-withdrawal", "refund-cancelled-trade">>
OneJobInEach == j1 :> "process-withdrawal" @@ j2 :> "refund-cancelled-trade"

\* Three calls signed by the server about one deposit.
OneEscrow   == [c \in {c1, c2, c3} |-> "t"]
ByServer    == [c \in {c1, c2, c3} |-> "server"]
TwoReleases == c1 :> "release_payment" @@ c2 :> "release_payment" @@ c3 :> "refund"

\* A listing, and a buyer who deposits twice or sends one envelope twice.
ByBuyer == c1 :> "buyer" @@ c2 :> "buyer" @@ c3 :> "server"
TwoBuys == c1 :> "deposit_to_escrow" @@ c2 :> "deposit_to_escrow" @@ c3 :> "create_listing"

\* Two trades in which the two users trade places, one of them released by two runs.
FirstBuys  == t1 :> l1 @@ t2 :> l2
FirstSells == t1 :> l2 @@ t2 :> l1
Prices     == t1 :> 101 @@ t2 :> 233
TwoOfOne   == c1 :> t1 @@ c2 :> t1 @@ c3 :> t2

\* One of the two offers is there, of another asset; three questions about them.
TwoAssets == t1 :> "MTN_AIRTIME" @@ t2 :> "GLO_DATA"
TwoFees   == t1 :> 2 @@ t2 :> 3
OneOffer  == t1 :> [status |-> "Locked", day |-> 0] @@ t2 :> Nil

Ask(name, from, to) == [name |-> name, from |-> from, to |-> to]
ThreeQuestions ==
  {Ask("overview", Nil, Nil), Ask("timeseries", 1, Nil), Ask("timeseries", 1, 0)}

=============================================================================
