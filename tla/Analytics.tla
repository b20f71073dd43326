-------------------------------- MODULE Analytics --------------------------------
(***************************************************************************)
(* The dashboard's figures and the cache in front of them:                 *)
(*   server/src/routes/analytics.ts       GET /admin/metrics, /analytics/* *)
(*   server/src/schemas/analytics.schemas.ts                               *)
(*   server/src/services/cache.ts         get, set, remember               *)
(*                                                                         *)
(* Several servers, each with a memory of its own, over one Redis and one  *)
(* database.  A request that finds nothing computes its answer with one    *)
(* SELECT, sends it, and stores it after that, in Redis and then in the    *)
(* server's memory; other requests come in between.  A connection that     *)
(* closes is not opened again.                                             *)
(*                                                                         *)
(* Amounts are in kobo; left out: roles, formats, and a second key: the    *)
(* cache does not relate two keys.                                         *)
(* Name_Variant is Name with a plausible mistake in it, as in Escrow.      *)
(***************************************************************************)
EXTENDS Integers, Sequences, FiniteSets, FiniteSetsExt

CONSTANTS
  Servers,
  Requests,     \* bound
  Offers,       \* trade offers
  AssetOf,      \* asset_type, by offer
  AmountOf,     \* amount, by offer
  FeeOf,        \* fee_amount of a completed offer
  AtStart,      \* trade_offers at the start
  Nothing,      \* an absent row, entry, date
  Endpoints,    \* what is asked for
  Life,         \* ANALYTICS_CACHE_TTL_SECONDS
  Window,       \* ANALYTICS_DEFAULT_WINDOW_DAYS
  MaxChanges,   \* bound: changes of the offers
  MaxTime       \* bound

Parameters == Life \in Nat \ {0} /\ Window \in Nat \ {0}

Times == 0..MaxTime

VARIABLES
  offers,      \* trade_offers: status and day, or Nothing
  past,        \* history: the table at every time so far, one set of tables each
  changes,
  now,         \* a day and a second of the cache at once
  redis,       \* an entry, or Nothing
  memory,      \* the same, by server
  connected,   \* by server: its connection to Redis
  requests,    \* a request, and in the end its answer
  storing,     \* by server: answers that are sent and not yet stored
  asked        \* what is asked for in this behaviour

vars == <<offers, past, changes, now, redis, memory, connected, requests, storing, asked>>

-----------------------------------------------------------------------------
(* The SELECTs, over a table.                                              *)

Rows(table) == {o \in Offers : table[o] # Nothing}
InStatus(table, s) == {o \in Rows(table) : table[o].status = s}
Amount(S) == MapThenSumSet(LAMBDA o : AmountOf[o], S)

Metrics(table) ==
  [openTrades      |-> Cardinality(InStatus(table, "Active")),
   lockedTrades    |-> Cardinality(InStatus(table, "Locked")),
   completedTrades |-> Cardinality(InStatus(table, "Completed")),
   disputedTrades  |-> Cardinality(InStatus(table, "Disputed")),
   totalVolume     |-> Amount(InStatus(table, "Completed"))]

\* Hundredths of a percent, rounded half up.
SuccessRate(completed, total) ==
  IF total = 0 THEN 0 ELSE (2 * completed * 10000 + total) \div (2 * total)

Overview(table) ==
  LET completed == InStatus(table, "Completed")
  IN  [totalTrades |-> Cardinality(Rows(table)),
       tradeVolume |-> Amount(completed),
       feeRevenue  |-> MapThenSumSet(LAMBDA o : FeeOf[o], completed),
       successRate |-> SuccessRate(Cardinality(completed), Cardinality(Rows(table)))]

\* created_at >= from AND created_at < to + 1 day: one row for each day that has offers.
Timeseries(table, from, to) ==
  LET inRange == {o \in Rows(table) : table[o].day >= from /\ table[o].day < to + 1}
      ofDay(d) == {o \in inRange : table[o].day = d}
  IN  [d \in {table[o].day : o \in inRange} |->
         [tradeCount |-> Cardinality(ofDay(d)), volume |-> Amount(ofDay(d))]]

Assets(table) ==
  LET ofAsset(a) == {o \in Rows(table) : AssetOf[o] = a}
  IN  [a \in {AssetOf[o] : o \in Rows(table)} |->
         [tradeCount |-> Cardinality(ofAsset(a)), volume |-> Amount(ofAsset(a))]]

\* The range that was asked for, or the last days up to today.
DefaultFrom(day) == day - (Window - 1)
DefaultTo(day)   == day

From(e) == IF e.from = Nothing THEN DefaultFrom(now) ELSE e.from
To(e)   == IF e.to = Nothing THEN DefaultTo(now) ELSE e.to

\* analyticsDateRangeSchema: the rest is answered 400.
Valid(e) == e.from # Nothing /\ e.to # Nothing => e.from <= e.to

\* What a request is about, and is cached under: the dates of a timeseries are part of it.
KeyOf_Undated(e) == [name |-> e.name, from |-> e.from, to |-> e.to]

KeyOf(e) ==
  IF e.name = "timeseries"
  THEN [name |-> e.name, from |-> From(e), to |-> To(e)]
  ELSE [name |-> e.name, from |-> Nothing, to |-> Nothing]

Answer(e, from, to, table) ==
  CASE e.name = "metrics"    -> Metrics(table)
    [] e.name = "overview"   -> Overview(table)
    [] e.name = "timeseries" -> Timeseries(table, from, to)
    [] e.name = "assets"     -> Assets(table)

-----------------------------------------------------------------------------
(* The database and the time.                                              *)

Idle == [step |-> "idle"]

Init ==
  /\ offers = AtStart
  /\ past = <<{offers}>>
  /\ changes = 0
  /\ now = 0
  /\ redis = Nothing
  /\ memory = [s \in Servers |-> Nothing]
  /\ connected = [s \in Servers |-> TRUE]
  /\ requests = [r \in Requests |-> Idle]
  /\ storing = [s \in Servers |-> {}]
  /\ asked \in {e \in Endpoints : Valid(e)}

Statuses == {"Active", "Locked", "Completed", "Disputed", "Cancelled"}

\* The UPDATE of a late POST /buy locks a trade whatever it has become (trades.ts:473).
Follows(status) ==
  {"Locked"} \cup CASE status = "Active"   -> {"Cancelled"}
                    [] status = "Locked"   -> {"Completed", "Disputed", "Cancelled"}
                    [] status = "Disputed" -> {"Completed", "Cancelled"}
                    [] OTHER               -> {}

Change(o) ==
  /\ changes < MaxChanges                                  \* bound
  /\ changes' = changes + 1
  /\ IF offers[o] = Nothing
     THEN offers' = [offers EXCEPT ![o] = [status |-> "Active", day |-> now]]
     ELSE \E s \in Follows(offers[o].status) : offers' = [offers EXCEPT ![o].status = s]
  /\ past' = [past EXCEPT ![Len(past)] = @ \cup {offers'}]
  /\ UNCHANGED <<now, redis, memory, connected, requests, storing, asked>>

\* Time passes, but not while an answer is on its way to a cache (bound: a SET of Redis that
\* takes as long as entries live would start the entry of the memory that late).
Tick ==
  /\ now < MaxTime                                         \* bound
  /\ \A s \in Servers : storing[s] = {}
  /\ now' = now + 1
  /\ past' = Append(past, {offers})
  /\ UNCHANGED <<offers, changes, redis, memory, connected, requests, storing, asked>>

-----------------------------------------------------------------------------
(* cache.remember.                                                         *)

Live_Ever(entry, key) == entry # Nothing /\ entry.key = key

Live(entry, key) == entry # Nothing /\ entry.key = key /\ entry.expires > now

Answered(r, value, from, to) ==
  requests' = [requests EXCEPT ![r] =
    [step |-> "answered", value |-> value, from |-> from, to |-> to, at |-> now]]

\* A request at server s: GET from Redis, and from the memory if that has nothing or is not
\* connected.
Get(r, s) ==
  /\ requests[r].step = "idle"
  /\ LET key  == KeyOf(asked)
         hits == {e \in {redis} : connected[s] /\ Live(e, key)}
         hit  == IF hits # {} THEN hits ELSE {e \in {memory[s]} : Live(e, key)}
     IN  IF hit # {}
         THEN \E e \in hit : Answered(r, e.value, From(asked), To(asked))
         ELSE requests' = [requests EXCEPT ![r] =
                [step |-> "missed", server |-> s, key |-> key,
                 from |-> From(asked), to |-> To(asked)]]
  /\ UNCHANGED <<offers, past, changes, now, redis, memory, connected, storing, asked>>

\* The SELECT; the answer is sent and its storing begins.
Produce(r) ==
  LET q == requests[r]
      v == Answer(asked, q.from, q.to, offers)
  IN  /\ q.step = "missed"
      /\ Answered(r, v, q.from, q.to)
      /\ storing' = [storing EXCEPT ![q.server] =
           @ \cup {[key |-> q.key, value |-> v,
                    to |-> IF connected[q.server] THEN "redis" ELSE "memory"]}]
      /\ UNCHANGED <<offers, past, changes, now, redis, memory, connected, asked>>

Stored(w) == [key |-> w.key, value |-> w.value, expires |-> now + Life]

\* SET in Redis; or it fails there, and only the memory has it.
SetRedis(s, w) ==
  /\ w \in storing[s]
  /\ w.to = "redis"
  /\ redis' \in {redis} \cup (IF connected[s] THEN {Stored(w)} ELSE {})
  /\ storing' = [storing EXCEPT ![s] = (@ \ {w}) \cup {[w EXCEPT !.to = "memory"]}]
  /\ UNCHANGED <<offers, past, changes, now, memory, connected, requests, asked>>

MemSet(s, w) ==
  /\ w \in storing[s]
  /\ w.to = "memory"
  /\ memory' = [memory EXCEPT ![s] = Stored(w)]
  /\ storing' = [storing EXCEPT ![s] = @ \ {w}]
  /\ UNCHANGED <<offers, past, changes, now, redis, connected, requests, asked>>

\* The connection closes: a SET that is under way gets no answer, and its entry does not
\* reach the memory.
Disconnect(s) ==
  /\ connected[s]
  /\ connected' = [connected EXCEPT ![s] = FALSE]
  /\ storing' = [storing EXCEPT ![s] = {w \in @ : w.to = "memory"}]
  /\ UNCHANGED <<offers, past, changes, now, redis, memory, requests, asked>>

-----------------------------------------------------------------------------
Next ==
  \/ \E o \in Offers : Change(o)
  \/ Tick
  \/ \E r \in Requests : Produce(r) \/ \E s \in Servers : Get(r, s)
  \/ \E s \in Servers :
       \/ Disconnect(s)
       \/ \E w \in storing[s] : SetRedis(s, w) \/ MemSet(s, w)

Spec == Init /\ [][Next]_vars

-----------------------------------------------------------------------------
(* Properties.                                                             *)

TypeOK ==
  /\ offers \in [Offers -> {Nothing} \cup
       [status : Statuses, day : Times]]
  /\ changes \in 0..MaxChanges
  /\ now \in Times
  /\ Len(past) = now + 1
  /\ connected \in [Servers -> BOOLEAN]
  /\ \A s \in Servers : \A w \in storing[s] : w.to \in {"redis", "memory"}

OfOneMoment(value, from, to, at) ==
  \E k \in {x \in Times : x > at - Life /\ x <= at} : \E table \in past[k + 1] :
    value = Answer(asked, from, to, table)

\* An answer, and an entry that would be one now, is what the SELECT finds for the dates that
\* are asked for, in the table as it was at one moment, now or less than a lifetime ago,
\* whichever server computed it, in whatever order two servers stored theirs and whatever
\* was lost.
AnswersAreOfOneMoment ==
  /\ \A r \in Requests :
       LET q == requests[r]
       IN  q.step = "answered" => OfOneMoment(q.value, q.from, q.to, q.at)
  /\ \A e \in {redis} \cup {memory[s] : s \in Servers} :
       Live(e, KeyOf(asked)) => OfOneMoment(e.value, From(asked), To(asked), now)

=============================================================================
