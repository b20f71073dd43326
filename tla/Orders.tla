-------------------------------- MODULE Orders --------------------------------
(***************************************************************************)
(* From a seller's form to a listing: the page, the browser's offline      *)
(* queue and the idempotency key of POST /trades.                          *)
(*   frontend/app/offline/orderQueue.ts, useOfflineOrderQueue.ts           *)
(*   frontend/app/sell/page.tsx, OfflineOrderList.tsx                      *)
(*   server/src/routes/trades.ts             POST /trades                  *)
(*                                                                         *)
(* The queue is in localStorage, which all tabs share; the run that sends  *)
(* it, and the keys it has in flight, are in the memory of one tab.  Every *)
(* operation on the queue reads, changes and writes it in one go.  A       *)
(* request is cut at each of the server's writes; its client may give it   *)
(* up while the server goes on with it.                                    *)
(*                                                                         *)
(* Left out: what the form checks, prices, error texts; a full storage.    *)
(* Name_Variant is Name with a plausible mistake in it, as in Escrow.      *)
(***************************************************************************)
EXTENDS Naturals, Sequences, SequencesExt

CONSTANTS
  Sellers,     \* who signs in, one after the other, in this browser
  Tabs,        \* its open tabs of the sell page
  Requests,    \* bound: POST /trades under way at once
  NoRequest,
  MaxOrders,   \* bound: submitted orders
  MaxFaults    \* bound: answers lost, tabs closed, restarts, failed inserts, expired keys, and
               \* sign-ins by another seller

\* An order is known by its idempotency key.
Keys == 1..MaxOrders

QueuedSellOrder ==
  [key : Keys, status : {"pending", "syncing", "failed"}, retryable : BOOLEAN]

\* What the client learns: a 2xx, a 4xx, a 5xx, a 401, or nothing.
Answers == {"ok", "rejected", "error", "unauthorized", "network"}
Running == {"sent", "checked", "listed", "inserted"}

\* The token in the browser, and what a request carries of it.
Expired == "expired"
None    == "none"

\* A run of doFlush takes its candidates when it starts; `only` is the order of a Retry.
Flush == [state : {"idle", "start", "run"}, only : {0} \cup Keys, todo : Seq(Keys)]
Idle  == [state |-> "idle", only |-> 0, todo |-> << >>]
Start(only) == [state |-> "start", only |-> only, todo |-> << >>]

\* Once, and more often than once.
Count == 0..2

VARIABLES
  submitted,   \* orders submitted so far
  queue,       \* localStorage, oldest order first
  page,        \* per tab: the request of the form's own submit
  flush,       \* per tab: `current`, the run of doFlush
  retries,     \* per tab: the Retry clicks that wait for `current`
  sending,     \* per tab: the request doFlush waits for
  request,     \* requests: the order, whose token it has and how far the server has got
  cached,      \* sellers and keys whose answer is in the idempotency cache
  listings,    \* listings on chain made for an order
  rows,        \* rows of trade_offers made for an order
  online,      \* navigator.onLine
  session,     \* the token in the browser: a seller's, an expired one, or none
  faults,
  discarded,   \* history: orders the seller discarded
  queuedEver,  \* history: orders that were queued
  excused      \* history: orders whose idempotency the server could not keep, or that went out
               \* with another seller's token when the first one's answer was in the cache

browser == <<queue, page, flush, retries, sending>>
server  == <<cached, listings, rows>>
history == <<discarded, queuedEver, excused>>
vars    == <<submitted, browser, request, server, online, session, faults, history>>

First  == CHOOSE s \in Sellers : TRUE
Unused == [key |-> 0, by |-> None, step |-> "free"]

Init ==
  /\ submitted = 0
  /\ queue = << >>
  /\ page = [t \in Tabs |-> NoRequest]
  /\ flush = [t \in Tabs |-> Idle]
  /\ retries = [t \in Tabs |-> << >>]
  /\ sending = [t \in Tabs |-> NoRequest]
  /\ request = [r \in Requests |-> Unused]
  /\ cached = {}
  /\ listings = [k \in Keys |-> 0]
  /\ rows = [k \in Keys |-> 0]
  /\ online = TRUE
  /\ session = First
  /\ faults = 0
  /\ discarded = {}
  /\ queuedEver = {}
  /\ excused = {}

AddOne(n) == IF n = 2 THEN 2 ELSE n + 1

-----------------------------------------------------------------------------
(* The queue in localStorage.                                              *)

InFlight(t) == IF sending[t] = NoRequest THEN 0 ELSE request[sending[t]].key

\* What tab t reads: another tab's `syncing` looks like a closed tab's.
LoadQueue(t) ==
  [i \in 1..Len(queue) |->
     IF queue[i].status = "syncing" /\ queue[i].key # InFlight(t)
     THEN [queue[i] EXCEPT !.status = "pending"] ELSE queue[i]]

Queued(k) == \E i \in 1..Len(queue) : queue[i].key = k

Removed(q, k) == SelectSeq(q, LAMBDA o : o.key # k)

Updated(q, k, status, retryable) ==
  [i \in 1..Len(q) |->
     IF q[i].key = k THEN [q[i] EXCEPT !.status = status, !.retryable = retryable] ELSE q[i]]

Retryable(q, k) == \E i \in 1..Len(q) : q[i].key = k /\ q[i].retryable

Enqueue(t, k) ==
  /\ queue' = IF Queued(k) THEN queue
              ELSE Append(LoadQueue(t), [key |-> k, status |-> "pending", retryable |-> TRUE])
  /\ queuedEver' = queuedEver \cup {k}

\* The orders a run takes when it starts: those worth sending, or the one retried.
Candidates(t) ==
  LET only == flush[t].only
      q == SelectSeq(LoadQueue(t), LAMBDA o :
             IF only # 0 THEN o.key = only
             ELSE o.status = "pending" \/ (o.status = "failed" /\ o.retryable))
  IN  [i \in 1..Len(q) |-> q[i].key]

ToSend(t) == IF flush[t].state = "start" THEN Candidates(t) ELSE flush[t].todo

-----------------------------------------------------------------------------
(* Requests, as their client sees them.                                    *)

Awaited(r) == \E t \in Tabs : r \in {page[t], sending[t]}

\* The fetch of an order; offline it fails at once.
Issue(r, k) ==
  /\ request[r].step = "free"
  /\ request' = [request EXCEPT ![r] =
       [key |-> k, by |-> session, step |-> IF online THEN "sent" ELSE "network"]]

Free(r) == [request EXCEPT ![r] = Unused]

\* The server answers; nobody may be waiting any more.
Finish(r, answer) ==
  request' = IF Awaited(r) THEN [request EXCEPT ![r].step = answer] ELSE Free(r)

-----------------------------------------------------------------------------
(* The page and the hook, in tab t.                                        *)

\* handleSubmit: one new key per submit; offline the order is queued at once.
Submit(t) ==
  /\ submitted < MaxOrders                                 \* bound
  /\ page[t] = NoRequest
  /\ session # None
  /\ submitted' = submitted + 1
  /\ IF online
     THEN /\ \E r \in Requests : /\ Issue(r, submitted + 1)
                                 /\ page' = [page EXCEPT ![t] = r]
          /\ UNCHANGED <<queue, queuedEver>>
     ELSE Enqueue(t, submitted + 1) /\ UNCHANGED <<page, request>>
  /\ UNCHANGED <<flush, retries, sending, server, online, session, faults,
                 discarded, excused>>

\* The form's own request is answered: only a request without an answer is queued.
SubmitAnswered(t) ==
  LET r == page[t]
  IN  /\ r # NoRequest
      /\ request[r].step \in Answers
      /\ page' = [page EXCEPT ![t] = NoRequest]
      /\ request' = Free(r)
      /\ IF request[r].step = "network" THEN Enqueue(t, request[r].key)
                                        ELSE UNCHANGED <<queue, queuedEver>>
      /\ UNCHANGED <<submitted, flush, retries, sending, server, online, session,
                     faults, discarded, excused>>

\* The `online` event: a tab whose run is still going joins that run.
GoOnline ==
  /\ ~online
  /\ online' = TRUE
  /\ flush' = [t \in Tabs |-> IF flush[t] = Idle THEN Start(0) ELSE flush[t]]
  /\ UNCHANGED <<submitted, queue, page, retries, sending, request, server, session,
                 faults, history>>

GoOffline ==
  /\ online
  /\ online' = FALSE
  /\ UNCHANGED <<submitted, browser, request, server, session, faults, history>>

\* A Retry click, for any order that is not being sent; it waits for `current`.
Retry(t, k) ==
  /\ online
  /\ \E i \in 1..Len(queue) : LoadQueue(t)[i].key = k /\ LoadQueue(t)[i].status # "syncing"
  /\ IF flush[t] = Idle
     THEN flush' = [flush EXCEPT ![t] = Start(k)] /\ UNCHANGED retries
     ELSE /\ \A u \in Tabs : retries[u] = << >>           \* bound
          /\ retries' = [retries EXCEPT ![t] = Append(@, k)]
          /\ UNCHANGED flush
  /\ UNCHANGED <<submitted, queue, page, sending, request, server, online, session, faults,
                 history>>

Discard(t, k) ==
  /\ \E i \in 1..Len(queue) : LoadQueue(t)[i].key = k /\ LoadQueue(t)[i].status # "syncing"
  /\ queue' = Removed(LoadQueue(t), k)
  /\ discarded' = discarded \cup {k}
  /\ UNCHANGED <<submitted, page, flush, retries, sending, request, server, online,
                 session, faults, queuedEver, excused>>

\* doFlush sends its next candidate, whatever became of it since the run started.
SendNext(t) ==
  LET k == Head(ToSend(t))
  IN  /\ flush[t] # Idle
      /\ sending[t] = NoRequest
      /\ ToSend(t) # << >>
      /\ session # None
      /\ \E r \in Requests : Issue(r, k) /\ sending' = [sending EXCEPT ![t] = r]
      /\ queue' = Updated(LoadQueue(t), k, "syncing", Retryable(queue, k))
      /\ flush' = [flush EXCEPT ![t] = [@ EXCEPT !.state = "run", !.todo = Tail(ToSend(t))]]
      /\ UNCHANGED <<submitted, page, retries, server, online, session, faults, history>>

\* The queue after the answer to order k: a 401 leaves it waiting, a 4xx waits for
\* a Retry, everything else is tried again.
AfterAnswer_DropsRejected(q, k, answer) ==
  CASE answer \in {"ok", "rejected"} -> Removed(q, k)
    [] answer = "unauthorized"       -> Updated(q, k, "pending", Retryable(q, k))
    [] OTHER                         -> Updated(q, k, "failed", TRUE)

AfterAnswer(q, k, answer) ==
  CASE answer = "ok"           -> Removed(q, k)
    [] answer = "unauthorized" -> Updated(q, k, "pending", Retryable(q, k))
    [] OTHER                   -> Updated(q, k, "failed", answer # "rejected")

FlushAnswered(t) ==
  LET r == sending[t]
      answer == request[r].step
  IN  /\ r # NoRequest
      /\ answer \in Answers
      /\ queue' = AfterAnswer(LoadQueue(t), request[r].key, answer)
      /\ flush' = IF answer = "unauthorized" THEN [flush EXCEPT ![t].todo = << >>] ELSE flush
      /\ sending' = [sending EXCEPT ![t] = NoRequest]
      /\ request' = Free(r)
      /\ UNCHANGED <<submitted, page, retries, server, online, session, faults, history>>

\* The run is over; the Retry that waits for it runs next, on the queue as it is now.
EndFlush(t) ==
  /\ flush[t] # Idle
  /\ sending[t] = NoRequest
  /\ ToSend(t) = << >> \/ session = None
  /\ flush' = [flush EXCEPT ![t] = IF retries[t] = << >> THEN Idle ELSE Start(Head(retries[t]))]
  /\ retries' = [retries EXCEPT ![t] = IF @ = << >> THEN @ ELSE Tail(@)]
  /\ UNCHANGED <<submitted, queue, page, sending, request, server, online, session, faults,
                 history>>

\* A reload: the tab's memory is gone and its requests are nobody's; the hook
\* flushes on mount.
Reload(t) ==
  /\ faults < MaxFaults                                    \* bound
  /\ faults' = faults + 1
  /\ page' = [page EXCEPT ![t] = NoRequest]
  /\ sending' = [sending EXCEPT ![t] = NoRequest]
  /\ retries' = [retries EXCEPT ![t] = << >>]
  /\ flush' = [flush EXCEPT ![t] = IF online /\ queue # << >> THEN Start(0) ELSE Idle]
  /\ request' = [r \in Requests |->
       IF r \in {page[t], sending[t]} /\ request[r].step \in Answers
       THEN Unused ELSE request[r]]
  /\ UNCHANGED <<submitted, queue, server, online, session, history>>

\* A fetch fails: the request is lost on its way, or the server goes on with it.
LoseAnswer(t) ==
  \E r \in {page[t], sending[t]} \ {NoRequest}, q \in Requests \cup {NoRequest} :
    /\ faults < MaxFaults                                  \* bound
    /\ faults' = faults + 1
    /\ request[r].step \in Running
    /\ IF q = NoRequest
       THEN request[r].step = "sent" /\ request' = [request EXCEPT ![r].step = "network"]
       ELSE /\ request[q].step = "free"
            /\ request' = [request EXCEPT ![r].step = "network", ![q] = request[r]]
    /\ UNCHANGED <<submitted, browser, server, online, session, history>>

\* The token expires, is removed, or comes back with a sign-in, by whoever it is: the queue
\* stays in the browser.
ChangeSession ==
  /\ \/ session \in Sellers /\ session' \in {Expired, None} /\ UNCHANGED faults
     \/ session \notin Sellers /\ session' = First /\ UNCHANGED faults
     \/ session \notin Sellers /\ session' \in Sellers \ {First}
        /\ faults < MaxFaults /\ faults' = faults + 1      \* bound
  /\ UNCHANGED <<submitted, browser, request, server, online, history>>

-----------------------------------------------------------------------------
(* POST /trades, in request r.                                             *)

At(r, step) == request[r].step = step
Advance(r, step) == request' = [request EXCEPT ![r].step = step]

\* Another request for the same order is between its look at the cache and its
\* own entry there.
Overlapped(r) ==
  \E q \in Requests \ {r} : /\ request[q].key = request[r].key
                            /\ request[q].step \in Running \ {"sent"}

\* The token is not, or no longer, that of a session.
Refused(r) == request[r].by # session \/ request[r].by = Expired

IsCached(r) == <<request[r].by, request[r].key>> \in cached

\* What keeps the idempotency key of request r from working: another request that overlaps
\* it, or an answer in the cache that is another seller's.
Excusing(r) ==
  IF Overlapped(r) \/ \E s \in Sellers \ {request[r].by} : <<s, request[r].key>> \in cached
  THEN {request[r].key} ELSE {}

\* The token, the cached answer, of that seller, and the KYC gate, in this order.
Check_Uncached(r) ==
  /\ At(r, "sent")
  /\ \/ Refused(r) /\ Finish(r, "unauthorized") /\ UNCHANGED excused
     \/ request[r].by \in Sellers /\ Finish(r, "rejected") /\ UNCHANGED excused
     \/ request[r].by \in Sellers /\ Advance(r, "checked") /\ excused' = excused \cup Excusing(r)
  /\ UNCHANGED <<submitted, browser, server, online, session, faults, discarded, queuedEver>>

Check(r) ==
  /\ At(r, "sent")
  /\ \/ Refused(r) /\ Finish(r, "unauthorized") /\ UNCHANGED excused
     \/ IsCached(r) /\ Finish(r, "ok") /\ UNCHANGED excused
     \/ /\ request[r].by \in Sellers /\ ~IsCached(r)
        /\ \/ Finish(r, "rejected") /\ UNCHANGED excused
           \/ Advance(r, "checked") /\ excused' = excused \cup Excusing(r)
  /\ UNCHANGED <<submitted, browser, server, online, session, faults, discarded, queuedEver>>

\* createListing, whose error may hide a listing that landed.
List(r) ==
  LET k == request[r].key
  IN  /\ At(r, "checked")
      /\ \/ Advance(r, "listed") /\ UNCHANGED <<faults, excused>>
         \/ faults < MaxFaults /\ faults' = faults + 1     \* bound
            /\ Finish(r, "error") /\ excused' = excused \cup {k}
      /\ listings' = [listings EXCEPT ![k] = AddOne(@)]
      /\ UNCHANGED <<submitted, browser, cached, rows, online, session, discarded, queuedEver>>

ListFails(r) ==
  /\ At(r, "checked")
  /\ Finish(r, "error")
  /\ UNCHANGED <<submitted, browser, server, online, session, faults, history>>

Insert(r) ==
  LET k == request[r].key
  IN  /\ At(r, "listed")
      /\ \/ /\ Advance(r, "inserted")
            /\ rows' = [rows EXCEPT ![k] = AddOne(@)]
            /\ UNCHANGED <<faults, excused>>
         \/ /\ faults < MaxFaults /\ faults' = faults + 1  \* bound
            /\ Finish(r, "error")
            /\ excused' = excused \cup {k}
            /\ UNCHANGED rows
      /\ UNCHANGED <<submitted, browser, cached, listings, online, session, discarded, queuedEver>>

Respond(r) ==
  /\ At(r, "inserted")
  /\ cached' = cached \cup {<<request[r].by, request[r].key>>}
  /\ Finish(r, "ok")
  /\ UNCHANGED <<submitted, browser, listings, rows, online, session, faults, history>>

\* 24 hours later.
ExpireKey(s, k) ==
  /\ <<s, k>> \in cached
  /\ faults < MaxFaults                                    \* bound
  /\ faults' = faults + 1
  /\ cached' = cached \ {<<s, k>>}
  /\ excused' = excused \cup {k}
  /\ UNCHANGED <<submitted, browser, request, listings, rows, online, session, discarded,
                 queuedEver>>

\* The server restarts: requests end without an answer; the cache is lost unless
\* it is in Redis.
Crash ==
  /\ faults < MaxFaults                                    \* bound
  /\ faults' = faults + 1
  /\ \E lost \in {{}, cached} :
       /\ cached' = cached \ lost
       /\ excused' = excused \cup {entry[2] : entry \in lost} \cup
            {request[r].key : r \in {q \in Requests : request[q].step \in {"listed", "inserted"}}}
  /\ request' = [r \in Requests |->
       IF request[r].step \notin Running THEN request[r]
       ELSE IF Awaited(r) THEN [request[r] EXCEPT !.step = "network"]
       ELSE Unused]
  /\ UNCHANGED <<submitted, browser, listings, rows, online, session, discarded, queuedEver>>

-----------------------------------------------------------------------------
TabStep(t) == Submit(t) \/ SubmitAnswered(t) \/ SendNext(t) \/ FlushAnswered(t) \/ EndFlush(t)

ServerStep(r) == Check(r) \/ List(r) \/ ListFails(r) \/ Insert(r) \/ Respond(r)

Next ==
  \/ \E t \in Tabs : TabStep(t)
  \/ \E t \in Tabs, k \in Keys : Retry(t, k) \/ Discard(t, k)
  \/ GoOnline \/ GoOffline \/ ChangeSession
  \/ \E r \in Requests : ServerStep(r)
  \/ \E t \in Tabs : Reload(t) \/ LoseAnswer(t)
  \/ \E s \in Sellers, k \in Keys : ExpireKey(s, k)
  \/ Crash

Spec == Init /\ [][Next]_vars

-----------------------------------------------------------------------------
(* Properties.                                                             *)

\* The queue holds each order once, and a tab sends only while it flushes.
TypeOK ==
  /\ queue \in Seq(QueuedSellOrder)
  /\ \A i, j \in 1..Len(queue) : queue[i].key = queue[j].key => i = j
  /\ page \in [Tabs -> Requests \cup {NoRequest}]
  /\ flush \in [Tabs -> Flush]
  /\ retries \in [Tabs -> Seq(Keys)]
  /\ sending \in [Tabs -> Requests \cup {NoRequest}]
  /\ \A t \in Tabs : sending[t] # NoRequest => flush[t].state = "run"
  /\ request \in [Requests -> [key : {0} \cup Keys, by : Sellers \cup {Expired, None},
                                step : {"free"} \cup Running \cup Answers]]
  /\ cached \subseteq Sellers \X Keys
  /\ listings \in [Keys -> Count]
  /\ rows \in [Keys -> Count]

\* An order that was queued and not discarded is in the queue until it is in the table, as a
\* trade of whoever was signed in when it went out: no order of answers, restarts, reloads
\* and other tabs' writes loses it.
NoOrderLost ==
  \A k \in queuedEver \ discarded : Queued(k) \/ rows[k] > 0

\* The idempotency key works, for one seller: an order is listed twice only if two of its
\* requests overlapped in the server, or one stopped between the listing and the cache
\* entry, or the entry was lost, or it went out again with another seller's token, for
\* which the answer in the cache does not count.
DuplicatesHaveACause ==
  \A k \in Keys : listings[k] > 1 => k \in excused

=============================================================================
