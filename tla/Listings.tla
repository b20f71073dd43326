-------------------------------- MODULE Listings --------------------------------
(***************************************************************************)
(* The lists of active offers a visitor browses:                           *)
(*   frontend/hooks/useTradeList.ts with app/components/ListingsGrid.tsx    *)
(*     (the home page: a cache and shared promises),                       *)
(*   frontend/components/MarketplaceListings.tsx (the page /trades: a       *)
(*     request per change of a filter),                                    *)
(*   server/src/routes/trades.ts GET /.                                    *)
(*                                                                         *)
(* The filters of a page are one value; an answer says of which filter it  *)
(* is and whether it lists anything.  Going from one page to the other      *)
(* keeps the module's cache, a reload does not.  A promise's continuations *)
(* run before anything else, so an answer and what its waiters do are one   *)
(* step.  Left out: cards, totals, the page number (always 1).             *)
(* Name_Variant is Name with a plausible mistake in it, as in Escrow.      *)
(***************************************************************************)
EXTENDS Naturals, Functions

CONSTANTS
  Filters, All,   \* All is no filter
  NoAnswer,
  MaxRequests     \* bound: requests under way at a time

Parameters == All \in Filters /\ NoAnswer \notin Filters /\ MaxRequests \in Nat \ {0}

VARIABLES
  cacheMap,   \* per filter, the last answer and whether CACHE_TTL_MS have not passed
  inFlight,   \* inFlightPromises: per filter
  requests,   \* per page and filter, how many are under way
  view        \* the page and its state

vars == <<cacheMap, inFlight, requests, view>>

Pages == {"home", "trades"}

NoRows == [of |-> NoAnswer, some |-> FALSE]

\* `waiting` is the filters for which a fetchData of this mount awaits a promise; `late`,
\* that the last answer shown was not of the filter then chosen, is for the properties.
Mounted(page, f) ==
  [page |-> page, filter |-> f, rows |-> NoRows, loading |-> TRUE, error |-> FALSE,
   waiting |-> {}, late |-> FALSE]

-----------------------------------------------------------------------------
(* Requests: GET /api/v1/trades.                                           *)

UnderWay(page) == {f \in Filters : requests[page][f] > 0}

Issue(page, f) ==
  /\ FoldFunction(+, 0, requests[page]) < MaxRequests
  /\ requests' = [requests EXCEPT ![page][f] = @ + 1]

\* One is answered, whichever was sent first.
Answered(page, f) ==
  /\ requests[page][f] > 0
  /\ requests' = [requests EXCEPT ![page][f] = @ - 1]

\* Which offers are active at that time is anybody's guess.
AnswerFor(f) == [of : {f}, some : BOOLEAN]

Awaited(v) == IF v.page = "home" THEN v.waiting ELSE UnderWay("trades")

\* The list is replaced by what the answer, or the cache, has for f.
Shown(v, f, rows) ==
  [v EXCEPT !.rows = rows, !.loading = FALSE, !.late = f # v.filter]

-----------------------------------------------------------------------------
(* useTradeList: fetchData, from the page v.                               *)

ShowCached(v, f) ==
  /\ view' = [Shown(v, f, cacheMap[f].rows) EXCEPT !.error = FALSE]
  /\ UNCHANGED <<inFlight, requests>>

Cleared(v, f, isRefetch) ==
  [v EXCEPT !.loading = @ \/ (~isRefetch /\ cacheMap[f].rows = NoRows /\ ~v.rows.some),
            !.error = FALSE]

Await_OwnRequest(v, f) ==
  /\ Issue("home", f)
  /\ inFlight' = [inFlight EXCEPT ![f] = "pending"]
  /\ view' = [v EXCEPT !.waiting = @ \cup {f}]

\* A promise that was rejected stays in the map: all three attempts await it, and fail.
Await(v, f) ==
  \/ /\ inFlight[f] = "rejected"
     /\ view' = [v EXCEPT !.loading = FALSE, !.error = TRUE]
     /\ UNCHANGED <<inFlight, requests>>
  \/ /\ inFlight[f] = "pending"
     /\ view' = [v EXCEPT !.waiting = @ \cup {f}]
     /\ UNCHANGED <<inFlight, requests>>
  \/ /\ inFlight[f] = "none"
     /\ Issue("home", f)
     /\ inFlight' = [inFlight EXCEPT ![f] = "pending"]
     /\ view' = [v EXCEPT !.waiting = @ \cup {f}]

FetchData(v, f, isRefetch) ==
  IF ~isRefetch /\ cacheMap[f].fresh THEN ShowCached(v, f)
  ELSE Await(Cleared(v, f, isRefetch), f)

\* setInterval, every 30 s.
Refresh ==
  /\ view.page = "home"
  /\ FetchData(view, view.filter, TRUE)
  /\ UNCHANGED cacheMap

\* isMounted is true again when the next filter's effect has run: an answer is shown
\* whichever filter it was for.
Resolved(f) ==
  \E rows \in AnswerFor(f) :
    /\ Answered("home", f)
    /\ cacheMap' = [cacheMap EXCEPT ![f] = [rows |-> rows, fresh |-> TRUE]]
    /\ inFlight' = [inFlight EXCEPT ![f] = "none"]
    /\ view' = IF f \in view.waiting
               THEN [Shown(view, f, rows) EXCEPT !.waiting = @ \ {f}]
               ELSE view

Rejected(f) ==
  /\ Answered("home", f)
  /\ inFlight' = [inFlight EXCEPT ![f] = "rejected"]
  /\ view' = IF f \in view.waiting
             THEN [view EXCEPT !.loading = FALSE, !.error = TRUE, !.waiting = @ \ {f}]
             ELSE view
  /\ UNCHANGED cacheMap

ExpireCache(f) ==
  /\ cacheMap[f].fresh
  /\ cacheMap' = [cacheMap EXCEPT ![f].fresh = FALSE]
  /\ UNCHANGED <<inFlight, requests, view>>

-----------------------------------------------------------------------------
(* MarketplaceListings.                                                    *)

FetchListings(v, f) ==
  /\ Issue("trades", f)
  /\ view' = [v EXCEPT !.loading = TRUE, !.error = FALSE]
  /\ UNCHANGED inFlight

Listed(f) ==
  /\ Answered("trades", f)
  /\ \E rows \in AnswerFor(f) : view' = Shown(view, f, rows)
  /\ UNCHANGED <<cacheMap, inFlight>>

NotListed(f) ==
  /\ Answered("trades", f)
  /\ view' = [view EXCEPT !.loading = FALSE, !.error = TRUE]
  /\ UNCHANGED <<cacheMap, inFlight>>

-----------------------------------------------------------------------------
(* The visitor.                                                            *)

\* The effect depends on nothing: it runs when the page is mounted.
Choose_NoFetch(f) ==
  /\ f # view.filter
  /\ view' = [view EXCEPT !.filter = f]
  /\ UNCHANGED <<cacheMap, inFlight, requests>>

\* Another filter, by a button, a field, or "Clear filters".
Choose(f) ==
  LET v == [view EXCEPT !.filter = f] IN
  /\ f # view.filter
  /\ IF view.page = "home" THEN FetchData(v, f, FALSE) ELSE FetchListings(v, f)
  /\ UNCHANGED cacheMap

\* To the other page, in the application.  The home page starts without a filter, /trades
\* with the one in its address.  (/trades is left when its requests are answered: to later
\* answers nothing listens.)
Visit(f) ==
  /\ \/ view.page = "trades" /\ Awaited(view) = {} /\ f = All
        /\ FetchData(Mounted("home", f), f, FALSE)
     \/ view.page = "home" /\ FetchListings(Mounted("trades", f), f)
  /\ UNCHANGED cacheMap

\* By its address, or again: nothing is left but the first request.
Loaded(page, f) ==
  [cacheMap |-> [g \in Filters |-> [rows |-> NoRows, fresh |-> FALSE]],
   inFlight |-> [g \in Filters |-> IF page = "home" /\ g = f THEN "pending" ELSE "none"],
   requests |-> [p \in Pages |-> [g \in Filters |-> IF p = page /\ g = f THEN 1 ELSE 0]],
   view     |-> [Mounted(page, f) EXCEPT !.waiting = IF page = "home" THEN {f} ELSE {}]]

Load(page, f) ==
  LET s == Loaded(page, f) IN
  /\ page = "home" => f = All
  /\ cacheMap' = s.cacheMap /\ inFlight' = s.inFlight /\ requests' = s.requests /\ view' = s.view

Init ==
  LET s == Loaded("home", All) IN
  /\ cacheMap = s.cacheMap /\ inFlight = s.inFlight /\ requests = s.requests /\ view = s.view

Next ==
  \/ Refresh
  \/ \E f \in Filters :
       \/ Resolved(f) \/ Rejected(f) \/ Listed(f) \/ NotListed(f)
       \/ ExpireCache(f) \/ Choose(f) \/ Visit(f)
       \/ \E page \in Pages : Load(page, f)

Spec == Init /\ [][Next]_vars

-----------------------------------------------------------------------------
(* Properties.                                                             *)

Rows  == [of : Filters \cup {NoAnswer}, some : BOOLEAN]
Views ==
  [page : Pages, filter : Filters, rows : Rows, loading : BOOLEAN, error : BOOLEAN,
   waiting : SUBSET Filters, late : BOOLEAN]

\* Every cache entry, request and page state has the type its declaration gives it.
TypeOK ==
  /\ cacheMap \in [Filters -> [rows : Rows, fresh : BOOLEAN]]
  /\ inFlight \in [Filters -> {"none", "pending", "rejected"}]
  /\ requests \in [Pages -> [Filters -> 0..MaxRequests]]
  /\ view \in Views

\* What a page renders.
Shows ==
  IF view.error THEN "error"
  ELSE IF view.loading THEN "skeletons"
  ELSE IF view.rows.some THEN "list" ELSE "empty"

\* useTradeList.ts: however often the page is mounted, refreshed and filtered, the home page
\* has one request per filter under way, and what the cache has for a filter is of that filter.
OneRequestPerFilter ==
  \A f \in Filters :
    /\ requests["home"][f] <= 1
    /\ cacheMap[f].rows.of \in {f, NoAnswer}

\* Offers of another filter are shown while those of the chosen one are awaited, and for one
\* other reason only: the last answer to come was to a request for a filter since changed,
\* which neither page discards (useTradeList.ts:140-148, MarketplaceListings.tsx:204-209).
\* A change of filter, a cached answer, a refresh or a failure never leaves them there.
ShownIsOfFilter ==
  Shows = "list" /\ view.rows.of # view.filter => view.late \/ view.filter \in Awaited(view)

\* Skeletons are replaced when the awaited answer comes; and the page /trades shows
\* "no listings" only for a successful answer (MarketplaceListings.tsx:273).
SpinnersEnd ==
  /\ Shows = "skeletons" => Awaited(view) # {}
  /\ view.page = "trades" /\ Shows = "empty" => view.rows.of # NoAnswer

-----------------------------------------------------------------------------
(* The inductive invariant.                                                *)

\* TypeOK without its bound.
Typed ==
  /\ cacheMap \in [Filters -> [rows : Rows, fresh : BOOLEAN]]
  /\ inFlight \in [Filters -> {"none", "pending", "rejected"}]
  /\ requests \in [Pages -> [Filters -> Nat]]
  /\ view \in Views

\* A request of the home page is a pending promise, and one of /trades is of that page.
RequestsAreCounted ==
  /\ \A f \in Filters : requests["home"][f] = IF inFlight[f] = "pending" THEN 1 ELSE 0
  /\ view.page = "home" => UnderWay("trades") = {}
  /\ \A f \in view.waiting : view.page = "home" /\ inFlight[f] = "pending"

CacheIsOfFilter ==
  \A f \in Filters : /\ cacheMap[f].rows.of \in {f, NoAnswer}
                     /\ cacheMap[f].fresh => cacheMap[f].rows.of = f

\* What is shown, whatever hides it, is of the page's filter, or its answer is awaited, or
\* failed, or was overtaken by the one that is shown.
AwaitedIsOfFilter ==
  /\ view.rows.some /\ view.rows.of # view.filter
       => view.late \/ view.error \/ view.filter \in Awaited(view)
  /\ view.loading /\ ~view.error => Awaited(view) # {}
  /\ view.page = "trades" /\ ~view.error /\ ~view.loading => view.rows.of # NoAnswer

IInv == Typed /\ RequestsAreCounted /\ CacheIsOfFilter /\ AwaitedIsOfFilter

=============================================================================
