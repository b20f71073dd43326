------------------------------ MODULE TradeHistory ------------------------------
(***************************************************************************)
(* A user's trades, page after page, on two pages:                         *)
(*   frontend/app/profile/page.tsx ("profile", with a filter),             *)
(*   frontend/app/wallet/page.tsx, TransactionHistory.tsx ("wallet"),       *)
(*   server/src/routes/profile.ts GET /trades                              *)
(*                                                                         *)
(* One of the pages is open.  Other tabs share its localStorage: a user     *)
(* signs in or out there, which the page learns when it reads the token     *)
(* again.  The trades come and go between the statement that reads a page   *)
(* of them and the one that counts them, so an answer has rows or none, and *)
(* any count.  Left out: the cards of the profile and of the balance.       *)
(* Name_Variant is Name with a plausible mistake in it, as in Escrow.      *)
(***************************************************************************)
EXTENDS Naturals

CONSTANTS
  Users, NoUser,
  Filters, All,     \* All is no filter
  MaxPages          \* bound

Parameters == NoUser \notin Users /\ All \in Filters /\ MaxPages \in Nat \ {0}

VARIABLES
  token,      \* whose token localStorage has
  view        \* the page's state

vars == <<token, view>>

NoRows == [user |-> NoUser, filter |-> All, page |-> 0, some |-> FALSE, total |-> 0]

\* The guard and the first request of a page that opens; `switched`, that the token has
\* changed since, and `failed`, that the last request did, are for the properties.
Opened(route, u) ==
  [route |-> route, user |-> u, filter |-> All, page |-> 1, totalPages |-> 1,
   trades |-> NoRows, asked |-> [NoRows EXCEPT !.user = u, !.page = 1], loading |-> TRUE,
   error |-> FALSE, counted |-> 0, switched |-> FALSE, failed |-> FALSE]

Init ==
  /\ token \in Users
  /\ \E route \in {"profile", "wallet"} : view = Opened(route, token)

\* Without a token the guard leads to the sign-in.
Open ==
  /\ token # NoUser
  /\ \E route \in {"profile", "wallet"} : view' = Opened(route, token)
  /\ UNCHANGED token

\* saveToken or clearToken, in another tab.
SignIn(u) ==
  /\ u # token
  /\ token' = u
  /\ view' = [view EXCEPT !.switched = TRUE]

-----------------------------------------------------------------------------
(* fetchTrades: without a token it returns before anything is set.         *)

FetchTrades(v) ==
  IF token = NoUser THEN v
  ELSE [v EXCEPT !.loading = TRUE, !.error = FALSE,
                 !.asked = [NoRows EXCEPT !.user = token, !.filter = v.filter, !.page = v.page]]

\* GET /profile/trades: a page of the rows, then their count.
Answer(some, total) == [view.asked EXCEPT !.some = some, !.total = total]

\* The wallet takes no answer for one without rows, and forgets what it had.
TradesShown ==
  /\ view.loading
  /\ \E some \in BOOLEAN, total \in 0..MaxPages :
       view' = [view EXCEPT !.trades = Answer(some, total), !.loading = FALSE, !.failed = FALSE,
                            !.counted = total,
                            !.totalPages = IF view.route = "wallet" /\ total = 0
                                           THEN 1 ELSE total]
  /\ UNCHANGED token

\* The profile shows an error instead of its rows.
TradesRefused ==
  /\ view.loading
  /\ view' = [view EXCEPT !.loading = FALSE, !.failed = TRUE,
                          !.error = view.route = "profile",
                          !.trades = IF view.route = "wallet" THEN NoRows ELSE @]
  /\ UNCHANGED token

-----------------------------------------------------------------------------
(* What is shown, and which controls there are.                            *)

\* The profile replaces its section by a skeleton, controls and all; the wallet keeps the
\* rows it had.
Shows ==
  IF view.loading /\ (view.route = "profile" \/ ~view.trades.some) THEN "loading"
  ELSE IF view.error THEN "error"
  ELSE IF view.trades.some THEN "list" ELSE "empty"

\* The profile has page numbers only beside rows; the wallet, while a count is known.
HasPages ==
  IF view.route = "profile" THEN Shows = "list" /\ view.totalPages > 1
                            ELSE ~view.loading /\ view.counted > 0

Retry ==
  /\ Shows = "error"
  /\ view' = FetchTrades(view)
  /\ UNCHANGED token

\* The effect does not depend on the filter.
HandleFilterChange_SamePage(f) ==
  /\ view.route = "profile" /\ Shows # "loading"
  /\ f # view.filter
  /\ view' = IF view.page = 1 THEN [view EXCEPT !.filter = f]
                              ELSE FetchTrades([view EXCEPT !.filter = f, !.page = 1])
  /\ UNCHANGED token

HandleFilterChange(f) ==
  /\ view.route = "profile" /\ Shows # "loading"
  /\ f # view.filter \/ view.page # 1
  /\ view' = FetchTrades([view EXCEPT !.filter = f, !.page = 1])
  /\ UNCHANGED token

Turn(n) ==
  /\ HasPages
  /\ \/ n = view.page - 1 /\ n >= 1
     \/ n = view.page + 1 /\ n <= view.totalPages
  /\ view' = FetchTrades([view EXCEPT !.page = n])
  /\ UNCHANGED token

Next ==
  \/ Open \/ TradesShown \/ TradesRefused \/ Retry
  \/ \E u \in Users \cup {NoUser} : SignIn(u)
  \/ \E f \in Filters : HandleFilterChange(f)
  \/ \E n \in 1..MaxPages : Turn(n)

Spec == Init /\ [][Next]_vars

-----------------------------------------------------------------------------
(* Properties.                                                             *)

Rows ==
  [user : Users \cup {NoUser}, filter : Filters, page : 0..MaxPages, some : BOOLEAN,
   total : 0..MaxPages]

Views ==
  [route : {"profile", "wallet"}, user : Users, filter : Filters, page : 1..MaxPages,
   totalPages : 0..MaxPages, trades : Rows, asked : Rows, loading : BOOLEAN, error : BOOLEAN,
   counted : 0..MaxPages, switched : BOOLEAN, failed : BOOLEAN]

\* Every state and answer has the type its declaration gives it.
TypeOK ==
  /\ token \in Users \cup {NoUser}
  /\ view \in Views

\* The rows shown are those of the filter and of the page that are pressed, of the user the
\* page was opened for, unless someone signed in or out in another tab; and the count
\* beside them came with them, unless the last request failed.
HistoryIsOfFilter ==
  ~view.switched /\ ~view.loading /\ ~view.failed
    => /\ view.trades.filter = view.filter /\ view.trades.page = view.page
       /\ view.trades.user = view.user /\ view.trades.total = view.counted

-----------------------------------------------------------------------------
(* The inductive invariant.                                                *)

\* What is awaited was asked for the filter and the page that are pressed, and a page that
\* was not switched is its user's.
AskedIsPressed ==
  /\ view.loading => view.asked.filter = view.filter /\ view.asked.page = view.page
  /\ ~view.switched => token = view.user /\ (view.loading => view.asked.user = view.user)

IInv == TypeOK /\ AskedIsPressed /\ HistoryIsOfFilter

=============================================================================
