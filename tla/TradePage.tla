------------------------------- MODULE TradePage -------------------------------
(***************************************************************************)
(* Buying and disputing one trade from browser tabs that share a sign-in:  *)
(*   frontend/app/trades/[id]/TradeDetailClient.tsx, DisputeModal.tsx      *)
(*   frontend/app/lib/{auth,signing,stellarSession}.ts, lib/apiFetch.ts    *)
(*   server/src/routes/trades.ts, wallet.ts (unlock), stellar.ts           *)
(*                                                                         *)
(* The sign-in is in localStorage, one for all tabs; the signing key and    *)
(* what the page shows are each tab's own, as old as its last load; every   *)
(* request carries the token that is stored when it is sent.               *)
(*                                                                         *)
(* Left out: texts, toasts, the countdown (a click is refused), ratings and *)
(* what Trade models, the trade's other operations; Submission has the      *)
(* deposit.                                                                *)
(* A tab sends its next request after the server is done with its last one, *)
(* reloaded or not (bound).                                                *)
(* Name_Variant is Name with a plausible mistake in it, as in Escrow.      *)
(***************************************************************************)
EXTENDS Naturals

CONSTANTS
  Users,    \* each with one Stellar account
  Seller,
  None,     \* nobody
  Tabs

Parameters == Seller \in Users /\ None \notin Users

VARIABLES
  token,      \* whose token localStorage holds
  tab,        \* what each tab shows and holds
  req,        \* the request each tab sent last, until its answer is read
  row,        \* the trade_offers row
  depositor   \* the account whose deposit the contract has

vars == <<token, tab, req, row, depositor>>

NoRequest == [op |-> "none", user |-> None, source |-> None, step |-> "sent", answer |-> "none"]

Away == [page |-> "away", user |-> None, status |-> "Active", key |-> None, step |-> "idle",
         source |-> None, confirmed |-> FALSE, dialog |-> "closed"]

\* The dispute dialog, by the reason in it.
Dialog == {"closed", "empty", "reasoned"}

Init ==
  /\ token = None
  /\ tab = [t \in Tabs |-> Away]
  /\ req = [t \in Tabs |-> NoRequest]
  /\ row = [status |-> "Active", buyer |-> None]
  /\ depositor = None

-----------------------------------------------------------------------------
(* Signing in and out, in any tab.                                         *)

\* handleSubmit of the page that verifies a one-time password.
SignIn(t, u) ==
  /\ tab[t].page = "away"
  /\ token' = u
  /\ UNCHANGED <<tab, req, row, depositor>>

\* handleLogout: the other tabs keep their keys and what they show.
SignOut(t) ==
  /\ token # None
  /\ token' = None
  /\ tab' = [tab EXCEPT ![t] = Away]
  /\ UNCHANGED <<req, row, depositor>>

\* A load of the page, which its middleware refuses to a browser with no session cookie.
Open(t) ==
  /\ tab' = [tab EXCEPT ![t] = IF token = None THEN Away
                               ELSE [Away EXCEPT !.page = "trade", !.user = token,
                                                 !.status = row.status]]
  /\ UNCHANGED <<token, req, row, depositor>>

-----------------------------------------------------------------------------
(* The page.                                                               *)

\* apiFetch.
Send(t, op, source) ==
  req' = [req EXCEPT ![t] = [NoRequest EXCEPT !.op = op, !.user = token, !.source = source]]

CanBuy(t) == tab[t].status = "Active" /\ tab[t].user # Seller

\* Those whom the page takes for the trade's parties; it shows the buyer the row had at the
\* load.
IsParticipant(t) == tab[t].user \in {Seller, row.buyer}

\* The buttons; a page that shows the purchase as confirmed shows nothing else.
Offered(t) ==
  IF tab[t].page = "away" \/ tab[t].confirmed THEN {}
  ELSE {what \in {"buy", "dispute"} :
          \/ what = "buy" /\ CanBuy(t)
          \/ what = "dispute" /\ tab[t].status = "Locked" /\ IsParticipant(t)}

\* handleBuy as far as its first request.
Buy(t) ==
  /\ "buy" \in Offered(t) /\ tab[t].step = "idle" /\ req[t] = NoRequest
  /\ IF token = None
     THEN tab' = [tab EXCEPT ![t] = Away] /\ UNCHANGED req
     ELSE tab' = [tab EXCEPT ![t].step = "prepare"] /\ Send(t, "prepare", None)
  /\ UNCHANGED <<token, row, depositor>>

OpenDispute(t) ==
  /\ "dispute" \in Offered(t) /\ tab[t].dialog = "closed"
  /\ tab' = [tab EXCEPT ![t].dialog = "empty"]
  /\ UNCHANGED <<token, req, row, depositor>>

\* handleReasonChange; the text may also be deleted again.
ChangeReason(t) ==
  /\ tab[t].dialog # "closed" /\ tab[t].step = "idle"
  /\ \E dialog \in Dialog \ {"closed", tab[t].dialog} : tab' = [tab EXCEPT ![t].dialog = dialog]
  /\ UNCHANGED <<token, req, row, depositor>>

\* handleClose, which does nothing while a dispute is being sent.
CloseDispute(t) ==
  /\ tab[t].dialog # "closed" /\ tab[t].step = "idle"
  /\ tab' = [tab EXCEPT ![t].dialog = "closed"]
  /\ UNCHANGED <<token, req, row, depositor>>

\* handleSubmit of the dialog, which wants a reason.
Dispute(t) ==
  /\ tab[t].dialog = "reasoned" /\ tab[t].step = "idle" /\ req[t] = NoRequest
  /\ tab' = [tab EXCEPT ![t].step = "dispute"]
  /\ Send(t, "dispute", None)
  /\ UNCHANGED <<token, row, depositor>>

\* The tab waits for the answer that has come.
Answered(t, step) == tab[t].step = step /\ req[t].answer # "none"

Idle(t) ==
  /\ tab' = [tab EXCEPT ![t].step = "idle", ![t].source = None]
  /\ req' = [req EXCEPT ![t] = NoRequest]

\* The end of signTransactionXdr: the key must be that of the envelope's account.
Sign(t, key, source) ==
  IF key = source
  THEN /\ tab' = [tab EXCEPT ![t].step = "buy", ![t].key = key, ![t].source = source]
       /\ Send(t, "buy", source)
  ELSE /\ tab' = [tab EXCEPT ![t].step = "idle", ![t].key = key, ![t].source = None]
       /\ req' = [req EXCEPT ![t] = NoRequest]

\* ensureSessionKey asks for a key only if the tab has none.
Prepared(t) ==
  /\ Answered(t, "prepare") /\ req[t].answer = "ok"
  /\ IF tab[t].key # None
     THEN Sign(t, tab[t].key, req[t].user)
     ELSE /\ tab' = [tab EXCEPT ![t].step = "unlock", ![t].source = req[t].user]
          /\ Send(t, "unlock", None)
  /\ UNCHANGED <<token, row, depositor>>

Unlocked(t) ==
  /\ Answered(t, "unlock") /\ req[t].answer = "ok"
  /\ Sign(t, req[t].user, tab[t].source)
  /\ UNCHANGED <<token, row, depositor>>

\* Once the purchase is confirmed the page shows nothing else.
Bought(t) ==
  /\ Answered(t, "buy") /\ req[t].answer = "ok"
  /\ tab' = [tab EXCEPT ![t].step = "idle", ![t].status = "Locked", ![t].confirmed = TRUE]
  /\ req' = [req EXCEPT ![t] = NoRequest]
  /\ UNCHANGED <<token, row, depositor>>

Disputed(t) ==
  /\ tab[t].step \in {"dispute", "dispute again"} /\ req[t].answer = "ok"
  /\ tab' = [tab EXCEPT ![t].step = "idle", ![t].status = "Disputed",
                         ![t].dialog = "closed"]
  /\ req' = [req EXCEPT ![t] = NoRequest]
  /\ UNCHANGED <<token, row, depositor>>

\* 401: apiFetch clears whatever token is stored by now and leaves the page.
SessionExpired(t) ==
  /\ tab[t].step # "idle" /\ req[t].answer = "401"
  /\ token' = None
  /\ tab' = [tab EXCEPT ![t] = Away]
  /\ req' = [req EXCEPT ![t] = NoRequest]
  /\ UNCHANGED <<row, depositor>>

\* Another error, or none came: an error is shown, in a dialog that stays open.  The dispute
\* is posted once more, to the server itself, if there was no answer from the route that
\* passes it on.
Failed(t) ==
  /\ tab[t].step # "idle" /\ req[t].answer \in {"error", "lost"}
  /\ IF tab[t].step = "dispute" /\ req[t].answer = "lost"
     THEN tab' = [tab EXCEPT ![t].step = "dispute again"] /\ Send(t, "dispute", None)
     ELSE Idle(t)
  /\ UNCHANGED <<token, row, depositor>>

\* The answer to a page that is gone.
Forget(t) ==
  /\ tab[t].step = "idle" /\ req[t].answer # "none"
  /\ req' = [req EXCEPT ![t] = NoRequest]
  /\ UNCHANGED <<token, tab, row, depositor>>

-----------------------------------------------------------------------------
(* The server.                                                             *)

Arrived(t, op, step) == req[t].op = op /\ req[t].step = step /\ req[t].answer = "none"

\* Of a request that failed nothing but that matters any more.
Answer(t, a) ==
  req' = [req EXCEPT ![t] = IF a = "ok" THEN [@ EXCEPT !.answer = "ok", !.step = "sent"]
                                        ELSE [NoRequest EXCEPT !.answer = a]]

\* Any request: the token is no longer good, the server fails or stops, or the connection
\* is lost.
Refuse(t) ==
  /\ req[t] # NoRequest /\ req[t].answer = "none"
  /\ \/ req[t].step = "sent" /\ Answer(t, "401")
     \/ Answer(t, "error")
     \/ Answer(t, "lost")
  /\ UNCHANGED <<token, tab, row, depositor>>

\* loadBuyableTrade.
Buyable(u) == row.status = "Active" /\ u \notin {Seller, None}

\* POST buy/prepare: the deposit is simulated for the account of the token's user.
Prepare(t) ==
  /\ Arrived(t, "prepare", "sent")
  /\ IF Buyable(req[t].user) /\ depositor = None THEN Answer(t, "ok") ELSE Answer(t, "error")
  /\ UNCHANGED <<token, tab, row, depositor>>

\* POST wallet/unlock.
Unlock(t) ==
  /\ Arrived(t, "unlock", "sent") /\ req[t].user # None
  /\ Answer(t, "ok")
  /\ UNCHANGED <<token, tab, row, depositor>>

\* submitSignedTransaction: the envelope's account must be that of the token's user.
SourceMatches_Any(r) == TRUE

SourceMatches(r) == r.source = r.user

\* POST buy as far as the transaction is sent.
CheckBuy(t) ==
  /\ Arrived(t, "buy", "sent")
  /\ IF Buyable(req[t].user) /\ SourceMatches(req[t])
     THEN req' = [req EXCEPT ![t].step = "checked"]
     ELSE Answer(t, "error")
  /\ UNCHANGED <<token, tab, row, depositor>>

\* The contract takes one deposit; the answer may be that it did not confirm in time.
Deposit(t) ==
  /\ Arrived(t, "buy", "checked")
  /\ IF depositor = None
     THEN /\ depositor' = req[t].source
          /\ \/ req' = [req EXCEPT ![t].step = "deposited"]
             \/ Answer(t, "error")
     ELSE Answer(t, "error") /\ UNCHANGED depositor
  /\ UNCHANGED <<token, tab, row>>

\* The UPDATE that follows looks at nothing but the trade's id.
Lock(t) ==
  /\ Arrived(t, "buy", "deposited")
  /\ row' = [status |-> "Locked", buyer |-> req[t].user]
  /\ \/ Answer(t, "ok")
     \/ Answer(t, "lost")
  /\ UNCHANGED <<token, tab, depositor>>

\* POST dispute.
FileDispute(t) ==
  /\ Arrived(t, "dispute", "sent")
  /\ IF row.status = "Locked" /\ req[t].user \in {Seller, row.buyer}
     THEN /\ row' = [row EXCEPT !.status = "Disputed"]
          /\ \/ Answer(t, "ok")
             \/ Answer(t, "lost")
     ELSE Answer(t, "error") /\ UNCHANGED row
  /\ UNCHANGED <<token, tab, depositor>>

Next ==
  \E t \in Tabs :
    \/ \E u \in Users : SignIn(t, u)
    \/ SignOut(t) \/ Open(t)
    \/ Buy(t) \/ Prepared(t) \/ Unlocked(t) \/ Bought(t)
    \/ OpenDispute(t) \/ ChangeReason(t) \/ CloseDispute(t) \/ Dispute(t) \/ Disputed(t)
    \/ SessionExpired(t) \/ Failed(t) \/ Forget(t)
    \/ Refuse(t) \/ Prepare(t) \/ Unlock(t) \/ CheckBuy(t) \/ Deposit(t) \/ Lock(t)
    \/ FileDispute(t)

Spec == Init /\ [][Next]_vars

-----------------------------------------------------------------------------
(* Properties.                                                             *)

Pages ==
  [page : {"away", "trade"}, user : Users \cup {None}, status : {"Active", "Locked", "Disputed"},
   key : Users \cup {None},
   step : {"idle", "prepare", "unlock", "buy", "dispute", "dispute again"},
   source : Users \cup {None}, confirmed : BOOLEAN, dialog : Dialog]

Waiting ==
  [op : {"none", "prepare", "unlock", "buy", "dispute"}, user : Users \cup {None},
   source : Users \cup {None}, step : {"sent", "checked", "deposited"},
   answer : {"none", "ok", "401", "error", "lost"}]

\* Every tab, request and row has the type its code gives it.
TypeOK ==
  /\ token \in Users \cup {None}
  /\ tab \in [Tabs -> Pages]
  /\ req \in [Tabs -> Waiting]
  /\ row \in [status : {"Active", "Locked", "Disputed"}, buyer : Users \cup {None}]
  /\ depositor \in Users \cup {None}

\* stellar.ts, trades.ts: whoever signs in or out in whichever tab between the steps of a
\* purchase, a trade that left the list belongs to the user whose deposit the contract has,
\* who is not its seller.
BuyerIsDepositor ==
  row.status # "Active" => row.buyer = depositor /\ depositor \notin {Seller, None}

\* TradeDetailClient.tsx: a tab that shows the purchase as confirmed prepared and signed it
\* for the user whom the row names as the buyer.
ConfirmedIsBought ==
  \A t \in Tabs : tab[t].confirmed => /\ row.status # "Active"
                                      /\ row.buyer = tab[t].source
                                      /\ row.buyer = tab[t].key

\* DisputeModal.tsx: a tab that shows the trade as disputed does so because it is.
DisputeShownIsFiled ==
  \A t \in Tabs : tab[t].status = "Disputed" => row.status = "Disputed"

-----------------------------------------------------------------------------
(* The inductive invariant.                                                *)

\* A purchase that was checked is its user's; one alone is between the deposit and the row;
\* and an answer says what the row says.
RequestsAreTrue ==
  \A t \in Tabs :
    LET r == req[t] IN
    /\ r.step # "sent" =>
         r.op = "buy" /\ r.answer = "none" /\ r.source = r.user /\ r.user \notin {Seller, None}
    /\ r.step = "deposited" =>
         /\ row.status = "Active" /\ depositor = r.source
         /\ \A u \in Tabs \ {t} : req[u].step # "deposited"
    /\ r.answer = "ok" /\ r.op = "buy" => row.status # "Active" /\ row.buyer = r.source
    /\ r.answer = "ok" /\ r.op = "dispute" => row.status = "Disputed"

\* A tab does one thing at a time, and what it waits for is what it sent last.
TabsWaitForTheirs ==
  \A t \in Tabs :
    LET p == tab[t]
        waits == req[t].answer \in {"none", "ok"}
    IN
    /\ p.step \in {"prepare", "unlock", "buy"} => p.status = "Active"
    /\ p.dialog # "closed" => p.status = "Locked"
    /\ p.confirmed => p.step = "idle" /\ p.dialog = "closed"
    /\ p.step \in {"dispute", "dispute again"} => p.dialog # "closed"
    /\ p.step \in {"prepare", "unlock", "buy", "dispute"} /\ waits => req[t].op = p.step
    /\ p.step = "dispute again" /\ waits => req[t].op = "dispute"
    /\ p.step = "buy" /\ waits => req[t].source = p.source /\ p.source = p.key

IInv ==
  /\ TypeOK /\ RequestsAreTrue /\ TabsWaitForTheirs
  /\ BuyerIsDepositor /\ ConfirmedIsBought /\ DisputeShownIsFiled

=============================================================================
