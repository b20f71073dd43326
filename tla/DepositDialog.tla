----------------------------- MODULE DepositDialog -----------------------------
(***************************************************************************)
(* Paying money in from the wallet page: the deposit dialog, Paystack's    *)
(* script and popup, the polling that follows a payment, and the page      *)
(* around them, which takes the dialog down whenever it loads the wallet.  *)
(*   frontend/app/wallet/DepositModal.tsx, page.tsx                        *)
(*   frontend/app/hooks/useOptimisticBalance.ts                            *)
(*   frontend/components/CurrencyInput.tsx                                 *)
(*                                                                         *)
(* POST /api/wallet/deposit/initialize has no route in this repository: it *)
(* is external, as are the script and the popup.  A script that loads and  *)
(* does not define its global counts as one that failed.  The page shows   *)
(* the balance of the Stellar account, which a deposit does not change.    *)
(***************************************************************************)
EXTENDS Naturals, Sequences

CONSTANTS
  Amounts,        \* what may be entered
  MinDeposit,     \* MIN_DEPOSIT_NAIRA
  OnChain,        \* what GET /wallet may answer
  MaxPayments     \* bound: submissions of the form

Parameters ==
  /\ Amounts \subseteq Nat \ {0} /\ MinDeposit \in Nat \ {0}
  /\ OnChain \subseteq Nat /\ MaxPayments \in Nat

VARIABLES
  token,      \* whether localStorage has a token that has not expired
  page,       \* wallet: it was loaded once; loading: the spinner stands for all of the page
  dialog,     \* the instance (mount) of the dialog, its state and its timers
  shown,      \* useOptimisticBalance
  script,     \* the script element: absent, loading, ready or failed
  payments    \* by submission: the instance it belongs to, its amount and its step

vars == <<token, page, dialog, shown, script, payments>>

Fresh(mount, open) ==
  [mount |-> mount, open |-> open, status |-> "idle", amount |-> 0, timers |-> {}]

Shows(n) == [confirmed |-> n, optimistic |-> n, pending |-> FALSE]

Init ==
  /\ token = TRUE
  /\ page = [wallet |-> FALSE, loading |-> TRUE]
  /\ dialog = Fresh(0, FALSE)
  /\ shown = Shows(0)
  /\ script = "absent"
  /\ payments = << >>

-----------------------------------------------------------------------------
(* The page.                                                               *)

\* useOptimisticBalance takes a balance over when it differs from the last one.
SetConfirmed(n) == IF n = shown.confirmed THEN shown ELSE Shows(n)

\* An answer that is an error leaves what there is; the dialogs come back as new
\* instances that are open or not as before.
LoadWallet ==
  /\ page.loading
  /\ \/ \E n \in OnChain : shown' = SetConfirmed(n) /\ page' = [wallet |-> TRUE, loading |-> FALSE]
     \/ shown' = shown /\ page' = [page EXCEPT !.loading = FALSE]
  /\ UNCHANGED <<token, dialog, script, payments>>

\* onDepositSuccess: with a token the page loads, and its spinner unmounts the dialog,
\* whose effects stop its own timers and no other's.
Refresh(d) ==
  IF token
  THEN /\ page' = [page EXCEPT !.loading = TRUE]
       /\ dialog' = [Fresh(d.mount + 1, d.open) EXCEPT !.timers = d.timers \ {d.mount}]
  ELSE dialog' = d /\ UNCHANGED page

\* Another tab signs out or in, or the token expires.
ChangeSession ==
  /\ token' = ~token
  /\ UNCHANGED <<page, dialog, shown, script, payments>>

\* The page is left and loaded again; nothing of it is kept, a popup neither.
Reload ==
  /\ token
  /\ page' = [wallet |-> FALSE, loading |-> TRUE]
  /\ dialog' = Fresh(0, FALSE)
  /\ shown' = Shows(0)
  /\ script' = "absent"
  /\ payments' = << >>
  /\ UNCHANGED token

Open ==
  /\ page.wallet /\ ~page.loading
  /\ ~dialog.open
  /\ dialog' = [dialog EXCEPT !.open = TRUE]
  /\ UNCHANGED <<token, page, shown, script, payments>>

-----------------------------------------------------------------------------
(* The dialog.                                                             *)

Busy == dialog.status \in {"initializing", "awaiting_payment", "confirming"}

Attended == dialog.open /\ ~page.loading /\ ~Busy

\* The cross, Escape, the overlay, and Done after a success: the form is emptied.
RequestClose ==
  /\ Attended
  /\ dialog' = [Fresh(dialog.mount, FALSE) EXCEPT !.timers = dialog.timers \ {dialog.mount}]
  /\ UNCHANGED <<token, page, shown, script, payments>>

\* After a success there is no form.
FormEnabled == Attended /\ dialog.status = "idle"

ValidateDepositAmount(a) == a >= MinDeposit

\* An empty field is 0.
EnterAmount(a) ==
  /\ FormEnabled
  /\ dialog.amount # a
  /\ dialog' = [dialog EXCEPT !.amount = a]
  /\ UNCHANGED <<token, page, shown, script, payments>>

HandleSubmit ==
  /\ FormEnabled
  /\ ValidateDepositAmount(dialog.amount)
  /\ token
  /\ Len(payments) < MaxPayments                           \* bound
  /\ dialog' = [dialog EXCEPT !.status = "initializing"]
  /\ payments' = Append(payments, [mount |-> dialog.mount, amount |-> dialog.amount, step |-> "asked"])
  /\ UNCHANGED <<token, page, shown, script>>

\* What submission i sets in its own instance; of one that is gone, nothing.
Sets(i, status) ==
  IF payments[i].mount = dialog.mount THEN [dialog EXCEPT !.status = status] ELSE dialog

Goes(i, step) == payments' = [payments EXCEPT ![i].step = step]

\* The request is answered: with the script there the popup opens, otherwise its element
\* is made, or the one in the document is listened to, in whatever state it is.
Initialized(i) ==
  /\ payments[i].step = "asked"
  /\ IF script = "ready"
     THEN Goes(i, "popup") /\ dialog' = Sets(i, "awaiting_payment") /\ UNCHANGED script
     ELSE /\ Goes(i, "script")
          /\ script' = IF script = "absent" THEN "loading" ELSE script
          /\ UNCHANGED dialog
  /\ UNCHANGED <<token, page, shown>>

\* An error of the server or of the network; after a 401 the page is left, too.
InitializeFails(i) ==
  /\ payments[i].step = "asked"
  /\ Goes(i, "ended")
  /\ dialog' = Sets(i, "idle")
  /\ UNCHANGED <<token, page, shown, script>>

\* The script's event wakes the submission that listens.  A script that has failed stays in
\* the document and has no other event.
ScriptEvent(i) ==
  /\ payments[i].step = "script"
  /\ script = "loading"
  /\ \/ script' = "ready"  /\ Goes(i, "popup") /\ dialog' = Sets(i, "awaiting_payment")
     \/ script' = "failed" /\ Goes(i, "ended") /\ dialog' = Sets(i, "idle")
  /\ UNCHANGED <<token, page, shown>>

-----------------------------------------------------------------------------
(* The popup, and what follows a payment.                                  *)

\* The balance shown is the confirmed one with this payment, and the instance polls.
OnSuccess(i) ==
  /\ payments[i].step = "popup"
  /\ Goes(i, "paid")
  /\ shown' = [shown EXCEPT !.optimistic = shown.confirmed + payments[i].amount, !.pending = TRUE]
  /\ dialog' = [Sets(i, "confirming") EXCEPT !.timers = @ \cup {payments[i].mount}]
  /\ UNCHANGED <<token, page, script>>

\* onCancel and onError: the confirmed balance is shown.
OnCancel(i) ==
  /\ payments[i].step = "popup"
  /\ Goes(i, "ended")
  /\ shown' = Shows(shown.confirmed)
  /\ dialog' = Sets(i, "idle")
  /\ UNCHANGED <<token, page, script>>

\* Every second for five: the page is asked to refresh.
Poll(m) ==
  /\ m \in dialog.timers
  /\ Refresh(dialog)
  /\ UNCHANGED <<token, shown, script, payments>>

\* After five seconds it counts as a success.
PollDeadline(m) ==
  /\ m \in dialog.timers
  /\ LET stopped == [dialog EXCEPT !.timers = @ \ {m}]
     IN  Refresh(IF m = dialog.mount THEN [stopped EXCEPT !.status = "success"] ELSE stopped)
  /\ UNCHANGED <<token, shown, script, payments>>

Next ==
  \/ LoadWallet \/ ChangeSession \/ Reload
  \/ Open \/ RequestClose \/ HandleSubmit
  \/ \E a \in Amounts \cup {0} : EnterAmount(a)
  \/ \E i \in DOMAIN payments :
       Initialized(i) \/ InitializeFails(i) \/ ScriptEvent(i) \/ OnSuccess(i) \/ OnCancel(i)
  \/ \E m \in dialog.timers : Poll(m) \/ PollDeadline(m)

Spec == Init /\ [][Next]_vars

-----------------------------------------------------------------------------
(* Properties.                                                             *)

UnderWay(i) == payments[i].step \in {"asked", "script", "popup"}

TypeOK ==
  /\ token \in BOOLEAN
  /\ page \in [wallet : BOOLEAN, loading : BOOLEAN]
  /\ dialog \in [mount : 0..MaxPayments, open : BOOLEAN,
                 status : {"idle", "initializing", "awaiting_payment", "confirming", "success"},
                 amount : Amounts \cup {0}, timers : SUBSET (0..MaxPayments)]
  /\ shown \in [confirmed : OnChain \cup {0}, optimistic : Nat, pending : BOOLEAN]
  /\ script \in {"absent", "loading", "ready", "failed"}
  /\ payments \in Seq([mount : 0..MaxPayments,
                       amount : {a \in Amounts : ValidateDepositAmount(a)},
                       step : {"asked", "script", "popup", "paid", "ended"}])

\* A form is submitted once until its payment is over, and while a popup is open its dialog
\* is there to wait for it: it cannot be dismissed, nor taken down by a page that loads.
OnePaymentAtATime ==
  /\ \A i, j \in DOMAIN payments : UnderWay(i) /\ UnderWay(j) => i = j
  /\ \A i \in DOMAIN payments :
       payments[i].step = "popup" => /\ payments[i].mount = dialog.mount
                                     /\ dialog.open /\ ~page.loading
                                     /\ dialog.status = "awaiting_payment"

\* "a dismissed modal cannot keep polling in the background" (DepositModal.tsx:227): who
\* polls is the dialog that is open and says so, after a payment of its own; and it says
\* that a deposit was successful only if it was paid.
PollingIsShown ==
  /\ dialog.timers \subseteq {dialog.mount}
  /\ dialog.timers # {} <=> dialog.status = "confirming"
  /\ dialog.status \in {"confirming", "success"} =>
       \E i \in DOMAIN payments : payments[i].mount = dialog.mount /\ payments[i].step = "paid"

\* A balance that is shown before the server confirms it has in it what was paid, and not
\* what was typed, cancelled or paid twice.
ShownIsPaid ==
  shown.optimistic # shown.confirmed =>
    /\ shown.pending
    /\ \E i \in DOMAIN payments :
         payments[i].step = "paid" /\ shown.optimistic = shown.confirmed + payments[i].amount

-----------------------------------------------------------------------------
(* The inductive invariant.                                                *)

Dialogs ==
  [mount : Nat, open : BOOLEAN,
   status : {"idle", "initializing", "awaiting_payment", "confirming", "success"},
   amount : Amounts \cup {0}, timers : SUBSET Nat]

Payments ==
  [mount : Nat, amount : Amounts, step : {"asked", "script", "popup", "paid", "ended"}]

\* TypeOK without its bounds.
Typed ==
  /\ page \in [wallet : BOOLEAN, loading : BOOLEAN]
  /\ dialog \in Dialogs
  /\ shown \in [confirmed : Nat, optimistic : Nat, pending : BOOLEAN]
  /\ payments \in Seq(Payments)

\* What is under way is the open dialog's, and it says how far that is.
UnderWayIsShown ==
  \A i \in DOMAIN payments : UnderWay(i) =>
    /\ payments[i].mount = dialog.mount /\ dialog.open /\ ~page.loading
    /\ dialog.status = IF payments[i].step = "popup" THEN "awaiting_payment" ELSE "initializing"

IInv == Typed /\ UnderWayIsShown /\ OnePaymentAtATime /\ PollingIsShown /\ ShownIsPaid

===============================================================================
