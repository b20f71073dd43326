----------------------------- MODULE Notifications -----------------------------
(***************************************************************************)
(* What trade events become in a browser:                                  *)
(*   frontend/app/hooks/useTradeNotifications.ts                           *)
(*   frontend/app/components/NotificationTray.tsx                          *)
(*                                                                         *)
(* Each tab has a tray and a stream of its own; they share the copy of the  *)
(* tray in localStorage.  The hook closes a stream that fails and opens     *)
(* another one after a delay, a bounded number of times.                    *)
(* The server is any: a stream opens, fails and brings frames at any time   *)
(* (Events has it).  Left out: delays, texts, and which trade a frame is of.*)
(* Name_Variant is Name with a plausible mistake in it, as in Escrow.      *)
(***************************************************************************)
EXTENDS Naturals, Sequences

CONSTANTS
  Tabs,
  MaxRetries,        \* MAX_RETRIES
  MaxEntries,        \* MAX_TRAY_ENTRIES
  MaxToasts          \* MAX_VISIBLE_TOASTS

Parameters == \A n \in {MaxRetries, MaxEntries, MaxToasts} : n \in Nat \ {0}

VARIABLES
  hook,      \* each tab's connection
  tray,      \* its entries, newest first, and whether each was read
  toasts,    \* its toasts
  stored     \* the entries in localStorage

vars == <<hook, tray, toasts, stored>>

\* `sources` is the EventSources not closed; `tries`, for the properties, those opened since
\* one last reported that it was open (that one included), or the token changed.
Idle == [token |-> FALSE, sources |-> 0, timer |-> FALSE, retry |-> 0, state |-> "idle", tries |-> 0]

\* connect.
Connect(h) ==
  [h EXCEPT !.sources = @ + 1, !.timer = FALSE, !.tries = @ + 1,
            !.state = IF h.retry = 0 THEN "connecting" ELSE "reconnecting"]

Init ==
  /\ hook = [t \in Tabs |-> Idle]
  /\ tray = [t \in Tabs |-> <<>>]
  /\ toasts = [t \in Tabs |-> 0]
  /\ stored = <<>>

-----------------------------------------------------------------------------
(* The stream.                                                             *)

\* The token of the AuthContext comes, goes, or changes: the effect's cleanup and its next
\* run.  (A token that is replaced by another is Connect again.)
SetToken(t) ==
  /\ \E token \in BOOLEAN :
       hook' = [hook EXCEPT ![t] = IF token THEN Connect([Idle EXCEPT !.token = TRUE]) ELSE Idle]
  /\ UNCHANGED <<tray, toasts, stored>>

OnOpen(t) ==
  /\ hook[t].sources > 0 /\ hook[t].state # "open"
  /\ hook' = [hook EXCEPT ![t].state = "open", ![t].retry = 0, ![t].tries = 1]
  /\ UNCHANGED <<tray, toasts, stored>>

\* The failed stream is left to reconnect by itself.
OnError_Unclosed(t) ==
  /\ hook[t].sources > 0
  /\ hook' = [hook EXCEPT ![t] =
       IF @.retry >= MaxRetries
       THEN [@ EXCEPT !.state = "failed"]
       ELSE [@ EXCEPT !.state = "reconnecting", !.retry = @ + 1, !.timer = TRUE]]
  /\ UNCHANGED <<tray, toasts, stored>>

\* It is closed, and another one opened later, unless this was the last retry.
Failed(h) ==
  IF h.retry >= MaxRetries
  THEN [h EXCEPT !.sources = @ - 1, !.state = "failed"]
  ELSE [h EXCEPT !.sources = @ - 1, !.state = "reconnecting", !.retry = @ + 1, !.timer = TRUE]

OnError(t) ==
  /\ hook[t].sources > 0
  /\ hook' = [hook EXCEPT ![t] = Failed(@)]
  /\ UNCHANGED <<tray, toasts, stored>>

TimerFires(t) ==
  /\ hook[t].timer
  /\ hook' = [hook EXCEPT ![t] = Connect(@)]
  /\ UNCHANGED <<tray, toasts, stored>>

-----------------------------------------------------------------------------
(* The tray.                                                               *)

\* setNotifications, and persist.
Keep(t, entries) == tray' = [tray EXCEPT ![t] = entries] /\ stored' = entries

Newest(s, n) == SubSeq(s, 1, IF Len(s) < n THEN Len(s) ELSE n)

\* The page is loaded, and the tray restored; the AuthProvider reads the token later.
Mount(t) ==
  /\ hook' = [hook EXCEPT ![t] = Idle]
  /\ tray' = [tray EXCEPT ![t] = stored]
  /\ toasts' = [toasts EXCEPT ![t] = 0]
  /\ UNCHANGED stored

\* onmessage and push, of a frame with a trade and a status.
Push(t) ==
  /\ hook[t].state = "open"
  /\ Keep(t, Newest(<<FALSE>> \o tray[t], MaxEntries))
  /\ toasts' = [toasts EXCEPT ![t] = IF @ < MaxToasts THEN @ + 1 ELSE @]
  /\ UNCHANGED hook

\* A toast is followed, or its time is over.
EndToast(t) ==
  /\ toasts[t] > 0
  /\ toasts' = [toasts EXCEPT ![t] = @ - 1]
  /\ UNCHANGED <<hook, tray, stored>>

\* The tray is opened.
MarkAllRead(t) ==
  /\ Keep(t, [n \in DOMAIN tray[t] |-> TRUE])
  /\ UNCHANGED <<hook, toasts>>

ClearAll(t) ==
  /\ tray[t] # <<>>
  /\ Keep(t, <<>>)
  /\ UNCHANGED <<hook, toasts>>

Next ==
  \E t \in Tabs :
    \/ SetToken(t) \/ OnOpen(t) \/ OnError(t) \/ TimerFires(t)
    \/ Mount(t) \/ Push(t) \/ EndToast(t) \/ MarkAllRead(t) \/ ClearAll(t)

Spec == Init /\ [][Next]_vars

-----------------------------------------------------------------------------
(* Properties.                                                             *)

Hooks ==
  [token : BOOLEAN, sources : 0..2, timer : BOOLEAN, retry : 0..MaxRetries,
   state : {"idle", "connecting", "reconnecting", "open", "failed"}, tries : 0..(MaxRetries + 1)]

Entries == {s \in Seq(BOOLEAN) : Len(s) <= MaxEntries}

\* Every connection, tray and toast has the type its declaration gives it.
TypeOK ==
  /\ hook \in [Tabs -> Hooks]
  /\ tray \in [Tabs -> Entries] /\ stored \in Entries
  /\ toasts \in [Tabs -> 0..MaxToasts]

\* useTradeNotifications.ts: whatever fails and whoever signs in or out, a tab has one stream
\* or one timer for the next, none without a token, and it says so; and it gives up after
\* MAX_RETRIES retries in a row.
OneStreamPerTab ==
  \A t \in Tabs :
    LET h == hook[t] IN
    /\ h.sources + (IF h.timer THEN 1 ELSE 0)
         = (IF h.state \in {"idle", "failed"} THEN 0 ELSE 1)
    /\ h.state = "idle" <=> ~h.token
    /\ h.state = "failed" => h.tries = MaxRetries + 1
    /\ h.tries <= MaxRetries + 1

\* NotificationTray.tsx: in a tab and in what is stored for the next one, the unread entries
\* are the newest ones, however the tabs overwrite each other's.
UnreadAreNewest ==
  \A s \in {tray[t] : t \in Tabs} \cup {stored} :
    \A m, n \in DOMAIN s : m < n /\ s[m] => s[n]

-----------------------------------------------------------------------------
(* The inductive invariant.                                                *)

\* The retries that the hook counts are those since a stream was last open.
RetriesAreCounted ==
  \A t \in Tabs :
    LET h == hook[t] IN
    /\ h.sources > 0 => h.tries = h.retry + 1
    /\ h.timer => h.tries = h.retry
    /\ h.state = "open" => h.retry = 0

IInv == TypeOK /\ OneStreamPerTab /\ RetriesAreCounted /\ UnreadAreNewest

=============================================================================
