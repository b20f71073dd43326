---------------------------- MODULE AccountDeletion ----------------------------
(***************************************************************************)
(* Asking for the deletion of an account:                                  *)
(*   frontend/app/profile/page.tsx (its dialog),                           *)
(*   server/src/routes/profile.ts                                          *)
(*                                                                         *)
(* One page is open; another tab may sign in someone else, or out, and      *)
(* another client of an account may cancel its deletion (no page does).     *)
(* What a deletion does to the trades is in Trade.  Left out: texts, SMS,   *)
(* and the 30 days of grace, which do not end.                              *)
(* Name_Variant is Name with a plausible mistake in it, as in Escrow.      *)
(***************************************************************************)
EXTENDS Naturals

CONSTANTS
  Users, NoUser,
  Wait,             \* seconds before a deletion may be confirmed: 5
  Calls, NoCall     \* bound: DELETE requests the server works on

Parameters == NoUser \notin Users /\ NoCall \notin Calls /\ Wait \in Nat \ {0}

VARIABLES
  token,      \* whose token localStorage has
  account,    \* users.pending_deletion, and what is known of it
  dialog,     \* the state of the dialog
  deletion,   \* DELETE requests
  cancelling  \* whose POST cancel-deletion has read the row, or nobody's

vars == <<token, account, dialog, deletion, cancelling>>

\* `call` is the request the dialog waits for; `timer`, that it is to be closed after a
\* success.  For the properties: `age`, the seconds since it was opened, and `closed`, that
\* the timer closed it while it waited.
Closed ==
  [open |-> FALSE, phrase |-> FALSE, countdown |-> Wait, call |-> NoCall, shows |-> "none",
   timer |-> FALSE, age |-> 0, closed |-> FALSE]

\* For the properties: `confirmed`, that it was sent as the dialog demands; `alone`, that no
\* other one for the same user was being worked on since it read the row.
NoDeletion == [at |-> "none", user |-> NoUser, confirmed |-> TRUE, alone |-> TRUE]

\* `dates`, for the properties: how many dates were set since the last cancellation, by
\* requests that were alone.
Init ==
  /\ token \in Users
  /\ account = [u \in Users |-> [pending |-> FALSE, dates |-> 0]]
  /\ dialog = Closed
  /\ deletion = [c \in Calls |-> NoDeletion]
  /\ cancelling = NoUser

\* The page is loaded again, or anew.  What the server works on goes on.
Open ==
  /\ token # NoUser
  /\ dialog' = Closed
  /\ UNCHANGED <<token, account, deletion, cancelling>>

\* saveToken or clearToken, in another tab.
SignIn(u) ==
  /\ u # token
  /\ token' = u
  /\ UNCHANGED <<account, dialog, deletion, cancelling>>

-----------------------------------------------------------------------------
(* The dialog.                                                             *)

\* The effect that starts the countdown does not start it over.
OpenDialog_OldCountdown ==
  /\ ~dialog.open
  /\ dialog' = [dialog EXCEPT !.open = TRUE, !.phrase = FALSE, !.shows = "none", !.age = 0]
  /\ UNCHANGED <<token, account, deletion, cancelling>>

OpenDialog ==
  /\ ~dialog.open
  /\ dialog' = [dialog EXCEPT !.open = TRUE, !.phrase = FALSE, !.shows = "none", !.age = 0,
                              !.countdown = Wait]
  /\ UNCHANGED <<token, account, deletion, cancelling>>

\* By the button Cancel; or by the cross, which also clears it.
CloseDialog ==
  /\ dialog.open /\ dialog.call = NoCall
  /\ \/ dialog' = [dialog EXCEPT !.open = FALSE]
     \/ dialog' = [dialog EXCEPT !.open = FALSE, !.phrase = FALSE,
                                 !.shows = IF @ = "error" THEN "none" ELSE @]
  /\ UNCHANGED <<token, account, deletion, cancelling>>

Second ==
  /\ dialog.open /\ dialog.countdown > 0
  /\ dialog' = [dialog EXCEPT !.countdown = @ - 1, !.age = IF @ < Wait THEN @ + 1 ELSE @]
  /\ UNCHANGED <<token, account, deletion, cancelling>>

TypePhrase ==
  /\ dialog.open /\ dialog.call = NoCall
  /\ dialog' = [dialog EXCEPT !.phrase = ~@]
  /\ UNCHANGED <<token, account, deletion, cancelling>>

\* handleDeleteAccount: the token is read now.
Confirm(c) ==
  /\ dialog.open /\ dialog.phrase /\ dialog.countdown = 0 /\ dialog.call = NoCall
  /\ deletion[c] = NoDeletion
  /\ deletion' = [deletion EXCEPT ![c] =
       [NoDeletion EXCEPT !.at = "sent", !.user = token, !.confirmed = dialog.age = Wait]]
  /\ dialog' = [dialog EXCEPT !.call = c, !.closed = FALSE,
                              !.shows = IF @ = "error" THEN "none" ELSE @]
  /\ UNCHANGED <<token, account, cancelling>>

\* An error is shown beside an earlier success.
WithError(d) == [d EXCEPT !.call = NoCall, !.shows = IF @ = "success" THEN @ ELSE "error"]

DeletionAnswered(c) ==
  /\ dialog.call = c /\ deletion[c].at \in {"ok", "error"}
  /\ dialog' = IF deletion[c].at = "ok"
               THEN [dialog EXCEPT !.call = NoCall, !.shows = "success", !.timer = TRUE]
               ELSE WithError(dialog)
  /\ deletion' = [deletion EXCEPT ![c] = NoDeletion]
  /\ UNCHANGED <<token, account, cancelling>>

\* No answer comes: "Network error"; the request is lost, or the server still at work.
DeletionUnanswered(c) ==
  /\ dialog.call = c
  /\ dialog' = WithError(dialog)
  /\ \/ UNCHANGED deletion
     \/ deletion[c].at = "sent" /\ deletion' = [deletion EXCEPT ![c] = NoDeletion]
  /\ UNCHANGED <<token, account, cancelling>>

\* The two seconds have passed, whatever was done meanwhile.
TimerCloses ==
  /\ dialog.timer
  /\ dialog' = [dialog EXCEPT !.open = FALSE, !.timer = FALSE, !.closed = dialog.call # NoCall]
  /\ UNCHANGED <<token, account, deletion, cancelling>>

-----------------------------------------------------------------------------
(* The server.                                                             *)

SameUser(c) == {d \in Calls : deletion[d].user = deletion[c].user /\ deletion[d].at = "checked"}

\* DELETE /profile: the row is read, outside of the transaction.
CheckPending_Unread(c) ==
  /\ deletion[c].at = "sent"
  /\ deletion' = [deletion EXCEPT ![c].at =
       IF deletion[c].user = NoUser THEN "error" ELSE "checked"]
  /\ UNCHANGED <<token, account, dialog, cancelling>>

CheckPending(c) ==
  /\ deletion[c].at = "sent"
  /\ IF deletion[c].user = NoUser \/ account[deletion[c].user].pending
     THEN deletion' = [deletion EXCEPT ![c].at = "error"]
     ELSE deletion' = [d \in Calls |->
            IF d = c THEN [deletion[c] EXCEPT !.at = "checked", !.alone = SameUser(c) = {}]
            ELSE IF d \in SameUser(c) THEN [deletion[d] EXCEPT !.alone = FALSE]
            ELSE deletion[d]]
  /\ UNCHANGED <<token, account, dialog, cancelling>>

\* The transaction, which may fail.  When no more than its UPDATE of `transactions` does, that
\* is caught, the COMMIT rolls all back and the answer is that of a success.
CommitDeletion(c) ==
  /\ deletion[c].at = "checked"
  /\ \/ /\ account' = [account EXCEPT ![deletion[c].user] =
                         [pending |-> TRUE, dates |-> IF deletion[c].alone /\ @.dates < 2
                                                      THEN @.dates + 1 ELSE @.dates]]
        /\ deletion' = [deletion EXCEPT ![c].at = "ok"]
     \/ /\ \E result \in {"ok", "error"} : deletion' = [deletion EXCEPT ![c].at = result]
        /\ UNCHANGED account
  /\ UNCHANGED <<token, dialog, cancelling>>

\* An answer nobody waits for.
Unheard(c) ==
  /\ dialog.call # c /\ deletion[c].at \in {"ok", "error"}
  /\ deletion' = [deletion EXCEPT ![c] = NoDeletion]
  /\ UNCHANGED <<token, account, dialog, cancelling>>

\* POST /profile/cancel-deletion: the row is read, and written in a statement of its own.
StartCancel(u) ==
  /\ cancelling = NoUser /\ account[u].pending
  /\ cancelling' = u
  /\ UNCHANGED <<token, account, dialog, deletion>>

CancelDeletion ==
  /\ cancelling # NoUser
  /\ account' = [account EXCEPT ![cancelling] = [pending |-> FALSE, dates |-> 0]]
  /\ cancelling' = NoUser
  /\ UNCHANGED <<token, dialog, deletion>>

Next ==
  \/ Open \/ OpenDialog \/ CloseDialog \/ Second \/ TypePhrase \/ TimerCloses
  \/ \E u \in Users \cup {NoUser} : SignIn(u)
  \/ \E c \in Calls :
       \/ Confirm(c) \/ DeletionAnswered(c) \/ DeletionUnanswered(c)
       \/ CheckPending(c) \/ CommitDeletion(c) \/ Unheard(c)
  \/ \E u \in Users : StartCancel(u)
  \/ CancelDeletion

Spec == Init /\ [][Next]_vars

-----------------------------------------------------------------------------
(* Properties.                                                             *)

Dialogs ==
  [open : BOOLEAN, phrase : BOOLEAN, countdown : 0..Wait, call : Calls \cup {NoCall},
   shows : {"none", "success", "error"}, timer : BOOLEAN, age : 0..Wait, closed : BOOLEAN]

Deletions ==
  [at : {"none", "sent", "checked", "ok", "error"}, user : Users \cup {NoUser},
   confirmed : BOOLEAN, alone : BOOLEAN]

\* Every state, request and row has the type its declaration gives it.
TypeOK ==
  /\ token \in Users \cup {NoUser}
  /\ account \in [Users -> [pending : BOOLEAN, dates : 0..2]]
  /\ dialog \in Dialogs
  /\ deletion \in [Calls -> Deletions]
  /\ cancelling \in Users \cup {NoUser}

\* page.tsx: an account is deleted only after its dialog was open for the whole countdown,
\* whenever it was opened, closed, answered and opened again.
DeletionIsConfirmed == \A c \in Calls : deletion[c].confirmed

\* profile.ts: until a deletion is cancelled no second date is set, however often answers
\* are lost and the request repeated, unless two requests overlapped.
OneDateIsSet == \A u \in Users : account[u].dates <= 1

\* page.tsx: a deletion that is under way is shown; only the timer of an earlier one closes
\* the dialog before its answer.
RequestIsShown == dialog.call # NoCall => dialog.open \/ dialog.closed

-----------------------------------------------------------------------------
(* The inductive invariant.                                                *)

\* The countdown starts over with the dialog, and is how long it was open.
AgeIsCounted == dialog.age = Wait - dialog.countdown

\* Who is alone with a row that it checked will find it as it was: without a date.
AloneIsFirst ==
  \A c \in Calls : deletion[c].at = "checked" =>
    /\ deletion[c].user \in Users
    /\ deletion[c].alone => account[deletion[c].user].dates = 0
    /\ \A d \in SameUser(c) \ {c} : ~deletion[c].alone

\* A cancellation takes the date away.
CancelledIsUndated == \A u \in Users : ~account[u].pending => account[u].dates = 0

IInv ==
  /\ TypeOK /\ AgeIsCounted /\ AloneIsFirst /\ CancelledIsUndated
  /\ DeletionIsConfirmed /\ OneDateIsSet /\ RequestIsShown

=============================================================================
