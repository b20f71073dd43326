------------------------------ MODULE UsersProofs ------------------------------
(***************************************************************************)
(* Proofs about what a user does, MCUsers, for any values of its           *)
(* constants.  A behaviour of MCUsers is one of one component's, and so    *)
(* each component has an inductive invariant of its own, IInv in its       *)
(* module; the last section puts them together.                            *)
(***************************************************************************)
EXTENDS MCUsers, FiniteSetTheorems, FunctionTheorems, SequenceTheorems, TLAPS

-----------------------------------------------------------------------------
(* The deletion of an account.                                             *)

\* AccountDeletion: a closed dialog and no requests are sound.
LEMMA DeletionInit == X!Parameters /\ X!Init => X!IInv
<1> SUFFICES ASSUME X!Parameters, X!Init PROVE X!IInv
  OBVIOUS
<1> USE DEF X!Init, X!Closed, X!NoDeletion
<1>1. X!TypeOK
  BY DEF X!TypeOK, X!Parameters, X!Dialogs, X!Deletions
<1>2. X!AgeIsCounted
  BY DEF X!AgeIsCounted, X!Parameters
<1>3. X!AloneIsFirst /\ X!CancelledIsUndated
  BY DEF X!AloneIsFirst, X!CancelledIsUndated
<1>4. X!DeletionIsConfirmed /\ X!OneDateIsSet /\ X!RequestIsShown
  BY DEF X!DeletionIsConfirmed, X!OneDateIsSet, X!RequestIsShown
<1>5. QED
  BY <1>1, <1>2, <1>3, <1>4 DEF X!IInv

\* A step of the page that sends nothing: its state is of its type, its age is counted, and a
\* request that it waits for is shown.
LEMMA DialogKeeps ==
  ASSUME X!IInv, UNCHANGED <<record, asked, aside>>, storage' \in Leavers \cup {None},
         view' \in X!Dialogs,
         view'.age = Wait - view'.countdown,
         view'.call # None => view'.open \/ view'.closed
  PROVE  X!IInv'
<1>1. X!TypeOK'
  BY DEF X!IInv, X!TypeOK
<1>2. X!AgeIsCounted' /\ X!RequestIsShown'
  BY DEF X!AgeIsCounted, X!RequestIsShown
<1>3. X!AloneIsFirst' /\ X!CancelledIsUndated' /\ X!DeletionIsConfirmed' /\ X!OneDateIsSet'
  BY DEF X!IInv, X!AloneIsFirst, X!CancelledIsUndated, X!DeletionIsConfirmed, X!OneDateIsSet, X!SameUser
<1>4. QED
  BY <1>1, <1>2, <1>3 DEF X!IInv

\* A request moves, without having just read the row: the rows stay, and the others too.
LEMMA RequestKeeps ==
  ASSUME X!IInv, UNCHANGED <<storage, record, aside>>,
         view' \in X!Dialogs,
         view'.age = Wait - view'.countdown,
         view'.call # None => view'.open \/ view'.closed,
         NEW c \in Calls,
         NEW r \in X!Deletions,
         r.at # "checked", r.confirmed, asked' = [asked EXCEPT ![c] = r]
  PROVE  X!IInv'
<1>1. X!TypeOK'
  BY DEF X!IInv, X!TypeOK
<1>2. X!AgeIsCounted' /\ X!RequestIsShown'
  BY DEF X!AgeIsCounted, X!RequestIsShown
<1>3. \A d \in Calls : asked'[d] = IF d = c THEN r ELSE asked[d]
  BY DEF X!IInv, X!TypeOK
<1>4. X!CancelledIsUndated' /\ X!DeletionIsConfirmed' /\ X!OneDateIsSet'
  BY <1>3 DEF X!IInv, X!CancelledIsUndated, X!DeletionIsConfirmed, X!OneDateIsSet
<1>5. X!AloneIsFirst'
  BY <1>3 DEF X!IInv, X!AloneIsFirst, X!SameUser
<1>6. QED
  BY <1>1, <1>2, <1>4, <1>5 DEF X!IInv

\* The row is read: who finds another one at work with it is not alone, nor is the other.
LEMMA CheckPendingKeeps ==
  ASSUME X!IInv, NEW c \in Calls, X!CheckPending(c)
  PROVE  X!IInv'
<1> DEFINE peers == X!SameUser(c)
           User == asked[c].user
<1>0. /\ asked[c].at = "sent" /\ UNCHANGED <<storage, record, view, aside>>
      /\ asked \in [Calls -> X!Deletions]
  BY DEF X!CheckPending, X!IInv, X!TypeOK
<1>1. CASE User = None \/ record[User].pending
  <2>1. asked' = [asked EXCEPT ![c] = [asked[c] EXCEPT !.at = "error"]]
    BY <1>0, <1>1 DEF X!CheckPending
  <2>2. [asked[c] EXCEPT !.at = "error"] \in X!Deletions
    BY <1>0 DEF X!Deletions
  <2>3. [asked[c] EXCEPT !.at = "error"].at = "error" /\ [asked[c] EXCEPT !.at = "error"].confirmed
    BY <1>0 DEF X!IInv, X!DeletionIsConfirmed, X!Deletions
  <2>4. QED
    BY <1>0, <2>1, <2>2, <2>3, RequestKeeps DEF X!IInv, X!TypeOK, X!AgeIsCounted, X!RequestIsShown
<1>2. CASE ~(User = None \/ record[User].pending)
  <2>1. \A d \in Calls :
          asked'[d] = IF d = c THEN [asked[c] EXCEPT !.at = "checked", !.alone = peers = {}]
                         ELSE IF d \in peers THEN [asked[d] EXCEPT !.alone = FALSE]
                         ELSE asked[d]
    BY <1>0, <1>2 DEF X!CheckPending
  <2>2. User \in Leavers /\ record[User].dates = 0 /\ c \notin peers
    BY <1>0, <1>2 DEF X!IInv, X!CancelledIsUndated, X!SameUser, X!Deletions
  <2>3. \A d \in Calls :
          /\ asked'[d] \in X!Deletions
          /\ asked'[d].confirmed
          /\ asked'[d].user = asked[d].user
          /\ asked'[d].at = IF d = c THEN "checked" ELSE asked[d].at
          /\ asked'[d].alone = IF d = c THEN peers = {} ELSE asked[d].alone /\ d \notin peers
    <3>1. SUFFICES ASSUME NEW d \in Calls
                   PROVE  /\ asked'[d] \in X!Deletions
                          /\ asked'[d].confirmed
                          /\ asked'[d].user = asked[d].user
                          /\ asked'[d].at = IF d = c THEN "checked" ELSE asked[d].at
                          /\ asked'[d].alone = IF d = c THEN peers = {} ELSE asked[d].alone
                              /\ d \notin peers
      OBVIOUS
    <3> DEFINE sole == peers = {}
    <3>2. asked[d] \in X!Deletions /\ asked[d].confirmed /\ sole \in BOOLEAN
      BY <1>0 DEF X!IInv, X!DeletionIsConfirmed
    <3>3. asked'[d] = IF d = c THEN [asked[c] EXCEPT !.at = "checked", !.alone = sole]
                         ELSE IF d \in peers THEN [asked[d] EXCEPT !.alone = FALSE]
                         ELSE asked[d]
      BY <2>1
    <3> HIDE DEF sole
    <3>4. /\ asked'[d] \in X!Deletions
          /\ asked'[d].confirmed
          /\ asked'[d].user = asked[d].user
          /\ asked'[d].at = IF d = c THEN "checked" ELSE asked[d].at
          /\ d = c => asked'[d].alone = sole
          /\ d # c => asked'[d].alone = (asked[d].alone /\ d \notin peers)
      <4>1. CASE d = c
        BY <3>2, <3>3, <4>1 DEF X!Deletions
      <4>2. CASE d # c /\ d \in peers
        BY <3>2, <3>3, <4>2 DEF X!Deletions
      <4>3. CASE d # c /\ d \notin peers
        BY <3>2, <3>3, <4>3, <1>0 DEF X!Deletions
      <4>4. QED
        BY <4>1, <4>2, <4>3
    <3>5. QED
      BY <3>4 DEF sole
  <2>4. DOMAIN asked' = Calls /\ asked' = [d \in Calls |-> asked'[d]]
    BY <1>0, <1>2 DEF X!CheckPending
  <2>5. X!TypeOK'
    <3>1. asked' \in [Calls -> X!Deletions]
      BY <2>3, <2>4
    <3>2. QED
      BY <1>0, <3>1 DEF X!IInv, X!TypeOK
  <2>6. X!AloneIsFirst'
    <3>1. SUFFICES ASSUME NEW d \in Calls, asked'[d].at = "checked"
                   PROVE  /\ asked'[d].user \in Leavers
                          /\ asked'[d].alone => record'[asked'[d].user].dates = 0
                          /\ \A e \in Calls \ {d} :
                               asked'[e].user = asked'[d].user /\ asked'[e].at = "checked"
                                 => ~asked'[d].alone
      BY DEF X!AloneIsFirst, X!SameUser
    <3>2. CASE d = c
      <4>1. asked'[d].user = User /\ (asked'[d].alone => peers = {})
        BY <2>3, <3>2
      <4>2. ASSUME NEW e \in Calls \ {d}, asked'[e].user = asked'[d].user, asked'[e].at = "checked"
            PROVE  e \in peers
        BY <2>3, <3>2, <4>1, <4>2 DEF X!SameUser
      <4>3. QED
        BY <1>0, <2>2, <4>1, <4>2
    <3>3. CASE d # c
      <4>1. asked[d].at = "checked" /\ asked'[d].user = asked[d].user
            /\ (asked'[d].alone => asked[d].alone /\ d \notin peers)
        BY <2>3, <3>1, <3>3
      <4>2. /\ asked[d].user \in Leavers
            /\ asked[d].alone => record[asked[d].user].dates = 0
            /\ \A e \in X!SameUser(d) \ {d} : ~asked[d].alone
        BY <4>1 DEF X!IInv, X!AloneIsFirst
      <4>3. ASSUME NEW e \in Calls \ {d}, asked'[e].user = asked'[d].user, asked'[e].at = "checked",
                   asked'[d].alone
            PROVE  FALSE
        <5>1. CASE e = c
          <6>1. d \in peers
            BY <2>3, <4>1, <4>3, <5>1 DEF X!SameUser
          <6>2. QED
            BY <4>1, <4>3, <6>1
        <5>2. CASE e # c
          <6>1. e \in X!SameUser(d) \ {d}
            BY <2>3, <4>1, <4>3, <5>2 DEF X!SameUser
          <6>2. QED
            BY <4>1, <4>2, <4>3, <6>1
        <5>3. QED
          BY <5>1, <5>2
      <4>4. QED
        BY <1>0, <4>1, <4>2, <4>3
    <3>4. QED
      BY <3>2, <3>3
  <2>7. X!DeletionIsConfirmed'
    BY <2>3 DEF X!DeletionIsConfirmed
  <2>8. QED
    BY <1>0, <2>5, <2>6, <2>7 DEF X!IInv, X!AgeIsCounted, X!CancelledIsUndated,
                                     X!OneDateIsSet, X!RequestIsShown
<1>3. QED
  BY <1>1, <1>2

\* A deletion commits: the date is the first one if the request was alone, and then no other
\* request that is at work with the row is.
LEMMA CommitDeletionKeeps ==
  ASSUME X!IInv, NEW c \in Calls, X!CommitDeletion(c)
  PROVE  X!IInv'
<1> DEFINE User == asked[c].user
<1>0. /\ asked[c].at = "checked" /\ UNCHANGED <<storage, view, aside>>
      /\ asked \in [Calls -> X!Deletions]
      /\ record \in [Leavers -> [pending : BOOLEAN, dates : 0..2]]
  BY DEF X!CommitDeletion, X!IInv, X!TypeOK
<1>1. /\ User \in Leavers /\ (asked[c].alone => record[User].dates = 0)
      /\ \A d \in X!SameUser(c) \ {c} : ~asked[d].alone
  <2>1. \A d \in X!SameUser(c) : c \in X!SameUser(d)
    BY <1>0 DEF X!SameUser
  <2>2. QED
    BY <1>0, <2>1 DEF X!IInv, X!AloneIsFirst, X!SameUser
<1>2. ASSUME UNCHANGED record, NEW result \in {"ok", "error"}, asked' = [asked EXCEPT ![c].at = result]
      PROVE  X!IInv'
  <2>1. asked' = [asked EXCEPT ![c] = [asked[c] EXCEPT !.at = result]]
    BY <1>0, <1>2
  <2>2. /\ [asked[c] EXCEPT !.at = result] \in X!Deletions
        /\ [asked[c] EXCEPT !.at = result].at # "checked"
        /\ [asked[c] EXCEPT !.at = result].confirmed
    BY <1>0 DEF X!IInv, X!DeletionIsConfirmed, X!Deletions
  <2>3. QED
    BY <1>0, <1>2, <2>1, <2>2, RequestKeeps DEF X!IInv, X!TypeOK, X!AgeIsCounted, X!RequestIsShown
<1>3. ASSUME asked' = [asked EXCEPT ![c].at = "ok"],
             record' = [record EXCEPT ![User] =
               [pending |-> TRUE, dates |-> IF asked[c].alone /\ @.dates < 2
                                            THEN @.dates + 1 ELSE @.dates]]
      PROVE  X!IInv'
  <2>1. /\ \A d \in Calls : /\ asked'[d].user = asked[d].user
                            /\ asked'[d].at = IF d = c THEN "ok" ELSE asked[d].at
                            /\ asked'[d].alone = asked[d].alone
                            /\ asked'[d].confirmed = asked[d].confirmed
        /\ asked' \in [Calls -> X!Deletions]
    BY <1>0, <1>3 DEF X!Deletions
  <2>2. /\ \A u \in Leavers \ {User} : record'[u] = record[u]
        /\ record'[User].pending /\ record'[User].dates \in 0..1
        /\ record' \in [Leavers -> [pending : BOOLEAN, dates : 0..2]]
    <3>1. record[User].dates \in 0..1
      BY <1>0, <1>1 DEF X!IInv, X!OneDateIsSet
    <3>2. record'[User] = [pending |-> TRUE, dates |-> IF asked[c].alone /\ record[User].dates < 2
                                            THEN record[User].dates + 1 ELSE record[User].dates]
      BY <1>0, <1>1, <1>3
    <3>3. record'[User].pending /\ record'[User].dates \in 0..1
          /\ record'[User] \in [pending : BOOLEAN, dates : 0..2]
      BY <1>1, <3>1, <3>2
    <3>4. QED
      BY <1>0, <1>1, <1>3, <3>3
  <2>3. X!TypeOK'
    BY <1>0, <2>1, <2>2 DEF X!IInv, X!TypeOK
  <2>4. X!CancelledIsUndated' /\ X!OneDateIsSet' /\ X!DeletionIsConfirmed'
    BY <1>1, <2>1, <2>2 DEF X!IInv, X!CancelledIsUndated, X!OneDateIsSet, X!DeletionIsConfirmed
  <2>5. X!AloneIsFirst'
    <3>1. SUFFICES ASSUME NEW d \in Calls \ {c}, asked[d].at = "checked"
                   PROVE  /\ asked[d].user \in Leavers
                          /\ asked[d].alone => record'[asked[d].user].dates = 0
                          /\ \A e \in Calls \ {d} :
                               asked[e].user = asked[d].user /\ asked[e].at = "checked"
                                 => ~asked[d].alone
      BY <2>1 DEF X!AloneIsFirst, X!SameUser
    <3>2. /\ asked[d].user \in Leavers
          /\ asked[d].alone => record[asked[d].user].dates = 0
          /\ \A e \in X!SameUser(d) \ {d} : ~asked[d].alone
      BY <3>1 DEF X!IInv, X!AloneIsFirst
    <3>3. asked[d].user = User => ~asked[d].alone
      BY <1>1, <3>1 DEF X!SameUser
    <3>4. QED
      BY <2>2, <3>2, <3>3 DEF X!SameUser
  <2>6. QED
    BY <1>0, <2>3, <2>4, <2>5 DEF X!IInv, X!AgeIsCounted, X!RequestIsShown
<1>4. QED
  BY <1>0, <1>2, <1>3 DEF X!CommitDeletion

\* A deletion is cancelled: the row has no date again.
LEMMA CancelDeletionKeeps ==
  ASSUME X!IInv, X!CancelDeletion
  PROVE  X!IInv'
<1>1. /\ aside \in Leavers /\ aside' = None /\ UNCHANGED <<storage, view, asked>>
      /\ record' = [record EXCEPT ![aside] = [pending |-> FALSE, dates |-> 0]]
      /\ record \in [Leavers -> [pending : BOOLEAN, dates : 0..2]]
  BY DEF X!CancelDeletion, X!IInv, X!TypeOK
<1>2. /\ \A u \in Leavers : record'[u] = IF u = aside THEN [pending |-> FALSE, dates |-> 0] ELSE record[u]
      /\ record' \in [Leavers -> [pending : BOOLEAN, dates : 0..2]]
  BY <1>1
<1>3. X!TypeOK'
  BY <1>1, <1>2 DEF X!IInv, X!TypeOK
<1>4. X!AloneIsFirst' /\ X!CancelledIsUndated' /\ X!OneDateIsSet'
  BY <1>1, <1>2 DEF X!IInv, X!AloneIsFirst, X!SameUser, X!CancelledIsUndated, X!OneDateIsSet
<1>5. QED
  BY <1>1, <1>3, <1>4 DEF X!IInv, X!AgeIsCounted, X!DeletionIsConfirmed, X!RequestIsShown

\* AccountDeletion: its invariant is inductive.
LEMMA DeletionStep == X!Parameters /\ X!IInv /\ [X!Next]_X!vars => X!IInv'
<1> SUFFICES ASSUME X!Parameters, X!IInv, [X!Next]_X!vars PROVE X!IInv'
  OBVIOUS
<1>0. /\ view \in X!Dialogs
      /\ view.age = Wait - view.countdown /\ Wait \in Nat \ {0}
      /\ view.call # None => view.open \/ view.closed
      /\ asked \in [Calls -> X!Deletions]
      /\ \A c \in Calls : asked[c].confirmed
      /\ storage \in Leavers \cup {None} /\ None \notin Calls
  BY DEF X!IInv, X!TypeOK, X!AgeIsCounted, X!RequestIsShown, X!DeletionIsConfirmed, X!Parameters
<1>1. CASE UNCHANGED X!vars
  BY <1>0, <1>1, DialogKeeps DEF X!vars
<1>2. CASE X!Open
  BY <1>0, <1>2, DialogKeeps DEF X!Open, X!Closed, X!Dialogs
<1>3. CASE X!OpenDialog
  <2>1. view' = [view EXCEPT !.open = TRUE, !.phrase = FALSE, !.shows = "none", !.age = 0,
                                 !.countdown = Wait]
    BY <1>3 DEF X!OpenDialog
  <2>2. view' \in X!Dialogs /\ view'.age = 0 /\ view'.countdown = Wait /\ view'.open
    <3>1. Wait \in 0..Wait /\ 0 \in 0..Wait
      BY <1>0
    <3>2. QED
      BY <1>0, <2>1, <3>1 DEF X!Dialogs
  <2>3. QED
    BY <1>0, <1>3, <2>2, DialogKeeps DEF X!OpenDialog
<1>4. CASE X!CloseDialog
  BY <1>0, <1>4, DialogKeeps DEF X!CloseDialog, X!Dialogs
<1>5. CASE X!Second
  <2>1. view' = [view EXCEPT !.countdown = @ - 1, !.age = @ + 1]
    <3>1. view.age < Wait
      BY <1>0, <1>5 DEF X!Second, X!Dialogs
    <3>2. QED
      BY <3>1, <1>5 DEF X!Second
  <2>2. view.countdown \in 1..Wait /\ view.age + 1 \in 0..Wait
    BY <1>0, <1>5 DEF X!Second, X!Dialogs
  <2>3. QED
    <3>1. view' \in X!Dialogs /\ view'.age = Wait - view'.countdown /\ view'.open
      <4>1. view.countdown - 1 \in 0..Wait /\ view.age + 1 = Wait - (view.countdown - 1)
        BY <1>0, <2>2
      <4>2. QED
        BY <1>0, <1>5, <2>1, <2>2, <4>1 DEF X!Dialogs, X!Second
    <3>2. QED
      BY <1>0, <1>5, <3>1, DialogKeeps DEF X!Second
<1>6. CASE X!TypePhrase
  BY <1>0, <1>6, DialogKeeps DEF X!TypePhrase, X!Dialogs
<1>7. CASE X!TimerCloses
  BY <1>0, <1>7, DialogKeeps DEF X!TimerCloses, X!Dialogs
<1>8. ASSUME NEW u \in Leavers \cup {None}, X!SignIn(u) PROVE X!IInv'
  BY <1>0, <1>8, DialogKeeps DEF X!SignIn
<1>9. ASSUME NEW c \in Calls, X!Confirm(c) PROVE X!IInv'
  <2> DEFINE r == [X!NoDeletion EXCEPT !.at = "sent", !.user = storage, !.confirmed = view.age = Wait]
  <2>0. view.age = Wait
    BY <1>0, <1>9 DEF X!Confirm, X!Dialogs
  <2>1. r = [at |-> "sent", user |-> storage, confirmed |-> TRUE, alone |-> TRUE]
    <3> DEFINE meant == view.age = Wait
    <3>1. meant = TRUE
      BY <2>0
    <3>2. r = [X!NoDeletion EXCEPT !.at = "sent", !.user = storage, !.confirmed = meant]
      OBVIOUS
    <3> HIDE DEF meant, r
    <3>3. QED
      BY <3>1, <3>2 DEF X!NoDeletion
  <2>2. asked' = [asked EXCEPT ![c] = r]
    BY <1>9 DEF X!Confirm
  <2> HIDE DEF r
  <2>3. r \in X!Deletions /\ r.at = "sent" /\ r.confirmed
    BY <1>0, <2>1 DEF X!Deletions
  <2>4. view' \in X!Dialogs /\ view'.age = Wait - view'.countdown /\ view'.open
    BY <1>0, <1>9 DEF X!Confirm, X!Dialogs
  <2>5. QED
    BY <1>0, <1>9, <2>2, <2>3, <2>4, RequestKeeps DEF X!Confirm
<1>10. ASSUME NEW c \in Calls, X!DeletionAnswered(c) PROVE X!IInv'
  <2>1. X!NoDeletion \in X!Deletions
        /\ X!NoDeletion.at = "none" /\ X!NoDeletion.confirmed
    BY DEF X!NoDeletion, X!Deletions
  <2>2. QED
    BY <1>0, <1>10, <2>1, RequestKeeps DEF X!DeletionAnswered, X!WithError, X!Dialogs
<1>11. ASSUME NEW c \in Calls, X!DeletionUnanswered(c) PROVE X!IInv'
  <2>1. X!NoDeletion \in X!Deletions
        /\ X!NoDeletion.at = "none" /\ X!NoDeletion.confirmed
    BY DEF X!NoDeletion, X!Deletions
  <2>2. CASE UNCHANGED asked
    BY <1>0, <1>11, <2>2, DialogKeeps DEF X!DeletionUnanswered, X!WithError, X!Dialogs
  <2>3. CASE asked' = [asked EXCEPT ![c] = X!NoDeletion]
    BY <1>0, <1>11, <2>1, <2>3, RequestKeeps DEF X!DeletionUnanswered, X!WithError, X!Dialogs
  <2>4. QED
    BY <1>11, <2>2, <2>3 DEF X!DeletionUnanswered
<1>12. ASSUME NEW c \in Calls, X!Unheard(c) PROVE X!IInv'
  <2>1. X!NoDeletion \in X!Deletions
        /\ X!NoDeletion.at = "none" /\ X!NoDeletion.confirmed
    BY DEF X!NoDeletion, X!Deletions
  <2>2. QED
    BY <1>0, <1>12, <2>1, RequestKeeps DEF X!Unheard
<1>13. ASSUME NEW u \in Leavers, X!StartCancel(u) PROVE X!IInv'
  <2>1. aside' = u /\ UNCHANGED <<storage, record, view, asked>>
    BY <1>13 DEF X!StartCancel
  <2>2. X!TypeOK'
    BY <2>1 DEF X!IInv, X!TypeOK
  <2>3. QED
    BY <2>1, <2>2 DEF X!IInv, X!AgeIsCounted, X!AloneIsFirst, X!SameUser, X!CancelledIsUndated,
                       X!DeletionIsConfirmed,
                      X!OneDateIsSet, X!RequestIsShown
<1>14. QED
  BY <1>1, <1>2, <1>3, <1>4, <1>5, <1>6, <1>7, <1>8, <1>9, <1>10, <1>11, <1>12, <1>13,
     CheckPendingKeeps, CommitDeletionKeeps, CancelDeletionKeeps DEF X!Next

\* AccountDeletion: its invariant implies its properties.
LEMMA DeletionIsSafe == X!IInv => X!DeletionIsConfirmed /\ X!OneDateIsSet /\ X!RequestIsShown
BY DEF X!IInv

-----------------------------------------------------------------------------
(* The tray of notifications.                                              *)

\* The unread entries of s are its newest ones.
UnreadFirst(s) == \A m, n \in DOMAIN s : m < n /\ s[m] => s[n]

\* Notifications: idle tabs with empty trays are sound.
LEMMA TrayInit == E!Parameters /\ E!Init => E!IInv
<1> SUFFICES ASSUME E!Parameters, E!Init PROVE E!IInv
  OBVIOUS
<1>1. <<>> \in E!Entries /\ \A m \in DOMAIN <<>> : FALSE
  BY DEF E!Entries, E!Parameters
<1>2. E!Idle \in E!Hooks
  BY DEF E!Idle, E!Hooks, E!Parameters
<1>3. E!TypeOK
  BY <1>1, <1>2 DEF E!Init, E!TypeOK, E!Parameters
<1>4. E!OneStreamPerTab /\ E!RetriesAreCounted
  BY DEF E!Init, E!Idle, E!OneStreamPerTab, E!RetriesAreCounted, E!Parameters
<1>5. E!UnreadAreNewest
  BY <1>1 DEF E!Init, E!UnreadAreNewest
<1>6. QED
  BY <1>3, <1>4, <1>5 DEF E!IInv

\* A tab's hook moves, from sound to sound.
HookIsSound(h) ==
  /\ h \in E!Hooks
  /\ h.sources + (IF h.timer THEN 1 ELSE 0)
       = (IF h.state \in {"idle", "failed"} THEN 0 ELSE 1)
  /\ h.state = "idle" <=> ~h.token
  /\ h.state = "failed" => h.tries = MaxRetries + 1
  /\ h.tries <= MaxRetries + 1
  /\ h.sources > 0 => h.tries = h.retry + 1
  /\ h.timer => h.tries = h.retry
  /\ h.state = "open" => h.retry = 0

\* The hooks of an invariant are sound, each by itself.
LEMMA HooksAreSound == E!IInv => \A t \in Tabs : HookIsSound(asked[t])
BY DEF E!IInv, E!TypeOK, E!OneStreamPerTab, E!RetriesAreCounted, HookIsSound

\* One tab's hook moves.
LEMMA HookMoves ==
  ASSUME E!IInv, NEW t \in Tabs, NEW h, HookIsSound(h), asked' = [asked EXCEPT ![t] = h]
  PROVE  asked' \in [Tabs -> E!Hooks] /\ E!OneStreamPerTab' /\ E!RetriesAreCounted'
<1>1. \A u \in Tabs : HookIsSound(asked'[u])
  BY HooksAreSound DEF E!IInv, E!TypeOK
<1>2. asked' \in [Tabs -> E!Hooks]
  BY DEF E!IInv, E!TypeOK, HookIsSound
<1>3. E!OneStreamPerTab' /\ E!RetriesAreCounted'
  BY <1>1 DEF E!OneStreamPerTab, E!RetriesAreCounted, HookIsSound
<1>4. QED
  BY <1>2, <1>3

\* A stream opens anew: after none, or after the timer for it.
LEMMA ConnectIsSound ==
  ASSUME E!Parameters, NEW h \in E!Hooks, h.token, h.sources = 0, h.tries = h.retry, h.retry <= MaxRetries
  PROVE  HookIsSound(E!Connect(h))
<1> DEFINE n == h.sources + 1
           k == h.tries + 1
           named == IF h.retry = 0 THEN "connecting" ELSE "reconnecting"
           c == [h EXCEPT !.sources = n, !.timer = FALSE, !.tries = k, !.state = named]
<1>1. E!Connect(h) = c
  BY DEF E!Connect
<1>2. h.retry \in 0..MaxRetries /\ h.tries = h.retry /\ MaxRetries \in Nat
  BY DEF E!Hooks, E!Parameters
<1>3. n = 1 /\ n \in 0..2 /\ k = h.retry + 1 /\ k \in 0..(MaxRetries + 1)
      /\ named \in {"connecting", "reconnecting"}
  BY <1>2
<1> HIDE DEF n, k, named
<1>4. c \in E!Hooks
  BY <1>3, Zenon DEF E!Hooks
<1>5. /\ c.token = h.token /\ c.sources = n /\ c.timer = FALSE /\ c.retry = h.retry
      /\ c.state = named /\ c.tries = k
  BY DEF E!Hooks
<1> HIDE DEF c
<1>6. HookIsSound(c)
  BY <1>2, <1>3, <1>4, <1>5 DEF HookIsSound
<1>7. QED
  BY <1>1, <1>6

\* The trays and what is stored: what one tab shows anew, and may store.
LEMMA TrayMoves ==
  ASSUME E!IInv, NEW t \in Tabs, NEW s \in E!Entries, UnreadFirst(s), view' = [view EXCEPT ![t] = s],
         storage' \in {storage, s}
  PROVE  view' \in [Tabs -> E!Entries] /\ storage' \in E!Entries /\ E!UnreadAreNewest'
<1>1. view' \in [Tabs -> E!Entries] /\ storage' \in E!Entries
  BY DEF E!IInv, E!TypeOK
<1>2. \A u \in Tabs : UnreadFirst(view'[u])
  BY DEF E!IInv, E!TypeOK, E!UnreadAreNewest, UnreadFirst
<1>3. UnreadFirst(storage')
  BY DEF E!IInv, E!UnreadAreNewest, UnreadFirst
<1>4. QED
  BY <1>1, <1>2, <1>3 DEF E!UnreadAreNewest, UnreadFirst

\* A frame is put before the entries, and the oldest are dropped.
LEMMA PushedIsSound ==
  ASSUME E!Parameters, NEW s \in E!Entries, UnreadFirst(s)
  PROVE  /\ E!Newest(<<FALSE>> \o s, MaxEntries) \in E!Entries
         /\ UnreadFirst(E!Newest(<<FALSE>> \o s, MaxEntries))
<1> DEFINE l == <<FALSE>> \o s
           k == IF Len(l) < MaxEntries THEN Len(l) ELSE MaxEntries
           r == SubSeq(l, 1, k)
<1>1. s \in Seq(BOOLEAN) /\ Len(s) \in Nat /\ MaxEntries \in Nat \ {0}
  BY DEF E!Entries, E!Parameters
<1>2. /\ l \in Seq(BOOLEAN) /\ Len(l) = Len(s) + 1
      /\ l[1] = FALSE /\ \A n \in 1..Len(l) : n # 1 => l[n] = s[n - 1]
  <2>1. <<FALSE>> \in Seq(BOOLEAN) /\ Len(<<FALSE>>) = 1 /\ <<FALSE>>[1] = FALSE
    OBVIOUS
  <2>2. QED
    BY <1>1, <2>1, ConcatProperties
<1>3. k \in Nat /\ k <= Len(l) /\ k <= MaxEntries
  BY <1>1, <1>2
<1> HIDE DEF l, k
<1>4. r \in Seq(BOOLEAN) /\ Len(r) = k /\ \A n \in 1..k : r[n] = l[n]
  <2>1. r \in Seq(BOOLEAN) /\ Len(r) = k
    BY <1>2, <1>3, SubSeqProperties
  <2>2. \A n \in 1..k : r[n] = l[1 + n - 1]
    BY <1>2, <1>3, SubSeqProperties
  <2>3. QED
    BY <1>3, <2>1, <2>2
<1> HIDE DEF r
<1>5. \A m, n \in 1..Len(s) : m < n /\ s[m] => s[n]
  BY <1>1 DEF UnreadFirst
<1>6. ASSUME NEW m \in 1..k, NEW n \in 1..k, m < n, r[m] PROVE r[n]
  <2>1. m \in 1..Len(l) /\ n \in 1..Len(l)
    BY <1>2, <1>3
  <2>2. l[m] /\ m # 1 /\ n # 1
    BY <1>2, <1>4, <1>6, <2>1
  <2>3. m - 1 \in 1..Len(s) /\ n - 1 \in 1..Len(s) /\ m - 1 < n - 1
    <3>1. m \in Int /\ n \in Int /\ m < n /\ m >= 2 /\ n <= Len(s) + 1
      BY <1>1, <1>2, <1>6, <2>1, <2>2
    <3>2. QED
      BY <1>1, <3>1
  <2>4. s[m - 1]
    BY <1>2, <2>1, <2>2
  <2>5. s[n - 1]
    BY <1>5, <2>3, <2>4
  <2>6. QED
    BY <1>2, <1>4, <2>1, <2>2, <2>5
<1>7. UnreadFirst(r)
  BY <1>4, <1>6 DEF UnreadFirst
<1>8. r \in E!Entries
  BY <1>3, <1>4 DEF E!Entries
<1>9. r = E!Newest(l, MaxEntries)
  BY DEF r, E!Newest, k
<1>10. QED
  BY <1>7, <1>8, <1>9 DEF l

\* Entries that are all read.
LEMMA ReadIsSound ==
  ASSUME NEW s \in E!Entries
  PROVE  LET r == [n \in DOMAIN s |-> TRUE] IN r \in E!Entries /\ UnreadFirst(r)
<1> DEFINE r == [n \in DOMAIN s |-> TRUE]
<1>1. s \in Seq(BOOLEAN) /\ Len(s) \in Nat /\ DOMAIN s = 1..Len(s) /\ Len(s) <= MaxEntries
  BY DEF E!Entries
<1>2. r \in Seq(BOOLEAN) /\ Len(r) = Len(s)
  BY <1>1
<1>3. QED
  BY <1>1, <1>2 DEF E!Entries, UnreadFirst

\* Notifications: its invariant is inductive.
LEMMA TrayStep == E!Parameters /\ E!IInv /\ [E!Next]_E!vars => E!IInv'
<1> SUFFICES ASSUME E!Parameters, E!IInv, [E!Next]_E!vars PROVE E!IInv'
  OBVIOUS
<1>0. /\ asked \in [Tabs -> E!Hooks] /\ view \in [Tabs -> E!Entries] /\ storage \in E!Entries
      /\ count \in [Tabs -> 0..MaxToasts] /\ MaxRetries \in Nat \ {0} /\ MaxToasts \in Nat
  BY DEF E!IInv, E!TypeOK, E!Parameters
<1>1. CASE UNCHANGED E!vars
  BY <1>1 DEF E!vars, E!IInv, E!TypeOK, E!OneStreamPerTab, E!RetriesAreCounted, E!UnreadAreNewest
<1>2. ASSUME NEW t \in Tabs, NEW h, HookIsSound(h), asked' = [asked EXCEPT ![t] = h],
             UNCHANGED <<view, count, storage>>
      PROVE  E!IInv'
  BY <1>0, <1>2, HookMoves DEF E!IInv, E!TypeOK, E!UnreadAreNewest
<1>3. ASSUME NEW t \in Tabs, NEW s \in E!Entries, UnreadFirst(s), view' = [view EXCEPT ![t] = s],
             storage' = s, UNCHANGED asked, count' \in [Tabs -> 0..MaxToasts]
      PROVE  E!IInv'
  BY <1>0, <1>3, TrayMoves DEF E!IInv, E!TypeOK, E!OneStreamPerTab, E!RetriesAreCounted
<1>4. HookIsSound(E!Idle)
  BY <1>0 DEF HookIsSound, E!Idle, E!Hooks
<1>5. ASSUME NEW t \in Tabs, E!SetToken(t) PROVE E!IInv'
  <2>1. PICK token \in BOOLEAN :
          asked' = [asked EXCEPT ![t] =
                 IF token THEN E!Connect([E!Idle EXCEPT !.token = TRUE]) ELSE E!Idle]
    BY <1>5 DEF E!SetToken
  <2>2. HookIsSound(E!Connect([E!Idle EXCEPT !.token = TRUE]))
    <3>1. /\ [E!Idle EXCEPT !.token = TRUE] \in E!Hooks
          /\ [E!Idle EXCEPT !.token = TRUE].token /\ [E!Idle EXCEPT !.token = TRUE].sources = 0
          /\ [E!Idle EXCEPT !.token = TRUE].tries = 0 /\ [E!Idle EXCEPT !.token = TRUE].retry = 0
      <4>1. E!Idle \in E!Hooks /\ E!Idle.sources = 0 /\ E!Idle.tries = 0 /\ E!Idle.retry = 0
        BY <1>4 DEF E!Idle, HookIsSound
      <4>2. [E!Idle EXCEPT !.token = TRUE] \in E!Hooks
        BY <4>1, Zenon DEF E!Hooks
      <4>3. QED
        BY <4>1, <4>2 DEF E!Hooks
    <3>2. E!Parameters /\ 0 <= MaxRetries
      BY <1>0
    <3> DEFINE i == [E!Idle EXCEPT !.token = TRUE]
    <3> HIDE DEF i
    <3>3. i \in E!Hooks /\ i.token /\ i.sources = 0 /\ i.tries = i.retry /\ i.retry <= MaxRetries
      BY <1>0, <3>1 DEF i
    <3>4. HookIsSound(E!Connect(i))
      BY <3>2, <3>3, ConnectIsSound
    <3>5. QED
      BY <3>4 DEF i
  <2>3. QED
    BY <1>2, <1>4, <1>5, <2>1, <2>2 DEF E!SetToken
<1>6. ASSUME NEW t \in Tabs, E!OnOpen(t) PROVE E!IInv'
  <2> DEFINE o == asked[t]
             h == [o EXCEPT !.state = "open", !.retry = 0, !.tries = 1]
  <2>1. o \in E!Hooks /\ o.sources = 1 /\ ~o.timer /\ o.token
    BY <1>0, <1>6, HooksAreSound DEF E!OnOpen, HookIsSound, E!Hooks
  <2>2. asked' = [asked EXCEPT ![t] = h]
    BY <1>0, <1>6 DEF E!OnOpen
  <2>3. HookIsSound(h)
    <3>1. 0 \in 0..MaxRetries /\ 1 \in 0..(MaxRetries + 1)
      BY <1>0
    <3>2. h \in E!Hooks
      BY <2>1, <3>1, Zenon DEF E!Hooks
    <3>3. h.sources = 1 /\ ~h.timer /\ h.token /\ h.state = "open" /\ h.retry = 0 /\ h.tries = 1
      BY <2>1 DEF E!Hooks
    <3> HIDE DEF h
    <3>4. QED
      BY <1>0, <3>2, <3>3 DEF HookIsSound
  <2>4. QED
    BY <1>2, <1>6, <2>2, <2>3 DEF E!OnOpen
<1>7. ASSUME NEW t \in Tabs, E!OnError(t) PROVE E!IInv'
  <2> DEFINE o == asked[t]
             n == o.sources - 1
             k == o.retry + 1
             failed == [o EXCEPT !.sources = n, !.state = "failed"]
             waiting == [o EXCEPT !.sources = n, !.state = "reconnecting", !.retry = k, !.timer = TRUE]
  <2>1. /\ o \in E!Hooks /\ o.sources = 1 /\ ~o.timer /\ o.token /\ o.tries = k
        /\ o.retry \in 0..MaxRetries
    BY <1>0, <1>7, HooksAreSound DEF E!OnError, HookIsSound, E!Hooks
  <2>2. n = 0 /\ n \in 0..2
    BY <2>1
  <2> HIDE DEF n
  <2>3. ASSUME o.retry >= MaxRetries PROVE HookIsSound(failed)
    <3>1. failed \in E!Hooks
      BY <2>1, <2>2, Zenon DEF E!Hooks
    <3>2. /\ failed.sources = n /\ ~failed.timer /\ failed.token /\ failed.state = "failed"
          /\ failed.tries = o.tries /\ failed.retry = o.retry
      BY <2>1 DEF E!Hooks
    <3> HIDE DEF failed
    <3>3. o.retry = MaxRetries /\ o.tries = MaxRetries + 1
      BY <1>0, <2>1, <2>3
    <3>4. QED
      BY <1>0, <2>2, <3>1, <3>2, <3>3 DEF HookIsSound
  <2>4. ASSUME ~(o.retry >= MaxRetries) PROVE HookIsSound(waiting)
    <3>1. k \in 0..MaxRetries
      BY <1>0, <2>1, <2>4
    <3> HIDE DEF k
    <3>2. waiting \in E!Hooks
      BY <2>1, <2>2, <3>1, Zenon DEF E!Hooks
    <3>3. /\ waiting.sources = n /\ waiting.timer = TRUE /\ waiting.token
          /\ waiting.state = "reconnecting" /\ waiting.tries = o.tries /\ waiting.retry = k
      BY <2>1 DEF E!Hooks
    <3> HIDE DEF waiting
    <3>4. QED
      BY <1>0, <2>1, <2>2, <3>1, <3>2, <3>3 DEF HookIsSound
  <2>9. asked' = [asked EXCEPT ![t] = IF o.retry >= MaxRetries THEN failed ELSE waiting]
    BY <1>7 DEF E!OnError, E!Failed, n, k
  <2> HIDE DEF failed, waiting
  <2>5. UNCHANGED <<view, count, storage>>
    BY <1>7 DEF E!OnError
  <2>6. CASE o.retry >= MaxRetries
    BY <1>2, <2>9, <2>3, <2>5, <2>6
  <2>7. CASE ~(o.retry >= MaxRetries)
    BY <1>2, <2>9, <2>4, <2>5, <2>7
  <2>8. QED
    BY <2>6, <2>7
<1>8. ASSUME NEW t \in Tabs, E!TimerFires(t) PROVE E!IInv'
  <2>1. HookIsSound(asked[t]) /\ asked[t] \in E!Hooks /\ asked[t].timer
    BY <1>0, <1>8, HooksAreSound DEF E!TimerFires
  <2>2. asked[t].token /\ asked[t].sources = 0 /\ asked[t].tries = asked[t].retry
        /\ asked[t].retry <= MaxRetries
    <3>1. asked[t].retry \in 0..MaxRetries /\ asked[t].sources \in 0..2 /\ asked[t].token \in BOOLEAN
      BY <2>1 DEF E!Hooks
    <3>2. QED
      BY <1>0, <2>1, <3>1 DEF HookIsSound
  <2>3. HookIsSound(E!Connect(asked[t]))
    BY <2>1, <2>2, ConnectIsSound
  <2>4. QED
    BY <1>2, <1>8, <2>3 DEF E!TimerFires
<1>9. ASSUME NEW t \in Tabs, E!Mount(t) PROVE E!IInv'
  <2>1. UnreadFirst(storage)
    BY DEF E!IInv, E!UnreadAreNewest, UnreadFirst
  <2>2. view' \in [Tabs -> E!Entries] /\ storage' \in E!Entries /\ E!UnreadAreNewest'
    BY <1>0, <1>9, <2>1, TrayMoves DEF E!Mount
  <2>3. asked' \in [Tabs -> E!Hooks] /\ E!OneStreamPerTab' /\ E!RetriesAreCounted'
    BY <1>4, <1>9, HookMoves DEF E!Mount
  <2>4. count' \in [Tabs -> 0..MaxToasts]
    BY <1>0, <1>9 DEF E!Mount
  <2>5. QED
    BY <2>2, <2>3, <2>4 DEF E!IInv, E!TypeOK
<1>10. ASSUME NEW t \in Tabs, E!Push(t) PROVE E!IInv'
  <2>1. view[t] \in E!Entries /\ UnreadFirst(view[t])
    BY <1>0 DEF E!IInv, E!UnreadAreNewest, UnreadFirst
  <2>2. count' \in [Tabs -> 0..MaxToasts]
    BY <1>0, <1>10 DEF E!Push
  <2>3. QED
    BY <1>3, <1>10, <2>1, <2>2, PushedIsSound DEF E!Push, E!Keep
<1>11. ASSUME NEW t \in Tabs, E!EndToast(t) PROVE E!IInv'
  <2>1. count' \in [Tabs -> 0..MaxToasts]
    BY <1>0, <1>11 DEF E!EndToast
  <2>2. QED
    BY <1>11, <2>1 DEF E!EndToast, E!IInv, E!TypeOK, E!OneStreamPerTab, E!RetriesAreCounted,
           E!UnreadAreNewest
<1>12. ASSUME NEW t \in Tabs, E!MarkAllRead(t) PROVE E!IInv'
  <2>1. count' \in [Tabs -> 0..MaxToasts] /\ view[t] \in E!Entries
    BY <1>0, <1>12 DEF E!MarkAllRead
  <2>2. QED
    BY <1>3, <1>12, <2>1, ReadIsSound DEF E!MarkAllRead, E!Keep
<1>13. ASSUME NEW t \in Tabs, E!ClearAll(t) PROVE E!IInv'
  <2>1. <<>> \in E!Entries /\ UnreadFirst(<<>>)
    BY DEF E!Entries, UnreadFirst, E!Parameters
  <2>2. QED
    BY <1>0, <1>3, <1>13, <2>1 DEF E!ClearAll, E!Keep
<1>14. QED
  BY <1>1, <1>5, <1>6, <1>7, <1>8, <1>9, <1>10, <1>11, <1>12, <1>13 DEF E!Next

\* Notifications: its invariant implies its properties.
LEMMA TrayIsSafe == E!IInv => E!OneStreamPerTab /\ E!UnreadAreNewest
BY DEF E!IInv

-----------------------------------------------------------------------------
(* The withdrawal dialog.                                                  *)

\* WalletPage: a page that loads, with no requests, is sound.
LEMMA WalletInit == W!Parameters /\ W!Init => W!IInv
<1> SUFFICES ASSUME W!Parameters, W!Init PROVE W!IInv
  OBVIOUS
<1>1. /\ keysMade = << >> /\ Len(keysMade) = 0 /\ keysMade \in Seq(W!Made) /\ debits = << >>
      /\ Len(debits) = 0 /\ debits \in Seq(1..Len(keysMade))
  BY DEF W!Init
<1>2. W!TypeOK
  BY <1>1 DEF W!Init, W!TypeOK, W!Shows, W!EmptyForm, W!Forms, W!Balances, W!Parameters
<1>3. W!Typed
  BY <1>1, <1>2 DEF W!Init, W!Typed, W!EmptyForm, W!Parameters
<1>4. W!AwaitedIsSent /\ W!KeptIsLast /\ W!NewKeysAreHeard
  BY <1>1 DEF W!Init, W!AwaitedIsSent, W!KeptIsLast, W!NewKeysAreHeard
<1>5. QED
  BY <1>3, <1>4 DEF W!IInv

\* What is shown and typed, while no request is made and none is answered.
LEMMA FormKeeps ==
  ASSUME W!IInv, UNCHANGED <<sending, kept, keysMade, network, answer, W!server, heard, loads>>,
         page' \in {"loading", "ready", "failed"}, shown' \in W!Balances,
         shown'.optimistic <= shown'.confirmed, dialog' \in W!Forms,
         dialog'.confirmed => dialog'.name # None, lookups' \subseteq Destinations
  PROVE  W!IInv'
<1>1. W!TypeOK'
  BY DEF W!IInv, W!Typed, W!TypeOK, W!server
<1>2. W!Typed'
  BY <1>1 DEF W!IInv, W!Typed, W!server
<1>3. W!AwaitedIsSent' /\ W!KeptIsLast' /\ W!NewKeysAreHeard'
  BY DEF W!IInv, W!AwaitedIsSent, W!KeptIsLast, W!NewKeysAreHeard
<1>4. QED
  BY <1>2, <1>3 DEF W!IInv

\* The page stops waiting: for a load of its own, after an answer or after an error.  What is
\* kept stays with the load of the page, or is forgotten: for an answer, or for a load.
LEMMA StopsWaiting ==
  ASSUME W!IInv, UNCHANGED <<keysMade, W!server>>, sending' = 0, answer' = 0,
         page' \in {"loading", "ready", "failed"}, shown' \in W!Balances,
         shown'.optimistic <= shown'.confirmed, dialog' \in W!Forms,
         dialog'.confirmed => dialog'.name # None, lookups' \subseteq Destinations,
         network' \subseteq [key : W!Keys, awaited : BOOLEAN],
         \A r \in network' : ~r.awaited /\ r.key <= Len(keysMade),
         heard \subseteq heard', loads' \in 1..MaxLoads, loads <= loads',
         \/ kept' = kept /\ loads' = loads
         \/ kept' = None /\ (loads' = loads => Len(keysMade) \in heard')
  PROVE  W!IInv'
<1>0. /\ keysMade \in Seq(W!Made) /\ Len(keysMade) \in Nat /\ loads \in Nat /\ loads' \in Nat
      /\ kept \in {None} \cup W!Kept
  BY DEF W!IInv, W!Typed, W!TypeOK
<1>1. W!TypeOK'
  BY <1>0 DEF W!IInv, W!Typed, W!TypeOK, W!server
<1>2. W!Typed'
  <2>1. \A k \in 1..Len(keysMade) : keysMade[k].load <= loads'
    <3>1. SUFFICES ASSUME NEW k \in 1..Len(keysMade) PROVE keysMade[k].load <= loads'
      OBVIOUS
    <3>2. keysMade[k] \in W!Made /\ keysMade[k].load <= loads
      BY <1>0 DEF W!IInv, W!Typed
    <3>3. QED
      BY <1>0, <3>2 DEF W!Made
  <2>2. QED
    BY <1>1, <2>1 DEF W!IInv, W!Typed, W!server
<1>3. W!AwaitedIsSent'
  BY DEF W!AwaitedIsSent
<1>4. W!KeptIsLast'
  <2>1. CASE kept' = kept /\ loads' = loads
    BY <2>1 DEF W!IInv, W!KeptIsLast
  <2>2. CASE kept' = None /\ (loads' = loads => Len(keysMade) \in heard')
    <3>1. ASSUME Len(keysMade) > 0, loads' # loads PROVE keysMade[Len(keysMade)].load # loads'
      <4>1. Len(keysMade) \in 1..Len(keysMade)
        BY <1>0, <3>1
      <4>2. keysMade[Len(keysMade)] \in W!Made /\ keysMade[Len(keysMade)].load <= loads
        BY <1>0, <4>1 DEF W!IInv, W!Typed
      <4>3. QED
        BY <1>0, <3>1, <4>2 DEF W!Made
    <3>2. QED
      BY <2>2, <3>1 DEF W!KeptIsLast
  <2>3. QED
    BY <2>1, <2>2
<1>5. W!NewKeysAreHeard'
  BY DEF W!IInv, W!NewKeysAreHeard
<1>6. QED
  BY <1>2, <1>3, <1>4, <1>5 DEF W!IInv

\* A form is sent: with the key kept for it, or with a new one.
LEMMA SubmitKeeps ==
  ASSUME W!Parameters, W!IInv, W!Submit
  PROVE  W!IInv'
<1> DEFINE key == W!KeyFor
           last == Len(keysMade)
<1>0. /\ keysMade \in Seq(W!Made) /\ last \in Nat /\ loads \in 1..MaxLoads /\ MaxLoads \in Nat
      /\ kept \in {None} \cup W!Kept /\ None \notin W!Kept /\ None \notin Destinations
      /\ dialog \in W!Forms /\ shown \in W!Balances /\ OnChain \subseteq Nat /\ MaxKeys \in Nat
  BY DEF W!IInv, W!Typed, W!TypeOK, W!Parameters
<1>1. /\ sending = 0 /\ dialog.confirmed /\ dialog.to # None /\ key <= MaxKeys
      /\ shown' = W!Applied(1) /\ kept' = [body |-> W!Form, key |-> key] /\ sending' = key
      /\ keysMade' = IF key > last THEN Append(keysMade, [body |-> W!Form, load |-> loads]) ELSE keysMade
      /\ network' = network \cup {[key |-> key, awaited |-> TRUE]}
      /\ UNCHANGED <<page, dialog, answer, lookups, W!server, heard, edits, loads>>
  BY DEF W!Submit, W!Submittable, W!Editable
<1>2. W!Form \in W!Body
  BY <1>0, <1>1 DEF W!Form, W!Body, W!Forms, W!IInv, W!Typed
<1>3. kept # None => kept.key = last /\ keysMade[last] = [body |-> kept.body, load |-> loads]
                     /\ last > 0 /\ kept \in W!Kept
  <2>1. kept # None => kept.key \in W!Keys
    BY <1>0 DEF W!Kept
  <2>2. QED
    BY <1>0, <2>1 DEF W!IInv, W!KeptIsLast, W!Keys
<1>4. \/ key = last + 1 /\ (kept = None \/ kept.body # W!Form)
      \/ key = last /\ last > 0 /\ kept # None /\ kept.body = W!Form
  BY <1>3 DEF W!KeyFor
<1> HIDE DEF key
<1>5. key \in W!Keys /\ key \in 1..(last + 1)
  BY <1>0, <1>1, <1>4 DEF W!Keys
<1>6. kept' \in W!Kept /\ kept' # None
  BY <1>0, <1>1, <1>2, <1>5 DEF W!Kept
<1>7. /\ keysMade' \in Seq(W!Made) /\ Len(keysMade') = key /\ Len(keysMade') >= last
      /\ \A k \in 1..last : keysMade'[k] = keysMade[k]
      /\ keysMade'[key] = [body |-> W!Form, load |-> loads]
  <2>1. CASE key = last + 1
    <3>1. keysMade' = Append(keysMade, [body |-> W!Form, load |-> loads])
      BY <1>0, <1>1, <2>1
    <3>2. [body |-> W!Form, load |-> loads] \in W!Made
      BY <1>0, <1>2 DEF W!Made
    <3>3. QED
      BY <1>0, <2>1, <3>1, <3>2
  <2>2. CASE key = last
    <3>1. keysMade' = keysMade
      BY <1>0, <1>1, <2>2
    <3>2. keysMade[last] = [body |-> W!Form, load |-> loads]
      BY <1>0, <1>3, <1>4, <2>2
    <3>3. QED
      BY <1>0, <2>2, <3>1, <3>2
  <2>3. QED
    BY <1>4, <2>1, <2>2
<1>8. shown' \in W!Balances /\ shown'.optimistic <= shown'.confirmed
  <2>1. shown.confirmed \in Nat
    <3>1. shown.confirmed \in {0} \cup OnChain
      BY <1>0, Zenon DEF W!Balances
    <3>2. \A n \in {0} \cup OnChain : n \in Nat
      BY <1>0
    <3>3. QED
      BY <3>1, <3>2, Zenon
  <2> DEFINE n == IF shown.confirmed >= 1 THEN shown.confirmed - 1 ELSE 0
  <2>2. n \in Nat /\ n <= shown.confirmed
    BY <2>1
  <2>3. shown' = [shown EXCEPT !.optimistic = n, !.pending = TRUE]
    BY <1>1 DEF W!Applied
  <2> HIDE DEF n
  <2>4. QED
    BY <1>0, <2>2, <2>3 DEF W!Balances
<1>9. answer = 0 /\ \A r \in network : ~r.awaited
  <2>1. answer = 0
    BY <1>1 DEF W!IInv, W!Typed, W!TypeOK
  <2>2. \A r \in network : r.key # 0
    BY DEF W!IInv, W!Typed, W!TypeOK, W!Keys
  <2>3. QED
    BY <1>1, <2>1, <2>2 DEF W!IInv, W!AwaitedIsSent
<1>10. /\ network' \subseteq [key : W!Keys, awaited : BOOLEAN]
       /\ \A r \in network' : r.key <= key /\ (r.awaited => r.key = key)
  <2>1. network \subseteq [key : W!Keys, awaited : BOOLEAN] /\ \A r \in network : r.key <= last
    BY DEF W!IInv, W!Typed, W!TypeOK
  <2>2. SUFFICES ASSUME NEW r \in network'
                 PROVE  r \in [key : W!Keys, awaited : BOOLEAN] /\ r.key <= key /\ (r.awaited
                        => r.key = key)
    OBVIOUS
  <2>3. CASE r \in network
    <3>1. r.key \in Nat
      BY <2>1, <2>3 DEF W!Keys
    <3>2. QED
      BY <1>0, <1>5, <1>7, <1>9, <2>1, <2>3, <3>1
  <2>4. CASE r = [key |-> key, awaited |-> TRUE]
    BY <1>5, <2>4
  <2>5. QED
    BY <1>1, <2>3, <2>4
<1>11. W!TypeOK'
  BY <1>0, <1>1, <1>5, <1>6, <1>7, <1>8, <1>9, <1>10 DEF W!IInv, W!Typed, W!TypeOK, W!server
<1>12. W!Typed'
  <2>1. debits' \in Seq(1..Len(keysMade'))
    <3>1. debits \in Seq(1..last) /\ debits' = debits
      BY <1>1 DEF W!IInv, W!Typed, W!server
    <3>2. 1..last \subseteq 1..Len(keysMade')
      BY <1>0, <1>5, <1>7
    <3>3. QED
      BY <3>1, <3>2
  <2>2. \A k \in 1..Len(keysMade') : keysMade'[k].load <= loads
    <3>1. SUFFICES ASSUME NEW k \in 1..key PROVE keysMade'[k].load <= loads
      BY <1>7
    <3>2. CASE k = key
      BY <1>0, <1>7, <3>2
    <3>3. CASE k # key
      <4>1. k \in 1..last
        BY <1>0, <1>5, <3>3
      <4>2. keysMade'[k] = keysMade[k] /\ keysMade[k].load <= loads
        BY <1>7, <4>1 DEF W!IInv, W!Typed
      <4>3. QED
        BY <4>2
    <3>4. QED
      BY <3>2, <3>3
  <2>3. QED
    BY <1>1, <1>5, <1>7, <1>10, <1>11, <2>1, <2>2 DEF W!IInv, W!Typed, W!server, W!Keys
<1>13. W!AwaitedIsSent'
  BY <1>1, <1>6, <1>9, <1>10 DEF W!AwaitedIsSent
<1>14. W!KeptIsLast'
  BY <1>1, <1>6, <1>7 DEF W!KeptIsLast
<1>15. W!NewKeysAreHeard'
  <2>1. SUFFICES ASSUME NEW k \in 1..(key - 1), keysMade'[k] = keysMade'[k + 1] PROVE k \in heard
    BY <1>1, <1>7 DEF W!NewKeysAreHeard
  <2>2. CASE k + 1 \in 1..last
    <3>1. k \in 1..(last - 1)
      BY <1>0, <2>2
    <3>2. keysMade'[k] = keysMade[k] /\ keysMade'[k + 1] = keysMade[k + 1]
      BY <1>0, <1>7, <2>2, <3>1
    <3>3. QED
      BY <2>1, <3>1, <3>2 DEF W!IInv, W!NewKeysAreHeard
  <2>3. CASE k + 1 \notin 1..last
    <3>1. key = last + 1 /\ k = last /\ last > 0
      BY <1>0, <1>5, <2>3
    <3>2. keysMade[last] = [body |-> W!Form, load |-> loads]
      BY <1>0, <1>7, <2>1, <3>1
    <3>3. kept = None
      BY <1>0, <1>3, <1>4, <3>1, <3>2
    <3>4. QED
      BY <3>1, <3>2, <3>3 DEF W!IInv, W!KeptIsLast
  <2>4. QED
    BY <2>2, <2>3
<1>16. QED
  BY <1>12, <1>13, <1>14, <1>15 DEF W!IInv

\* A request reaches the server, which debits its key or does not.
LEMMA RequestArrives ==
  ASSUME W!Parameters, W!IInv, NEW r \in network, W!Reaches(r),
         \/ UNCHANGED W!server
         \/ debits' = Append(debits, r.key) /\ balance' = balance - 1 /\ balance # 0
  PROVE  W!IInv'
<1>0. /\ r \in [key : W!Keys, awaited : BOOLEAN] /\ r.key \in 1..Len(keysMade)
      /\ network \subseteq [key : W!Keys, awaited : BOOLEAN]
      /\ debits \in Seq(1..Len(keysMade)) /\ balance \in Nat /\ Balance \in Nat
      /\ balance + Len(debits) = Balance /\ Len(debits) \in Nat
  BY DEF W!IInv, W!Typed, W!TypeOK, W!Keys, W!Parameters
<1>1. /\ network' = network \ {r} /\ answer' = IF r.awaited THEN r.key ELSE answer
      /\ UNCHANGED <<page, shown, dialog, sending, kept, keysMade, lookups, heard, edits, loads>>
  BY DEF W!Reaches, W!screen
<1>2. /\ debits' \in Seq(1..Len(keysMade)) /\ balance' \in Nat /\ balance' + Len(debits') = Balance
  <2>1. CASE UNCHANGED W!server
    BY <1>0, <2>1 DEF W!server
  <2>2. CASE debits' = Append(debits, r.key) /\ balance' = balance - 1 /\ balance # 0
    <3>1. debits' \in Seq(1..Len(keysMade)) /\ Len(debits') = Len(debits) + 1
      BY <1>0, <2>2, AppendProperties
    <3>2. balance \in Nat /\ balance # 0 /\ balance + Len(debits) = Balance /\ Len(debits) \in Nat
      BY <1>0, <2>2
    <3>3. balance' = balance - 1
      BY <2>2
    <3>4. balance' \in Nat /\ balance' + (Len(debits) + 1) = Balance
      BY <3>2, <3>3
    <3>5. QED
      BY <3>1, <3>4
  <2>3. QED
    BY <2>1, <2>2
<1>3. (r.awaited => r.key = sending) /\ \A x \in network : x.awaited => x.key = sending /\ answer = 0
  BY DEF W!IInv, W!AwaitedIsSent
<1>4. answer' # 0 => answer' = sending
  BY <1>1, <1>3 DEF W!IInv, W!Typed, W!TypeOK
<1>5. W!TypeOK'
  BY <1>0, <1>1, <1>2, <1>4 DEF W!IInv, W!Typed, W!TypeOK
<1>6. W!Typed'
  BY <1>1, <1>2, <1>5 DEF W!IInv, W!Typed
<1>7. W!AwaitedIsSent'
  <2>1. ASSUME NEW x \in network', x.awaited PROVE x.key = sending /\ answer' = 0
    <3>1. x \in network /\ x # r /\ x.key = sending /\ answer = 0
      BY <1>1, <1>3, <2>1
    <3>2. ~r.awaited
      <4>1. x \in [key : W!Keys, awaited : BOOLEAN]
        BY <1>0, <3>1
      <4>2. r.awaited => x.key = r.key /\ x.awaited = r.awaited
        BY <1>0, <1>3, <2>1, <3>1, <4>1
      <4>3. QED
        BY <1>0, <3>1, <4>1, <4>2
    <3>3. QED
      BY <1>1, <3>1, <3>2
  <2>2. QED
    BY <1>1, <2>1 DEF W!IInv, W!AwaitedIsSent
<1>8. W!KeptIsLast' /\ W!NewKeysAreHeard'
  BY <1>1 DEF W!IInv, W!KeptIsLast, W!NewKeysAreHeard
<1>9. QED
  BY <1>6, <1>7, <1>8 DEF W!IInv

\* WalletPage: its invariant is inductive.
LEMMA WalletStep == W!Parameters /\ W!IInv /\ [W!Next]_W!vars => W!IInv'
<1> SUFFICES ASSUME W!Parameters, W!IInv, [W!Next]_W!vars PROVE W!IInv'
  OBVIOUS
<1>0. /\ page \in {"loading", "ready", "failed"} /\ shown \in W!Balances /\ dialog \in W!Forms
      /\ shown.optimistic <= shown.confirmed /\ (dialog.confirmed => dialog.name # None)
      /\ lookups \subseteq Destinations /\ OnChain \subseteq Nat /\ MaxLoads \in Nat
      /\ network \subseteq [key : W!Keys, awaited : BOOLEAN]
      /\ \A r \in network : r.key <= Len(keysMade)
      /\ loads \in 1..MaxLoads
      /\ sending \in 0..Len(keysMade) /\ (answer # 0 => answer = sending)
      /\ None \notin Destinations
  BY DEF W!IInv, W!Typed, W!TypeOK, W!Parameters
<1>1. \A n \in {0} \cup OnChain : W!Shows(n) \in W!Balances
       /\ W!Shows(n).optimistic <= W!Shows(n).confirmed
  BY <1>0 DEF W!Shows, W!Balances
<1>2. W!EmptyForm \in W!Forms /\ ~W!EmptyForm.confirmed
  BY DEF W!EmptyForm, W!Forms
<1>3. /\ W!GivenUp \subseteq [key : W!Keys, awaited : BOOLEAN]
      /\ \A r \in W!GivenUp : ~r.awaited /\ r.key <= Len(keysMade)
  <2>1. SUFFICES ASSUME NEW r \in network
                 PROVE  /\ [r EXCEPT !.awaited = FALSE] \in [key : W!Keys, awaited : BOOLEAN]
                        /\ ~[r EXCEPT !.awaited = FALSE].awaited
                        /\ [r EXCEPT !.awaited = FALSE].key <= Len(keysMade)
    BY DEF W!GivenUp
  <2>2. QED
    BY <1>0
<1>4. W!Reverted \in W!Balances /\ W!Reverted.optimistic <= W!Reverted.confirmed
  <2>1. shown.confirmed \in {0} \cup OnChain
    BY <1>0, Zenon DEF W!Balances
  <2>2. QED
    BY <1>1, <2>1 DEF W!Reverted
<1>5. CASE UNCHANGED W!vars
  BY <1>0, <1>5, FormKeeps DEF W!vars, W!screen, W!wires
<1>6. CASE W!LoadWallet
  BY <1>0, <1>1, <1>6, FormKeeps DEF W!LoadWallet, W!wires
<1>7. CASE W!Reload
  <2>1. loads' \in 1..MaxLoads /\ loads <= loads' /\ loads' # loads
    <3>1. loads < MaxLoads /\ loads' = loads + 1
      BY <1>7 DEF W!Reload
    <3>2. QED
      BY <1>0, <3>1
  <2>2. QED
    BY <1>0, <1>1, <1>2, <1>3, <1>7, <2>1, StopsWaiting DEF W!Reload
<1>8. CASE W!Open
  <2>1. dialog' \in W!Forms /\ (dialog'.confirmed => dialog'.name # None)
    BY <1>0, <1>8 DEF W!Open, W!Forms
  <2>2. QED
    BY <1>0, <1>8, <2>1, FormKeeps DEF W!Open, W!wires
<1>9. CASE W!Close
  <2>1. dialog' \in W!Forms /\ (dialog'.confirmed => dialog'.name # None)
    BY <1>0, <1>2, <1>9 DEF W!Close, W!Forms
  <2>2. QED
    BY <1>0, <1>9, <2>1, FormKeeps DEF W!Close, W!wires
<1>10. CASE W!ConfirmName
  <2>1. dialog' \in W!Forms /\ (dialog'.confirmed => dialog'.name # None)
    BY <1>0, <1>10 DEF W!ConfirmName, W!Forms
  <2>2. QED
    BY <1>0, <1>10, <2>1, FormKeeps DEF W!ConfirmName, W!wires
<1>11. ASSUME NEW d \in Destinations \cup {None}, W!EnterDestination(d) PROVE W!IInv'
  <2>1. dialog' \in W!Forms /\ ~dialog'.confirmed
    BY <1>0, <1>11 DEF W!EnterDestination, W!Forms
  <2>2. lookups' \subseteq Destinations
    BY <1>0, <1>11 DEF W!EnterDestination
  <2>3. QED
    BY <1>0, <1>11, <2>1, <2>2, FormKeeps DEF W!EnterDestination
<1>12. ASSUME NEW d \in Destinations, W!LookupAnswers(d) PROVE W!IInv'
  <2>1. dialog' \in W!Forms /\ (dialog'.confirmed => dialog'.name # None)
    BY <1>0, <1>12 DEF W!LookupAnswers, W!Forms
  <2>2. lookups' \subseteq Destinations
    BY <1>0, <1>12 DEF W!LookupAnswers
  <2>3. QED
    BY <1>0, <1>12, <2>1, <2>2, FormKeeps DEF W!LookupAnswers
<1>13. CASE W!Answered
  <2>1. /\ answer # 0 /\ answer' = 0 /\ heard' = heard \cup {answer} /\ kept' = None /\ sending' = 0
        /\ shown' = W!Reverted
        /\ UNCHANGED <<page, dialog, keysMade, network, lookups, W!server, edits, loads>>
    BY <1>13 DEF W!Answered, W!Unlocked
  <2>2. \A r \in network : ~r.awaited
    BY <2>1 DEF W!IInv, W!AwaitedIsSent
  <2>3. answer = sending /\ sending = Len(keysMade)
    <3>1. sending # 0 /\ kept # None /\ kept.key = sending
      BY <1>0, <2>1 DEF W!IInv, W!AwaitedIsSent
    <3>2. QED
      BY <1>0, <2>1, <3>1 DEF W!IInv, W!KeptIsLast
  <2>4. QED
    <3>1. \A r \in network : ~r.awaited /\ r.key <= Len(keysMade)
      BY <1>0, <2>2
    <3>2. /\ heard \subseteq heard' /\ Len(keysMade) \in heard' /\ network' = network
          /\ loads' = loads /\ loads' \in 1..MaxLoads /\ loads <= loads'
      BY <1>0, <2>1, <2>3
    <3>3. QED
      BY <1>0, <1>4, <2>1, <3>1, <3>2, StopsWaiting
<1>14. CASE W!NetworkError
  <2>1. /\ answer' = 0 /\ sending' = 0 /\ shown' = W!Reverted
        /\ network' \in {W!GivenUp, {r \in network : ~r.awaited}}
        /\ UNCHANGED <<page, dialog, kept, keysMade, lookups, W!server, heard, edits, loads>>
    BY <1>14 DEF W!NetworkError, W!Unlocked
  <2>2. /\ network' \subseteq [key : W!Keys, awaited : BOOLEAN]
        /\ \A r \in network' : ~r.awaited /\ r.key <= Len(keysMade)
    BY <1>0, <1>3, <2>1
  <2>3. QED
    <3>1. heard \subseteq heard' /\ loads' = loads /\ loads' \in 1..MaxLoads /\ loads <= loads'
      BY <1>0, <2>1
    <3>2. QED
      BY <1>0, <1>4, <2>1, <2>2, <3>1, StopsWaiting
<1>15. ASSUME NEW r \in network, W!Serve(r) \/ W!ServerError(r) PROVE W!IInv'
  BY <1>15, RequestArrives DEF W!Serve, W!ServerError
<1>16. QED
  BY <1>5, <1>6, <1>7, <1>8, <1>9, <1>10, <1>11, <1>12, <1>13, <1>14, <1>15, SubmitKeeps DEF W!Next

\* WalletPage: its invariant implies that a repetition does not debit twice.
LEMMA WalletIsSafe == W!IInv => W!RetriesDebitOnce
<1> SUFFICES ASSUME W!IInv, NEW k \in W!Keys, W!Debited(k), W!Debited(k + 1),
       keysMade[k] = keysMade[k + 1]
             PROVE  k \in heard
  BY DEF W!RetriesDebitOnce
<1>1. k + 1 \in 1..Len(keysMade) /\ k \in Nat /\ k >= 1 /\ Len(keysMade) \in Nat
  BY DEF W!Debited, W!IInv, W!Typed, W!TypeOK, W!Keys
<1>2. k \in 1..(Len(keysMade) - 1)
  BY <1>1
<1>3. QED
  BY <1>2 DEF W!IInv, W!NewKeysAreHeard

-----------------------------------------------------------------------------
(* Signing in.                                                             *)

\* A tab's page v and its requests r, by themselves, when n sign-ins were issued.
TabIsSound(v, r, n) ==
  /\ v \in S!Views /\ r \in S!Waiting
  /\ r.bearer <= n
  /\ r.verify # "none" => v.page = "verify"
  /\ r.verify = "ok" => r.box \in 1..n
  /\ v.token # 0 /\ v.page = "verify" => r.verify = "done" /\ v.shows # "none"

\* A tab's page v and what is stored.
IsSignedIn(v) ==
  v.token # 0 =>
    \/ storage = S!Nothing
    \/ storage.token = v.token /\ S!Admitted /\ v.page # "signup"

\* The tabs of an invariant are sound, each by itself.
LEMMA TabsAreSound ==
  S!IInv => \A t \in Tabs : TabIsSound(view[t], asked[t], Len(record)) /\ IsSignedIn(view[t])
BY DEF S!IInv, S!Typed, S!RequestsAreOfThePage, S!VerifiedHasItsSession, TabIsSound, IsSignedIn

\* And tabs that are sound, with what is stored, are the invariant again after a step.
LEMMA SoundTabs ==
  ASSUME record' \in Seq(S!SignIns), storage' \in S!Stored, storage'.token <= Len(record'),
         count' \in Nat,
         S!CookieIsTheSession', view' = [t \in Tabs |-> view'[t]], asked' = [t \in Tabs |-> asked'[t]],
         \A t \in Tabs : TabIsSound(view'[t], asked'[t], Len(record')) /\ IsSignedIn(view[t])'
  PROVE  S!IInv'
<1>1. view' \in [Tabs -> S!Views] /\ asked' \in [Tabs -> S!Waiting]
  BY DEF TabIsSound
<1>2. S!Typed'
  BY <1>1 DEF S!Typed
<1>3. S!RequestsAreOfThePage'
  BY DEF S!RequestsAreOfThePage, TabIsSound
<1>4. S!VerifiedHasItsSession'
  BY DEF S!VerifiedHasItsSession, IsSignedIn
<1>5. QED
  BY <1>2, <1>3, <1>4 DEF S!IInv

\* SignInPage: nothing stored and blank pages are sound.
LEMMA SignInInit == S!Parameters /\ S!Init => S!IInv
<1> SUFFICES ASSUME S!Parameters, S!Init PROVE S!IInv
  OBVIOUS
<1>1. /\ record = <<>> /\ record \in Seq(S!SignIns) /\ Len(record) = 0 /\ count = 0
      /\ storage = S!Nothing
      /\ view = [t \in Tabs |-> S!Blank] /\ asked = [t \in Tabs |-> S!NoRequests]
  BY DEF S!Init
<1>2. S!Blank \in S!Views /\ S!Blank.token = 0 /\ S!NoRequests \in S!Waiting
      /\ S!NoRequests.bearer = 0 /\ S!NoRequests.verify = "none"
  BY DEF S!Blank, S!Views, S!NoRequests, S!Waiting
<1>3. S!Typed
  BY <1>1, <1>2 DEF S!Typed, S!Stored, S!Nothing
<1>4. S!RequestsAreOfThePage /\ S!VerifiedHasItsSession
  BY <1>1, <1>2 DEF S!RequestsAreOfThePage, S!VerifiedHasItsSession
<1>5. S!CookieIsTheSession
  BY <1>1 DEF S!CookieIsTheSession, S!Nothing
<1>6. QED
  BY <1>3, <1>4, <1>5 DEF S!IInv

\* One tab moves, what is stored stays, and a sign-in may be issued or revoked: none expires.
LEMMA TabMoves ==
  ASSUME S!IInv, UNCHANGED storage, count' \in Nat,
         record' \in Seq(S!SignIns), Len(record) <= Len(record'),
         \A n \in 1..Len(record) : record'[n].expired = record[n].expired,
         NEW t \in Tabs, NEW v, NEW r,
         TabIsSound(v, r, Len(record')), IsSignedIn(v),
         view' = [view EXCEPT ![t] = v], asked' = [asked EXCEPT ![t] = r]
  PROVE  S!IInv'
<1>1. /\ record \in Seq(S!SignIns) /\ storage \in S!Stored /\ storage.token <= Len(record)
      /\ storage.token \in Nat /\ storage.cookie \in Nat
      /\ view \in [Tabs -> S!Views] /\ asked \in [Tabs -> S!Waiting]
      /\ Len(record) \in Nat /\ Len(record') \in Nat
  BY DEF S!IInv, S!Typed, S!Stored
<1>2. storage.cookie # 0 => storage.cookie = storage.token
  BY DEF S!IInv, S!CookieIsTheSession
<1>3. storage.token # 0 => record'[storage.token].expired = record[storage.token].expired
  <2>1. storage.token # 0 => storage.token \in 1..Len(record)
    BY <1>1
  <2>2. QED
    BY <2>1
<1>4. S!CookieIsTheSession'
  BY <1>3 DEF S!IInv, S!CookieIsTheSession
<1>5. S!Admitted => S!Admitted'
  BY <1>2, <1>3 DEF S!Admitted
<1>6. ASSUME NEW u \in Tabs PROVE TabIsSound(view'[u], asked'[u], Len(record')) /\ IsSignedIn(view[u])'
  <2>1. CASE u = t
    BY <1>1, <1>5, <2>1 DEF IsSignedIn
  <2>2. CASE u # t
    <3>1. view'[u] = view[u] /\ asked'[u] = asked[u]
      BY <1>1, <2>2
    <3>2. TabIsSound(view[u], asked[u], Len(record)) /\ IsSignedIn(view[u])
      BY TabsAreSound
    <3>3. 1..Len(record) \subseteq 1..Len(record')
      BY <1>1
    <3>4. TabIsSound(view[u], asked[u], Len(record'))
      <4>1. asked[u].bearer \in Nat /\ asked[u].bearer <= Len(record)
        BY <3>2 DEF TabIsSound, S!Waiting
      <4>2. asked[u].bearer <= Len(record')
        BY <1>1, <4>1
      <4>3. QED
        BY <3>2, <3>3, <4>2 DEF TabIsSound
    <3>5. QED
      BY <1>5, <3>1, <3>2, <3>4 DEF IsSignedIn
  <2>3. QED
    BY <2>1, <2>2
<1>7. view' = [u \in Tabs |-> view'[u]] /\ asked' = [u \in Tabs |-> asked'[u]]
  BY <1>1
<1>8. storage' \in S!Stored /\ storage'.token <= Len(record')
  BY <1>1
<1>9. QED
  BY <1>4, <1>6, <1>7, <1>8, SoundTabs

\* Something else is stored: every page that had signed in learns that it may not be signed
\* in any more, except the one that stored it.
LEMMA StoredMoves ==
  ASSUME S!IInv, UNCHANGED count, record' \in Seq(S!SignIns), Len(record') = Len(record),
         storage' \in S!Stored, storage'.token <= Len(record'), S!CookieIsTheSession',
         view' = [u \in Tabs |-> view'[u]], asked' = [u \in Tabs |-> asked'[u]],
         NEW leaving \in SUBSET Tabs,
         \A t \in leaving : TabIsSound(view'[t], asked'[t], Len(record)) /\ IsSignedIn(view[t])',
         \A u \in Tabs \ leaving : view'[u] = [view[u] EXCEPT !.token = 0] /\ asked'[u] = asked[u]
  PROVE  S!IInv'
<1>1. ASSUME NEW u \in Tabs PROVE TabIsSound(view'[u], asked'[u], Len(record)) /\ IsSignedIn(view[u])'
  <2>1. CASE u \in leaving
    BY <2>1
  <2>2. CASE u \notin leaving
    <3>1. TabIsSound(view[u], asked[u], Len(record)) /\ view[u] \in S!Views
      BY TabsAreSound DEF S!IInv, S!Typed
    <3> DEFINE w == [view[u] EXCEPT !.token = 0]
    <3>2. w \in S!Views /\ w.token = 0 /\ w.page = view[u].page
      BY <3>1 DEF S!Views
    <3>3. view'[u] = w /\ asked'[u] = asked[u]
      BY <2>2
    <3> HIDE DEF w
    <3>4. TabIsSound(w, asked[u], Len(record))
      BY <3>1, <3>2 DEF TabIsSound
    <3>5. QED
      BY <3>2, <3>3, <3>4 DEF IsSignedIn
  <2>3. QED
    BY <2>1, <2>2
<1>2. count' \in Nat
  BY DEF S!IInv, S!Typed
<1>3. QED
  BY <1>1, <1>2, SoundTabs

\* The requests of a page that is loaded, and a page that is loaded by whom nobody signed in.
LEMMA LoadedIsSound ==
  ASSUME S!IInv, NEW v \in S!Views
  PROVE  /\ S!Asking(v) \in S!Waiting /\ S!Asking(v).bearer <= Len(record)
         /\ S!Asking(v).verify = "none"
         /\ v.token = 0 => TabIsSound(v, S!Asking(v), Len(record)) /\ IsSignedIn(v)
<1>1. storage.token \in Nat /\ storage.token <= Len(record) /\ Len(record) \in Nat
  BY DEF S!IInv, S!Typed, S!Stored
<1>2. CASE v.authed
  <2> DEFINE n == storage.token
             r == [S!NoRequests EXCEPT !.data = "sent", !.bearer = n]
  <2>1. S!Asking(v) = r /\ n \in Nat
    BY <1>1, <1>2 DEF S!Asking
  <2> HIDE DEF n
  <2>2. r \in S!Waiting /\ r.bearer = n /\ r.verify = "none"
    BY <2>1 DEF S!NoRequests, S!Waiting
  <2>3. r.bearer <= Len(record)
    BY <1>1, <2>2 DEF n
  <2> HIDE DEF r
  <2>4. v.token = 0 => TabIsSound(v, r, Len(record)) /\ IsSignedIn(v)
    BY <2>2, <2>3 DEF TabIsSound, IsSignedIn
  <2>5. QED
    BY <2>1, <2>2, <2>3, <2>4
<1>4. CASE ~v.authed
  <2>1. S!Asking(v) = S!NoRequests
    BY <1>4 DEF S!Asking
  <2>2. S!NoRequests \in S!Waiting /\ S!NoRequests.bearer <= Len(record) /\ S!NoRequests.verify = "none"
    BY <1>1 DEF S!NoRequests, S!Waiting
  <2>3. v.token = 0 => TabIsSound(v, S!NoRequests, Len(record)) /\ IsSignedIn(v)
    BY <2>2 DEF TabIsSound, IsSignedIn
  <2>4. QED
    BY <2>1, <2>2, <2>3
<1>5. QED
  BY <1>2, <1>4

\* The pages that the tabs load.
LEMMA PagesAreViews ==
  /\ S!Blank \in S!Views /\ S!Blank.token = 0 /\ ~S!Blank.authed
  /\ \A p \in {"home", "signup", "verify", "trades"} :
       S!Page(p) \in S!Views /\ S!Page(p).token = 0 /\ S!Page(p).page = p
  /\ S!Protected \in S!Views /\ S!Protected.token = 0
  /\ S!Admitted => S!Protected.page = "trades"
<1>1. S!Blank \in S!Views /\ S!Blank.token = 0 /\ ~S!Blank.authed
  BY DEF S!Blank, S!Views
<1>2. ASSUME NEW p \in {"home", "signup", "verify", "trades"}
      PROVE  S!Page(p) \in S!Views /\ S!Page(p).token = 0 /\ S!Page(p).page = p
  <2> DEFINE known == storage.token # 0
  <2>1. known \in BOOLEAN /\ S!Page(p) = [S!Blank EXCEPT !.page = p, !.authed = known]
    BY DEF S!Page
  <2> HIDE DEF known
  <2>2. QED
    BY <1>1, <2>1 DEF S!Views
<1>3. [S!Page("signup") EXCEPT !.return = "trades"] \in S!Views
      /\ [S!Page("signup") EXCEPT !.return = "trades"].token = 0
  BY <1>2 DEF S!Views
<1>4. S!Protected \in S!Views /\ S!Protected.token = 0 /\ (S!Admitted => S!Protected.page = "trades")
  BY <1>2, <1>3 DEF S!Protected
<1>5. QED
  BY <1>1, <1>2, <1>4

\* A page is loaded, and nothing else moves.
LEMMA PageLoads ==
  ASSUME S!IInv, UNCHANGED <<record, storage, count>>, NEW t \in Tabs, NEW v \in S!Views,
         v.token = 0, S!Goto(view, t, v)
  PROVE  S!IInv'
<1>1. TabIsSound(v, S!Asking(v), Len(record')) /\ IsSignedIn(v)
  BY LoadedIsSound
<1>2. count' \in Nat /\ record' \in Seq(S!SignIns) /\ Len(record) <= Len(record')
  BY DEF S!IInv, S!Typed
<1>3. view' = [view EXCEPT ![t] = v] /\ asked' = [asked EXCEPT ![t] = S!Asking(v)]
  BY DEF S!Goto
<1>4. QED
  BY <1>1, <1>2, <1>3, TabMoves

\* A request of a page moves, and what the page says of it: it is as much signed in as before.
LEMMA RequestMoves ==
  ASSUME S!IInv, UNCHANGED <<record, storage>>, count' \in Nat, NEW t \in Tabs,
         NEW v \in S!Views, NEW r \in S!Waiting,
         v.page = view[t].page, v.token = view[t].token,
         view[t].shows # "none" => v.shows # "none",
         v.token # 0 => r.verify = asked[t].verify,
         r.bearer <= Len(record), r.verify # "none" => v.page = "verify",
         r.verify # "ok" \/ (r.verify = asked[t].verify /\ r.box = asked[t].box),
         view' = [view EXCEPT ![t] = v], asked' = [asked EXCEPT ![t] = r]
  PROVE  S!IInv'
<1>1. TabIsSound(view[t], asked[t], Len(record)) /\ IsSignedIn(view[t])
  BY TabsAreSound
<1>2. TabIsSound(v, r, Len(record)) /\ IsSignedIn(v)
  BY <1>1 DEF TabIsSound, IsSignedIn
<1>3. record' \in Seq(S!SignIns) /\ Len(record) <= Len(record')
  BY DEF S!IInv, S!Typed
<1>4. QED
  BY <1>2, <1>3, TabMoves

\* A sign-in expires; if its cookie was there, everybody learns of it.
LEMMA ExpireKeeps ==
  ASSUME S!IInv, NEW n \in DOMAIN record, S!Expire(n)
  PROVE  S!IInv'
<1>1. /\ record \in Seq(S!SignIns) /\ n \in 1..Len(record) /\ storage \in S!Stored
      /\ storage.token <= Len(record) /\ view \in [Tabs -> S!Views] /\ asked \in [Tabs -> S!Waiting]
      /\ count' = count /\ asked' = asked /\ count \in Nat /\ Len(record) \in Nat
      /\ storage.token \in Nat /\ storage.cookie \in Nat
  BY DEF S!IInv, S!Typed, S!Expire, S!Stored
<1>2. /\ record' \in Seq(S!SignIns) /\ Len(record') = Len(record) /\ record'[n].expired
      /\ \A m \in 1..Len(record) : m # n => record'[m] = record[m]
  <2> DEFINE e == [record[n] EXCEPT !.works = FALSE, !.expired = TRUE]
  <2>1. record' = [record EXCEPT ![n] = e]
    BY <1>1 DEF S!Expire
  <2>2. record[n] \in S!SignIns
    BY <1>1
  <2>3. e \in S!SignIns /\ e.expired
    BY <2>2 DEF S!SignIns
  <2> HIDE DEF e
  <2>5. /\ record \in Seq(S!SignIns) /\ n \in 1..Len(record) /\ e \in S!SignIns
    BY <1>1, <2>3
  <2>6. /\ [record EXCEPT ![n] = e] \in Seq(S!SignIns) /\ Len([record EXCEPT ![n] = e]) = Len(record)
        /\ \A m \in 1..Len(record) : [record EXCEPT ![n] = e][m] = IF m = n THEN e ELSE record[m]
    BY <2>5, ExceptSeq
  <2>7. QED
    BY <1>1, <2>1, <2>3, <2>6
<1>3. /\ storage.token = storage.user /\ (storage.cookie # 0 => storage.cookie = storage.token)
      /\ storage.token # 0 /\ ~record[storage.token].expired => storage.cookie = storage.token
  BY DEF S!IInv, S!CookieIsTheSession
<1>4. CASE storage.cookie = n
  <2>1. storage' = [storage EXCEPT !.cookie = 0] /\ view' = S!Disturbed
    BY <1>4 DEF S!Expire
  <2>2. storage' \in S!Stored /\ storage'.token = n /\ storage'.user = n /\ storage'.cookie = 0
    BY <1>1, <1>3, <1>4, <2>1 DEF S!Stored
  <2>3. S!CookieIsTheSession'
    BY <1>2, <2>2 DEF S!CookieIsTheSession
  <2>4. /\ view' = [u \in Tabs |-> view'[u]] /\ asked' = [u \in Tabs |-> asked'[u]]
        /\ \A u \in Tabs : view'[u] = [view[u] EXCEPT !.token = 0] /\ asked'[u] = asked[u]
    BY <1>1, <2>1 DEF S!Disturbed
  <2>5. {} \in SUBSET Tabs /\ storage'.token <= Len(record')
    BY <1>1, <1>2, <2>2
  <2>6. QED
    BY <1>1, <1>2, <2>2, <2>3, <2>4, <2>5, StoredMoves
<1>5. CASE storage.cookie # n
  <2>1. storage' = storage /\ view' = view
    BY <1>5 DEF S!Expire
  <2>2. storage.token = n => storage.cookie = 0
    BY <1>1, <1>3, <1>5
  <2>3. storage.token \in 1..Len(record) /\ storage.token # n
         => record'[storage.token] = record[storage.token]
    BY <1>2
  <2>4. S!CookieIsTheSession'
    BY <1>1, <1>2, <1>3, <2>1, <2>2, <2>3 DEF S!CookieIsTheSession
  <2>5. S!Admitted => S!Admitted'
    BY <1>1, <1>2, <1>3, <1>5, <2>1 DEF S!Admitted
  <2>6. \A t \in Tabs : TabIsSound(view'[t], asked'[t], Len(record)) /\ IsSignedIn(view[t])'
    BY <1>1, <2>1, <2>5, TabsAreSound DEF IsSignedIn
  <2>7. view' = [u \in Tabs |-> view'[u]] /\ asked' = [u \in Tabs |-> asked'[u]]
    BY <1>1, <2>1
  <2>8. QED
    BY <1>1, <1>2, <2>1, <2>4, <2>6, <2>7, StoredMoves
<1>6. QED
  BY <1>4, <1>5

\* A sign-in is revoked: pages stay as they are.
LEMMA RevokeKeeps ==
  ASSUME S!IInv, NEW n \in DOMAIN record, S!Revoke(n)
  PROVE  S!IInv'
<1>1. /\ record \in Seq(S!SignIns) /\ n \in 1..Len(record) /\ Len(record) \in Nat
      /\ view \in [Tabs -> S!Views] /\ asked \in [Tabs -> S!Waiting]
      /\ UNCHANGED <<storage, count, view, asked>>
      /\ record' = [record EXCEPT ![n].works = FALSE]
  BY DEF S!IInv, S!Typed, S!Revoke
<1>2. /\ record' \in Seq(S!SignIns) /\ Len(record') = Len(record)
      /\ \A m \in 1..Len(record) : record'[m].expired = record[m].expired
  <2> DEFINE e == [record[n] EXCEPT !.works = FALSE]
  <2>1. record[n] \in S!SignIns
    BY <1>1
  <2>2. e \in S!SignIns /\ e.expired = record[n].expired
    BY <2>1 DEF S!SignIns
  <2>3. record' = [record EXCEPT ![n] = e]
    BY <1>1
  <2> HIDE DEF e
  <2>5. /\ record \in Seq(S!SignIns) /\ n \in 1..Len(record) /\ e \in S!SignIns
    BY <1>1, <2>2
  <2>6. /\ [record EXCEPT ![n] = e] \in Seq(S!SignIns) /\ Len([record EXCEPT ![n] = e]) = Len(record)
        /\ \A m \in 1..Len(record) : [record EXCEPT ![n] = e][m] = IF m = n THEN e ELSE record[m]
    BY <2>5, ExceptSeq
  <2>7. QED
    BY <1>1, <2>2, <2>3, <2>6
<1>3. storage.token # 0 => storage.token \in 1..Len(record)
  BY <1>1 DEF S!IInv, S!Typed, S!Stored
<1>4. S!CookieIsTheSession'
  BY <1>1, <1>2, <1>3 DEF S!IInv, S!CookieIsTheSession
<1>5. S!Admitted => S!Admitted'
  BY <1>1, <1>2, <1>3 DEF S!Admitted, S!IInv, S!CookieIsTheSession
<1>6. \A t \in Tabs : TabIsSound(view'[t], asked'[t], Len(record)) /\ IsSignedIn(view[t])'
  BY <1>1, <1>5, TabsAreSound DEF IsSignedIn
<1>7. storage' \in S!Stored /\ storage'.token <= Len(record')
  BY <1>1, <1>2 DEF S!IInv, S!Typed
<1>8. view' = [u \in Tabs |-> view'[u]] /\ asked' = [u \in Tabs |-> asked'[u]]
  BY <1>1
<1>9. QED
  BY <1>1, <1>2, <1>4, <1>6, <1>7, <1>8, StoredMoves

\* SignInPage: its invariant is inductive.
LEMMA SignInStep == S!Parameters /\ S!IInv /\ [S!Next]_S!vars => S!IInv'
<1> SUFFICES ASSUME S!Parameters, S!IInv, [S!Next]_S!vars PROVE S!IInv'
  OBVIOUS
<1>0. /\ record \in Seq(S!SignIns) /\ Len(record) \in Nat /\ storage \in S!Stored
      /\ storage.token <= Len(record) /\ storage.token \in Nat /\ count \in Nat
      /\ view \in [Tabs -> S!Views] /\ asked \in [Tabs -> S!Waiting]
  BY DEF S!IInv, S!Typed, S!Stored
<1>1. CASE UNCHANGED S!vars
  BY <1>1 DEF S!vars, S!IInv, S!Typed, S!RequestsAreOfThePage, S!CookieIsTheSession,
              S!VerifiedHasItsSession, S!Admitted
<1>2. ASSUME NEW t \in Tabs, NEW r \in S!Waiting, UNCHANGED <<record, storage, view>>, count' \in Nat,
             asked' = [asked EXCEPT ![t] = r],
             view[t].token # 0 => r.verify = asked[t].verify,
             r.bearer <= Len(record), r.verify # "none" => view[t].page = "verify",
             r.verify # "ok" \/ (r.verify = asked[t].verify /\ r.box = asked[t].box)
      PROVE  S!IInv'
  <2>1. view' = [view EXCEPT ![t] = view[t]] /\ view[t] \in S!Views
    BY <1>0, <1>2
  <2>2. QED
    BY <1>2, <2>1, RequestMoves
<1>3. ASSUME NEW t \in Tabs, S!Visit(t) PROVE S!IInv'
  <2>1. PICK to \in {S!Page("home"), S!Page("signup"), S!Page("verify"),
         S!Protected} : S!Goto(view, t, to)
    BY <1>3 DEF S!Visit
  <2>2. to \in S!Views /\ to.token = 0
    BY PagesAreViews
  <2>3. QED
    BY <1>3, <2>1, <2>2, PageLoads DEF S!Visit
<1>4. ASSUME NEW t \in Tabs, NEW p \in OwnPhones, S!SubmitPhone(t, p) PROVE S!IInv'
  <2> DEFINE v == [view[t] EXCEPT !.phone = p]
             r == [asked[t] EXCEPT !.otp = "sent"]
  <2>1. view' = [view EXCEPT ![t] = v] /\ asked' = [asked EXCEPT ![t] = r]
        /\ UNCHANGED <<record, storage, count>>
    BY <1>4 DEF S!SubmitPhone
  <2>2. view[t] \in S!Views /\ asked[t] \in S!Waiting
    BY <1>0
  <2>3. /\ v \in S!Views /\ v.page = view[t].page /\ v.token = view[t].token
        /\ v.shows = view[t].shows
    BY <2>2 DEF S!Views
  <2>4. /\ r \in S!Waiting /\ r.verify = asked[t].verify /\ r.box = asked[t].box
        /\ r.bearer = asked[t].bearer
    BY <2>2 DEF S!Waiting
  <2> HIDE DEF v, r
  <2>5. QED
    BY <1>0, <2>1, <2>3, <2>4, RequestMoves DEF S!IInv, S!RequestsAreOfThePage
<1>5. ASSUME NEW t \in Tabs, S!PhoneSubmitted(t) PROVE S!IInv'
  <2>1. CASE asked[t].otp = "ok" /\ S!Goto(view, t, [S!Page("verify") EXCEPT !.phone = view[t].phone,
                                                                        !.return = view[t].return])
    <3> DEFINE v == [S!Page("verify") EXCEPT !.phone = view[t].phone, !.return = view[t].return]
    <3>1. S!Page("verify") \in S!Views /\ S!Page("verify").token = 0 /\ view[t] \in S!Views
      BY <1>0, PagesAreViews
    <3>2. v \in S!Views /\ v.token = 0
      BY <3>1 DEF S!Views
    <3> HIDE DEF v
    <3>3. S!Goto(view, t, v)
      BY <2>1 DEF v
    <3>4. QED
      BY <1>5, <3>2, <3>3, PageLoads DEF S!PhoneSubmitted
  <2>2. CASE asked[t].otp = "error" /\ asked' = [asked EXCEPT ![t].otp = "none"]
             /\ view' = [view EXCEPT ![t].phone = None]
    <3> DEFINE v == [view[t] EXCEPT !.phone = None]
               r == [asked[t] EXCEPT !.otp = "none"]
    <3>1. view' = [view EXCEPT ![t] = v] /\ asked' = [asked EXCEPT ![t] = r]
          /\ UNCHANGED <<record, storage, count>>
      BY <1>5, <2>2 DEF S!PhoneSubmitted
    <3>2. view[t] \in S!Views /\ asked[t] \in S!Waiting
      BY <1>0
    <3>3. /\ v \in S!Views /\ v.page = view[t].page /\ v.token = view[t].token
          /\ v.shows = view[t].shows
      BY <3>2 DEF S!Views
    <3>4. /\ r \in S!Waiting /\ r.verify = asked[t].verify /\ r.box = asked[t].box
          /\ r.bearer = asked[t].bearer
      BY <3>2 DEF S!Waiting
    <3> HIDE DEF v, r
    <3>5. QED
      BY <1>0, <3>1, <3>3, <3>4, RequestMoves DEF S!IInv, S!RequestsAreOfThePage
  <2>3. QED
    BY <1>5, <2>1, <2>2 DEF S!PhoneSubmitted
<1>6. ASSUME NEW t \in Tabs, S!Reload(t) PROVE S!IInv'
  <2> DEFINE v == [S!Page("verify") EXCEPT !.phone = view[t].phone, !.return = view[t].return]
  <2>1. S!Page("verify") \in S!Views /\ S!Page("verify").token = 0 /\ view[t] \in S!Views
    BY <1>0, PagesAreViews
  <2>2. v \in S!Views /\ v.token = 0
    BY <2>1 DEF S!Views
  <2> HIDE DEF v
  <2>3. S!Goto(view, t, v)
    BY <1>6 DEF S!Reload, v
  <2>4. QED
    BY <1>6, <2>2, <2>3, PageLoads DEF S!Reload
<1>7. ASSUME NEW t \in Tabs, NEW box \in Nat, NEW done \in {"none", "sent", "error"},
             asked' = [asked EXCEPT ![t].verify = done, ![t].box = box],
             UNCHANGED <<record, storage, view, count>>, view[t].page = "verify", view[t].token = 0
      PROVE  S!IInv'
  <2> DEFINE r == [asked[t] EXCEPT !.verify = done, !.box = box]
  <2>1. asked[t] \in S!Waiting
    BY <1>0
  <2>2. r \in S!Waiting /\ r.verify = done /\ r.bearer = asked[t].bearer
    BY <2>1 DEF S!Waiting
  <2>3. asked' = [asked EXCEPT ![t] = r]
    BY <1>7
  <2> HIDE DEF r
  <2>4. r.bearer <= Len(record)
    BY <2>2 DEF S!IInv, S!RequestsAreOfThePage
  <2>5. count' \in Nat
    BY <1>0, <1>7
  <2>6. QED
    BY <1>2, <1>7, <2>2, <2>3, <2>4, <2>5
<1>8. ASSUME NEW t \in Tabs, S!SubmitOtp(t) PROVE S!IInv'
  <2>1. PICK c \in 1..count : asked' = [asked EXCEPT ![t].verify = "sent", ![t].box = c]
    BY <1>8 DEF S!SubmitOtp
  <2>2. view[t].token = 0
    BY <1>8 DEF S!SubmitOtp, S!Enabled, S!IInv, S!RequestsAreOfThePage
  <2>3. QED
    <3>1. c \in Nat
      BY <1>0
    <3>2. view[t].page = "verify" /\ UNCHANGED <<record, storage, view, count>>
      BY <1>8 DEF S!SubmitOtp, S!Enabled
    <3>3. QED
      BY <1>7, <2>1, <2>2, <3>1, <3>2
<1>9. ASSUME NEW t \in Tabs, S!NotVerified(t) PROVE S!IInv'
  <2>1. view[t].token = 0
    BY <1>9 DEF S!NotVerified, S!IInv, S!RequestsAreOfThePage
  <2> DEFINE r == [asked[t] EXCEPT !.verify = "none"]
  <2>2. asked' = [asked EXCEPT ![t] = r] /\ UNCHANGED <<record, storage, view, count>>
    BY <1>9 DEF S!NotVerified
  <2>3. /\ r \in S!Waiting /\ r.verify = "none" /\ r.bearer = asked[t].bearer
        /\ asked[t].bearer <= Len(record)
    BY <1>0 DEF S!Waiting, S!IInv, S!RequestsAreOfThePage
  <2> HIDE DEF r
  <2>4. QED
    BY <1>0, <1>2, <2>1, <2>2, <2>3
<1>10. ASSUME NEW t \in Tabs, NEW v, NEW r, storage' \in S!Stored, storage'.token <= Len(record),
             S!CookieIsTheSession', TabIsSound(v, r, Len(record)),
             v.token # 0 => storage'.token = v.token /\ S!Admitted' /\ v.page # "signup",
             view' = [S!Disturbed EXCEPT ![t] = v], asked' = [asked EXCEPT ![t] = r],
             UNCHANGED <<record, count>>
      PROVE  S!IInv'
  <2>1. /\ view' = [u \in Tabs |-> view'[u]] /\ asked' = [u \in Tabs |-> asked'[u]]
        /\ view'[t] = v /\ asked'[t] = r
        /\ \A u \in Tabs \ {t} : view'[u] = [view[u] EXCEPT !.token = 0] /\ asked'[u] = asked[u]
    BY <1>0, <1>10 DEF S!Disturbed
  <2>2. IsSignedIn(view[t])'
    BY <1>10, <2>1 DEF IsSignedIn
  <2>3. {t} \in SUBSET Tabs /\ record' \in Seq(S!SignIns) /\ Len(record') = Len(record)
        /\ storage'.token <= Len(record')
    BY <1>0, <1>10
  <2>4. \A u \in {t} : TabIsSound(view'[u], asked'[u], Len(record)) /\ IsSignedIn(view[u])'
    BY <1>10, <2>1, <2>2
  <2>5. QED
    BY <1>10, <2>1, <2>3, <2>4, StoredMoves
<1>11. /\ S!Nothing \in S!Stored /\ S!Nothing.token = 0 /\ S!Nothing.user = 0 /\ S!Nothing.cookie = 0
  BY DEF S!Nothing, S!Stored
<1>12. ASSUME storage' = S!Nothing, UNCHANGED <<record, count>>,
              view' = [u \in Tabs |-> view'[u]], asked' = [u \in Tabs |-> asked'[u]],
              \A u \in Tabs : TabIsSound(view'[u], asked'[u], Len(record))
       PROVE  S!IInv'
  <2>1. \A u \in Tabs : IsSignedIn(view[u])'
    BY <1>12 DEF IsSignedIn
  <2>2. S!CookieIsTheSession'
    BY <1>11, <1>12 DEF S!CookieIsTheSession
  <2>3. /\ record' \in Seq(S!SignIns) /\ storage' \in S!Stored /\ storage'.token <= Len(record')
        /\ count' \in Nat
    BY <1>0, <1>11, <1>12
  <2>4. QED
    BY <1>12, <2>1, <2>2, <2>3, SoundTabs
<1>13. \A u \in Tabs : TabIsSound([view[u] EXCEPT !.token = 0], asked[u], Len(record))
  <2> SUFFICES ASSUME NEW u \in Tabs
               PROVE  TabIsSound([view[u] EXCEPT !.token = 0], asked[u], Len(record))
    OBVIOUS
  <2> DEFINE w == [view[u] EXCEPT !.token = 0]
  <2>1. view[u] \in S!Views /\ TabIsSound(view[u], asked[u], Len(record))
    BY <1>0, TabsAreSound
  <2>2. w \in S!Views /\ w.token = 0 /\ w.page = view[u].page
    BY <2>1 DEF S!Views
  <2> HIDE DEF w
  <2>3. TabIsSound(w, asked[u], Len(record))
    BY <2>1, <2>2 DEF TabIsSound
  <2>4. QED
    BY <2>3 DEF w
<1>14. ASSUME NEW t \in Tabs, storage' = S!Nothing, UNCHANGED <<record, count>>,
              view' = [u \in Tabs |-> view'[u]], asked' = [u \in Tabs |-> asked'[u]],
              \A u \in Tabs \ {t} : /\ view'[u] \in {view[u], [view[u] EXCEPT !.token = 0]}
                                   /\ asked'[u] = asked[u],
              TabIsSound(view'[t], asked'[t], Len(record))
       PROVE  S!IInv'
  <2>1. \A u \in Tabs : TabIsSound(view'[u], asked'[u], Len(record))
    BY <1>13, <1>14, TabsAreSound
  <2>2. QED
    BY <1>12, <1>14, <2>1
<1>25. ASSUME NEW t \in Tabs, S!Logout(t) PROVE S!IInv'
  <2>1. S!Blank \in S!Views /\ S!Blank.token = 0
    BY PagesAreViews
  <2>2. TabIsSound(S!Blank, S!Asking(S!Blank), Len(record))
    BY <2>1, LoadedIsSound
  <2>3. storage' = S!Nothing /\ UNCHANGED <<record, count>>
    BY <1>25 DEF S!Logout, S!ClearToken
  <2>4. /\ view' = [S!Disturbed EXCEPT ![t] = S!Blank]
        /\ asked' = [asked EXCEPT ![t] = S!Asking(S!Blank)]
    BY <1>25 DEF S!Logout, S!Goto
  <2>5. /\ view' = [u \in Tabs |-> view'[u]] /\ asked' = [u \in Tabs |-> asked'[u]]
        /\ view'[t] = S!Blank /\ asked'[t] = S!Asking(S!Blank)
        /\ \A u \in Tabs \ {t} : view'[u] = [view[u] EXCEPT !.token = 0] /\ asked'[u] = asked[u]
    BY <1>0, <2>4 DEF S!Disturbed
  <2>6. QED
    BY <1>14, <2>2, <2>3, <2>5
<1>26. ASSUME NEW t \in Tabs, S!SessionExpired(t) PROVE S!IInv'
  <2> DEFINE seen == IF asked[t].bearer = storage.token THEN S!Disturbed ELSE view
             v == [S!Blank EXCEPT !.page = "signup", !.return = view[t].page]
             r == [asked[t] EXCEPT !.data = "none", !.bearer = 0]
  <2>1. /\ storage' = S!Nothing /\ UNCHANGED <<record, count>>
        /\ view[t] \in S!Views /\ asked[t] \in S!Waiting
    BY <1>0, <1>26 DEF S!SessionExpired, S!ClearToken
  <2>2. /\ seen = [u \in Tabs |-> seen[u]]
        /\ \A u \in Tabs : seen[u] \in {view[u], [view[u] EXCEPT !.token = 0]}
    BY <1>0 DEF S!Disturbed
  <2>3. CASE view[t].page = "signup"
    <3>1. view' = seen /\ asked' = [asked EXCEPT ![t] = r]
      BY <1>26, <2>3 DEF S!SessionExpired
    <3> HIDE DEF seen, r
    <3>2. /\ view' = [u \in Tabs |-> view'[u]] /\ asked' = [u \in Tabs |-> asked'[u]]
          /\ asked'[t] = r
          /\ \A u \in Tabs \ {t} : /\ view'[u] \in {view[u], [view[u] EXCEPT !.token = 0]}
                                   /\ asked'[u] = asked[u]
          /\ view'[t] \in {view[t], [view[t] EXCEPT !.token = 0]}
      BY <1>0, <2>2, <3>1
    <3>3. TabIsSound(view'[t], asked[t], Len(record))
      BY <1>13, <3>2, TabsAreSound
    <3>4. /\ r \in S!Waiting /\ r.bearer = 0 /\ r.verify = asked[t].verify
          /\ r.box = asked[t].box
      BY <2>1 DEF S!Waiting, r
    <3>5. TabIsSound(view'[t], r, Len(record))
      BY <1>0, <3>3, <3>4 DEF TabIsSound
    <3>6. QED
      BY <1>14, <2>1, <3>2, <3>5
  <2>4. CASE view[t].page # "signup"
    <3>1. S!Goto(seen, t, v)
      BY <1>26, <2>4 DEF S!SessionExpired
    <3>2. view[t].page \in {"home", "verify", "trades"}
      BY <2>1, <2>4 DEF S!Views
    <3>3. v \in S!Views /\ v.token = 0
      BY <3>2, PagesAreViews DEF S!Views
    <3>4. TabIsSound(v, S!Asking(v), Len(record))
      BY <3>3, LoadedIsSound
    <3>5. view' = [seen EXCEPT ![t] = v] /\ asked' = [asked EXCEPT ![t] = S!Asking(v)]
      BY <3>1 DEF S!Goto
    <3> HIDE DEF seen, v
    <3>6. /\ view' = [u \in Tabs |-> view'[u]] /\ asked' = [u \in Tabs |-> asked'[u]]
          /\ view'[t] = v /\ asked'[t] = S!Asking(v)
          /\ \A u \in Tabs \ {t} : /\ view'[u] \in {view[u], [view[u] EXCEPT !.token = 0]}
                                   /\ asked'[u] = asked[u]
      BY <1>0, <2>2, <3>5
    <3>7. QED
      BY <1>14, <2>1, <3>4, <3>6
  <2>5. QED
    BY <2>3, <2>4
<1>15. ASSUME NEW t \in Tabs, S!Verified(t) PROVE S!IInv'
  <2> DEFINE n == asked[t].box
             own == IF record[n].expired THEN 0 ELSE n
             d == [view[t] EXCEPT !.token = 0]
             v == [d EXCEPT !.shows = "verified", !.token = own]
             r == [asked[t] EXCEPT !.verify = "done", !.box = 0]
  <2>1. /\ view[t].page = "verify" /\ asked[t].verify = "ok" /\ storage' = S!Save(n)
        /\ view' = [S!Disturbed EXCEPT ![t].shows = "verified", ![t].token = own]
        /\ asked' = [asked EXCEPT ![t] = r] /\ UNCHANGED <<record, aside, count>>
    BY <1>15 DEF S!Verified
  <2>2. /\ n \in 1..Len(record) /\ view[t] \in S!Views /\ asked[t] \in S!Waiting
        /\ asked[t].bearer <= Len(record)
    BY <1>0, <2>1 DEF S!IInv, S!RequestsAreOfThePage
  <2>3. view' = [S!Disturbed EXCEPT ![t] = v]
    BY <2>1 DEF S!Disturbed
  <2>4. /\ storage'.token = n /\ storage'.user = n
        /\ storage'.cookie = IF record[n].expired THEN 0 ELSE n
        /\ storage' \in S!Stored
    BY <2>1, <2>2 DEF S!Save, S!Stored
  <2>5. storage'.token <= Len(record) /\ S!CookieIsTheSession'
    BY <2>1, <2>2, <2>4 DEF S!CookieIsTheSession
  <2>6. own # 0 => own = n /\ S!Admitted'
    BY <2>1, <2>2, <2>4 DEF S!Admitted
  <2>7. own \in Nat
    BY <2>2
  <2> HIDE DEF own
  <2>8. d \in S!Views /\ d.page = "verify"
    BY <2>1, <2>2 DEF S!Views
  <2> HIDE DEF d
  <2>9. v \in S!Views /\ v.page = "verify" /\ v.token = own /\ v.shows = "verified"
    BY <2>7, <2>8 DEF S!Views
  <2>10. r \in S!Waiting /\ r.verify = "done" /\ r.bearer = asked[t].bearer
    BY <2>2 DEF S!Waiting
  <2> HIDE DEF v, r, n
  <2>11. TabIsSound(v, r, Len(record))
    BY <2>2, <2>9, <2>10 DEF TabIsSound
  <2>12. v.token # 0 => storage'.token = v.token /\ S!Admitted' /\ v.page # "signup"
    BY <2>4, <2>6, <2>9
  <2>13. QED
    BY <1>10, <2>1, <2>3, <2>4, <2>5, <2>11, <2>12
<1>16. ASSUME NEW t \in Tabs, S!Redirect(t) PROVE S!IInv'
  <2>1. UNCHANGED <<record, storage, aside, count>> /\ view[t] \in S!Views
    BY <1>0, <1>16 DEF S!Redirect
  <2>2. CASE /\ view[t].return # "verify"
             /\ S!Goto(view, t, [IF view[t].return = "home" THEN S!Page("home") ELSE S!Protected
                                   EXCEPT !.token = view[t].token])
    <3> DEFINE to == IF view[t].return = "home" THEN S!Page("home") ELSE S!Protected
               v == [to EXCEPT !.token = view[t].token]
    <3>1. S!Goto(view, t, v)
      BY <2>2
    <3>2. to \in S!Views /\ to.token = 0 /\ (S!Admitted => to.page \in {"home", "trades"})
          /\ to.page # "verify"
      BY PagesAreViews DEF S!Protected
    <3> HIDE DEF to
    <3>3. v \in S!Views /\ v.token = view[t].token /\ v.page = to.page
      BY <2>1, <3>2 DEF S!Views
    <3> HIDE DEF v
    <3>4. view' = [view EXCEPT ![t] = v] /\ asked' = [asked EXCEPT ![t] = S!Asking(v)]
      BY <3>1 DEF S!Goto
    <3>5. /\ S!Asking(v) \in S!Waiting /\ S!Asking(v).bearer <= Len(record)
          /\ S!Asking(v).verify = "none"
      BY <3>3, LoadedIsSound
    <3>6. TabIsSound(v, S!Asking(v), Len(record))
      BY <3>2, <3>3, <3>5 DEF TabIsSound
    <3>7. IsSignedIn(view[t])
      BY TabsAreSound
    <3>8. IsSignedIn(v)
      BY <3>2, <3>3, <3>7 DEF IsSignedIn
    <3>9. count' \in Nat /\ record' \in Seq(S!SignIns) /\ Len(record) <= Len(record') /\ record' = record
      BY <1>0, <2>1
    <3>10. QED
      BY <2>1, <3>4, <3>6, <3>8, <3>9, TabMoves
  <2>3. ASSUME NEW p \in OwnPhones \cup {None}, NEW there \in {"home", "trades", "verify"},
               S!Goto(view, t, [S!Page("verify") EXCEPT !.phone = p, !.return = there])
        PROVE  S!IInv'
    <3> DEFINE v == [S!Page("verify") EXCEPT !.phone = p, !.return = there]
    <3>1. S!Page("verify") \in S!Views /\ S!Page("verify").token = 0
      BY PagesAreViews
    <3>2. v \in S!Views /\ v.token = 0
      BY <3>1 DEF S!Views
    <3>3. S!Goto(view, t, v)
      BY <2>3
    <3> HIDE DEF v
    <3>4. QED
      BY <2>1, <3>2, <3>3, PageLoads
  <2>4. QED
    BY <1>16, <2>2, <2>3 DEF S!Redirect
<1>17. ASSUME NEW t \in Tabs, NEW a \in {"none", "sent", "ok", "error"}, count' \in Nat,
              asked' = [asked EXCEPT ![t].otp = a], UNCHANGED <<record, storage, view>>
       PROVE  S!IInv'
  <2> DEFINE r == [asked[t] EXCEPT !.otp = a]
  <2>1. asked[t] \in S!Waiting
    BY <1>0
  <2>2. /\ r \in S!Waiting /\ r.verify = asked[t].verify /\ r.box = asked[t].box
        /\ r.bearer = asked[t].bearer
    BY <2>1 DEF S!Waiting
  <2>3. asked' = [asked EXCEPT ![t] = r]
    BY <1>17
  <2> HIDE DEF r
  <2>4. /\ r.bearer <= Len(record)
        /\ r.verify # "none" => view[t].page = "verify"
    BY <2>2 DEF S!IInv, S!RequestsAreOfThePage
  <2>5. QED
    BY <1>2, <1>17, <2>2, <2>3, <2>4
<1>18. ASSUME NEW t \in Tabs, S!Resend(t) PROVE S!IInv'
  BY <1>0, <1>17, <1>18 DEF S!Resend
<1>19. ASSUME NEW t \in Tabs, S!SendOtp(t) PROVE S!IInv'
  <2>1. count' \in Nat
    BY <1>0, <1>19 DEF S!SendOtp
  <2>2. QED
    BY <1>17, <1>19, <2>1 DEF S!SendOtp
<1>20. ASSUME NEW t \in Tabs, S!Resent(t) PROVE S!IInv'
  <2> DEFINE w == [view[t] EXCEPT !.shows = "sent"]
             v == IF asked[t].otp = "ok" THEN w ELSE view[t]
             r == [asked[t] EXCEPT !.otp = "none"]
  <2>1. view' = [view EXCEPT ![t] = v] /\ asked' = [asked EXCEPT ![t] = r]
        /\ UNCHANGED <<record, storage, count>>
    BY <1>0, <1>20 DEF S!Resent
  <2>2. view[t] \in S!Views /\ asked[t] \in S!Waiting
    BY <1>0
  <2>3. /\ w \in S!Views /\ w.page = view[t].page /\ w.token = view[t].token
        /\ w.shows = "sent"
    BY <2>2 DEF S!Views
  <2>4. /\ r \in S!Waiting /\ r.verify = asked[t].verify /\ r.box = asked[t].box
        /\ r.bearer = asked[t].bearer
    BY <2>2 DEF S!Waiting
  <2> HIDE DEF w, r
  <2>5. /\ v \in S!Views /\ v.page = view[t].page /\ v.token = view[t].token
        /\ (view[t].shows # "none" => v.shows # "none")
    BY <2>2, <2>3
  <2> HIDE DEF v
  <2>6. QED
    BY <1>0, <2>1, <2>4, <2>5, RequestMoves DEF S!IInv, S!RequestsAreOfThePage
<1>21. ASSUME NEW t \in Tabs, NEW data \in {"none", "sent"}, NEW bearer \in Nat, bearer <= Len(record),
              asked' = [asked EXCEPT ![t].data = data, ![t].bearer = bearer],
              UNCHANGED <<record, storage, view, count>>
       PROVE  S!IInv'
  <2> DEFINE r == [asked[t] EXCEPT !.data = data, !.bearer = bearer]
  <2>1. asked[t] \in S!Waiting
    BY <1>0
  <2>2. /\ r \in S!Waiting /\ r.verify = asked[t].verify /\ r.box = asked[t].box /\ r.bearer = bearer
    BY <2>1 DEF S!Waiting
  <2>3. asked' = [asked EXCEPT ![t] = r]
    BY <1>21
  <2> HIDE DEF r
  <2>4. r.verify # "none" => view[t].page = "verify"
    BY <2>2 DEF S!IInv, S!RequestsAreOfThePage
  <2>5. QED
    BY <1>0, <1>2, <1>21, <2>2, <2>3, <2>4
<1>22. ASSUME NEW t \in Tabs, S!Fetch(t) \/ S!Answered(t) PROVE S!IInv'
  BY <1>0, <1>21, <1>22 DEF S!Fetch, S!Answered
<1>23. ASSUME NEW t \in Tabs, S!VerifyOtp(t) PROVE S!IInv'
  <2>1. asked[t].verify = "sent" /\ UNCHANGED <<storage, count, view>>
    BY <1>23 DEF S!VerifyOtp
  <2>2. /\ view[t] \in S!Views /\ asked[t] \in S!Waiting /\ view[t].token = 0 /\ view[t].page = "verify"
        /\ asked[t].bearer <= Len(record)
    BY <1>0, <2>1 DEF S!IInv, S!RequestsAreOfThePage
  <2> DEFINE n == Len(record) + 1
             accepted == [asked[t] EXCEPT !.verify = "ok", !.box = n]
             refused == [asked[t] EXCEPT !.verify = "error", !.box = 0]
             more == Append(record, [works |-> TRUE, expired |-> FALSE])
  <2>3. /\ accepted \in S!Waiting /\ accepted.verify = "ok" /\ accepted.box = n
        /\ accepted.bearer = asked[t].bearer
        /\ refused \in S!Waiting /\ refused.verify = "error" /\ refused.bearer = asked[t].bearer
    <3>1. n \in Nat
      BY <1>0
    <3> HIDE DEF n
    <3>2. QED
      BY <2>2, <3>1 DEF S!Waiting
  <2>4. /\ more \in Seq(S!SignIns) /\ Len(more) = n
        /\ \A m \in 1..Len(record) : more[m] = record[m]
    <3>1. [works |-> TRUE, expired |-> FALSE] \in S!SignIns
      BY DEF S!SignIns
    <3>2. QED
      BY <1>0, <3>1, AppendProperties
  <2>5. \/ record' = more /\ asked' = [asked EXCEPT ![t] = accepted]
        \/ record' \in {record, more} /\ asked' = [asked EXCEPT ![t] = refused]
    BY <1>23, <2>4 DEF S!VerifyOtp
  <2> HIDE DEF accepted, refused, more
  <2>6. view' = [view EXCEPT ![t] = view[t]] /\ IsSignedIn(view[t])
    BY <1>0, <2>1, TabsAreSound
  <2>7. n \in 1..n /\ Len(record) <= n /\ n \in Nat
    BY <1>0
  <2> HIDE DEF n
  <2>8. CASE record' = more /\ asked' = [asked EXCEPT ![t] = accepted]
    <3>1. TabIsSound(view[t], accepted, n)
      BY <1>0, <2>2, <2>3, <2>7 DEF TabIsSound, S!Waiting
    <3>2. QED
      BY <1>0, <2>1, <2>4, <2>6, <2>7, <2>8, <3>1, TabMoves
  <2>9. CASE record' \in {record, more} /\ asked' = [asked EXCEPT ![t] = refused]
    <3>1. /\ record' \in Seq(S!SignIns) /\ Len(record) <= Len(record') /\ Len(record') \in Nat
          /\ \A m \in 1..Len(record) : record'[m].expired = record[m].expired
      BY <1>0, <2>4, <2>7, <2>9
    <3>2. asked[t].bearer <= Len(record')
      BY <1>0, <2>2, <3>1 DEF S!Waiting
    <3>3. TabIsSound(view[t], refused, Len(record'))
      BY <2>2, <2>3, <3>2 DEF TabIsSound
    <3>4. QED
      BY <1>0, <2>1, <2>6, <2>9, <3>1, <3>3, TabMoves
  <2>10. QED
    BY <2>5, <2>8, <2>9
<1>24. QED
  BY <1>1, <1>3, <1>4, <1>5, <1>6, <1>8, <1>9, <1>15, <1>16, <1>18, <1>19, <1>20,
     <1>22, <1>23, <1>25, <1>26, ExpireKeeps, RevokeKeeps DEF S!Next

\* SignInPage: its invariant implies its properties.
LEMMA SignInIsSafe == S!IInv => S!CookieIsTheSession /\ S!VerifiedHasItsSession
BY DEF S!IInv

-----------------------------------------------------------------------------
(* Buying and disputing a trade.                                           *)

People == Traders \cup {None}

RequestIsTrue(r) ==
  /\ r.step # "sent" =>
       r.op = "buy" /\ r.answer = "none" /\ r.source = r.user /\ r.user \notin {Seller, None}
  /\ r.step = "deposited" => record.status = "Active" /\ aside = r.source
  /\ r.answer = "ok" /\ r.op = "buy" => record.status # "Active" /\ record.buyer = r.source
  /\ r.answer = "ok" /\ r.op = "dispute" => record.status = "Disputed"

PageIsTrue(p) ==
  /\ p.confirmed => record.status # "Active" /\ record.buyer = p.source /\ record.buyer = p.key
  /\ p.status = "Disputed" => record.status = "Disputed"

WaitsForItsOwn(p, r) ==
  /\ p.step \in {"prepare", "unlock", "buy"} => p.status = "Active"
  /\ p.dialog # "closed" => p.status = "Locked"
  /\ p.confirmed => p.step = "idle" /\ p.dialog = "closed"
  /\ p.step \in {"dispute", "dispute again"} => p.dialog # "closed"
  /\ p.step \in {"prepare", "unlock", "buy", "dispute"} /\ r.answer \in {"none", "ok"} =>
       r.op = p.step
  /\ p.step = "dispute again" /\ r.answer \in {"none", "ok"} => r.op = "dispute"
  /\ p.step = "buy" /\ r.answer \in {"none", "ok"} => r.source = p.source /\ p.source = p.key

\* What the invariant says of each tab.
LEMMA PagesAreTrue ==
  T!IInv => \A t \in Tabs : /\ view[t] \in T!Pages /\ asked[t] \in T!Waiting
                          /\ RequestIsTrue(asked[t]) /\ PageIsTrue(view[t])
                          /\ WaitsForItsOwn(view[t], asked[t])
<1> SUFFICES ASSUME T!IInv, NEW t \in Tabs
             PROVE  /\ view[t] \in T!Pages /\ asked[t] \in T!Waiting
                    /\ RequestIsTrue(asked[t]) /\ PageIsTrue(view[t])
                    /\ WaitsForItsOwn(view[t], asked[t])
  OBVIOUS
<1>1. view[t] \in T!Pages /\ asked[t] \in T!Waiting
  BY DEF T!IInv, T!TypeOK
<1>2. RequestIsTrue(asked[t])
  BY DEF T!IInv, T!RequestsAreTrue, RequestIsTrue
<1>3. PageIsTrue(view[t])
  BY DEF T!IInv, T!ConfirmedIsBought, T!DisputeShownIsFiled, PageIsTrue
<1>4. WaitsForItsOwn(view[t], asked[t])
  BY DEF T!IInv, T!TabsWaitForTheirs, WaitsForItsOwn
<1>5. QED
  BY <1>1, <1>2, <1>3, <1>4

\* And what must be said of each tab for the invariant to hold next.
LEMMA TrueAgain ==
  ASSUME storage' \in People, view' \in [Tabs -> T!Pages], asked' \in [Tabs -> T!Waiting],
         record' \in [status : {"Active", "Locked", "Disputed"}, buyer : People],
         aside' \in People, T!BuyerIsDepositor',
         \A t \in Tabs : RequestIsTrue(asked[t])',
         \A t \in Tabs : PageIsTrue(view[t])',
         \A t \in Tabs : WaitsForItsOwn(view[t], asked[t])',
         \A t, u \in Tabs : asked'[t].step = "deposited" /\ asked'[u].step = "deposited" => t = u
  PROVE  T!IInv'
<1>1. T!TypeOK'
  BY DEF T!TypeOK, People
<1>2. T!RequestsAreTrue'
  BY DEF T!RequestsAreTrue, RequestIsTrue
<1>3. T!ConfirmedIsBought' /\ T!DisputeShownIsFiled'
  BY DEF T!ConfirmedIsBought, T!DisputeShownIsFiled, PageIsTrue
<1>4. T!TabsWaitForTheirs'
  BY DEF T!TabsWaitForTheirs, WaitsForItsOwn
<1>5. QED
  BY <1>1, <1>2, <1>3, <1>4 DEF T!IInv

\* What one tab shows and asks changes, the trade does not.
LEMMA TradeTabMoves ==
  ASSUME T!IInv, NEW t \in Tabs, NEW p \in T!Pages, NEW r \in T!Waiting, storage' \in People,
         UNCHANGED <<record, aside>>,
         view' = [view EXCEPT ![t] = p], asked' = [asked EXCEPT ![t] = r],
         RequestIsTrue(r), PageIsTrue(p), WaitsForItsOwn(p, r),
         r.step = "deposited" => asked[t].step = "deposited"
  PROVE  T!IInv'
<1>1. /\ view \in [Tabs -> T!Pages] /\ asked \in [Tabs -> T!Waiting] /\ aside \in People
      /\ record \in [status : {"Active", "Locked", "Disputed"}, buyer : People]
      /\ T!BuyerIsDepositor
  BY DEF T!IInv, T!TypeOK, People
<1>2. /\ view' \in [Tabs -> T!Pages] /\ asked' \in [Tabs -> T!Waiting] /\ view'[t] = p /\ asked'[t] = r
      /\ \A u \in Tabs \ {t} : view'[u] = view[u] /\ asked'[u] = asked[u]
  BY <1>1
<1>3. ASSUME NEW u \in Tabs
      PROVE  RequestIsTrue(asked[u])' /\ PageIsTrue(view[u])' /\ WaitsForItsOwn(view[u], asked[u])'
  <2>1. CASE u = t
    BY <1>2, <2>1 DEF RequestIsTrue, PageIsTrue, WaitsForItsOwn
  <2>2. CASE u # t
    <3>1. RequestIsTrue(asked[u]) /\ PageIsTrue(view[u]) /\ WaitsForItsOwn(view[u], asked[u])
      BY PagesAreTrue
    <3>2. asked'[u] = asked[u] /\ view'[u] = view[u]
      BY <1>2, <2>2
    <3>3. QED
      BY <3>1, <3>2 DEF RequestIsTrue, PageIsTrue, WaitsForItsOwn
  <2>3. QED
    BY <2>1, <2>2
<1>4. \A u, w \in Tabs : asked'[u].step = "deposited" /\ asked'[w].step = "deposited" => u = w
  <2>1. \A u, w \in Tabs : asked[u].step = "deposited" /\ asked[w].step = "deposited" => u = w
    BY DEF T!IInv, T!RequestsAreTrue
  <2>2. \A u \in Tabs : asked'[u].step = "deposited" => asked[u].step = "deposited"
    BY <1>2
  <2>3. QED
    BY <2>1, <2>2
<1>5. T!BuyerIsDepositor'
  BY <1>1 DEF T!BuyerIsDepositor
<1>6. QED
  BY <1>1, <1>2, <1>3, <1>4, <1>5, TrueAgain

\* Its request alone changes.
LEMMA TradeRequestMoves ==
  ASSUME T!IInv, NEW t \in Tabs, NEW r \in T!Waiting, UNCHANGED <<storage, view, record, aside>>,
         asked' = [asked EXCEPT ![t] = r], RequestIsTrue(r), WaitsForItsOwn(view[t], r),
         r.step = "deposited" => asked[t].step = "deposited"
  PROVE  T!IInv'
<1>1. view[t] \in T!Pages /\ PageIsTrue(view[t]) /\ storage' \in People
  BY PagesAreTrue DEF T!IInv, T!TypeOK, People
<1>2. view' = [view EXCEPT ![t] = view[t]]
  BY DEF T!IInv, T!TypeOK
<1>3. QED
  BY <1>1, <1>2, TradeTabMoves

\* A refusal ends a request, whatever it was.
LEMMA RefusalIsTrue ==
  ASSUME NEW a \in {"none", "401", "error", "lost"}
  PROVE  LET r == [T!NoRequest EXCEPT !.answer = a] IN
         r \in T!Waiting /\ RequestIsTrue(r) /\ r.step = "sent" /\ r.answer = a
<1> DEFINE r == [T!NoRequest EXCEPT !.answer = a]
<1>1. r = [op |-> "none", user |-> None, source |-> None, step |-> "sent", answer |-> a]
  BY DEF T!NoRequest
<1> HIDE DEF r
<1>2. r \in T!Waiting
  BY <1>1 DEF T!Waiting
<1>3. RequestIsTrue(r) /\ r.step = "sent" /\ r.answer = a
  BY <1>1 DEF RequestIsTrue
<1>4. QED
  BY <1>2, <1>3 DEF r

\* A request is refused.
LEMMA RefusalMoves ==
  ASSUME T!IInv, NEW t \in Tabs, NEW a \in {"401", "error", "lost"},
         UNCHANGED <<storage, view, record, aside>>, T!Answer(t, a)
  PROVE  T!IInv'
<1> DEFINE r == [T!NoRequest EXCEPT !.answer = a]
<1>1. r \in T!Waiting /\ RequestIsTrue(r) /\ r.step = "sent" /\ r.answer = a
  BY RefusalIsTrue
<1>2. asked' = [asked EXCEPT ![t] = r]
  BY DEF T!Answer
<1> HIDE DEF r
<1>3. WaitsForItsOwn(view[t], r)
  BY <1>1, PagesAreTrue DEF WaitsForItsOwn
<1>4. QED
  BY <1>1, <1>2, <1>3, TradeRequestMoves

\* A request is answered with what the row says.
LEMMA AnswerMoves ==
  ASSUME T!IInv, NEW t \in Tabs, UNCHANGED <<storage, view, record, aside>>, T!Answer(t, "ok"),
         asked[t].answer = "none", asked[t].op \in {"prepare", "unlock"}
  PROVE  T!IInv'
<1> DEFINE r == [asked[t] EXCEPT !.answer = "ok", !.step = "sent"]
<1>1. asked[t] \in T!Waiting /\ WaitsForItsOwn(view[t], asked[t])
  BY PagesAreTrue
<1>2. /\ r \in T!Waiting /\ r.op = asked[t].op /\ r.source = asked[t].source /\ r.answer = "ok"
      /\ r.step = "sent"
  BY <1>1 DEF T!Waiting
<1>3. asked' = [asked EXCEPT ![t] = r]
  BY DEF T!Answer, T!IInv, T!TypeOK
<1> HIDE DEF r
<1>4. WaitsForItsOwn(view[t], r) /\ RequestIsTrue(r)
  BY <1>1, <1>2 DEF WaitsForItsOwn, RequestIsTrue
<1>5. QED
  BY <1>2, <1>3, <1>4, TradeRequestMoves

\* What apiFetch sends.
Asked(op, source) == [T!NoRequest EXCEPT !.op = op, !.user = storage, !.source = source]

\* It asks for nothing that was not checked.
LEMMA SentIsTrue ==
  ASSUME storage \in People, NEW op \in {"prepare", "unlock", "buy", "dispute"}, NEW source \in People
  PROVE  Asked(op, source) \in T!Waiting /\ RequestIsTrue(Asked(op, source))
<1> DEFINE r == Asked(op, source)
<1>1. T!NoRequest \in T!Waiting
  BY DEF T!NoRequest, T!Waiting
<1>2. r \in T!Waiting
  <2>1. op \in {"none", "prepare", "unlock", "buy", "dispute"}
    OBVIOUS
  <2>2. storage \in Traders \cup {None} /\ source \in Traders \cup {None}
    BY DEF People
  <2>3. QED
    BY <1>1, <2>1, <2>2, Zenon DEF T!Waiting, Asked
<1>3. r.step = "sent" /\ r.answer = "none"
  BY DEF T!NoRequest, Asked
<1> HIDE DEF r
<1>4. RequestIsTrue(r)
  BY <1>3 DEF RequestIsTrue
<1>5. QED
  BY <1>2, <1>4 DEF r

\* A tab moves to p and sends a request that p waits for.
LEMMA SendMoves ==
  ASSUME T!IInv, NEW t \in Tabs, NEW p \in T!Pages, NEW op \in {"prepare", "unlock", "buy", "dispute"},
         NEW source \in People, UNCHANGED <<storage, record, aside>>,
         view' = [view EXCEPT ![t] = p], T!Send(t, op, source), PageIsTrue(p), ~p.confirmed,
         p.step = op \/ (p.step = "dispute again" /\ op = "dispute"),
         op \in {"prepare", "unlock", "buy"} => p.status = "Active" /\ p.dialog = "closed",
         op = "dispute" => p.status = "Locked" /\ p.dialog # "closed",
         op = "buy" => p.source = source /\ p.key = source
  PROVE  T!IInv'
<1> DEFINE r == Asked(op, source)
<1>1. storage \in People
  BY DEF T!IInv, T!TypeOK, People
<1>2. /\ r \in T!Waiting /\ RequestIsTrue(r) /\ r.step = "sent"
      /\ r.answer = "none" /\ r.op = op /\ r.source = source
  <2>1. op \in {"prepare", "unlock", "buy", "dispute"} /\ source \in People /\ storage \in People
    BY <1>1
  <2>2. Asked(op, source) \in T!Waiting
    BY <2>1, SentIsTrue
  <2>3. RequestIsTrue(Asked(op, source))
    BY <2>1, SentIsTrue
  <2>4. Asked(op, source).step = "sent" /\ Asked(op, source).answer = "none"
        /\ Asked(op, source).op = op /\ Asked(op, source).source = source
    BY DEF T!NoRequest, Asked
  <2>5. QED
    BY <2>2, <2>3, <2>4
<1>3. asked' = [asked EXCEPT ![t] = r]
  BY DEF T!Send, Asked
<1> HIDE DEF r
<1>4. WaitsForItsOwn(p, r)
  BY <1>2 DEF WaitsForItsOwn
<1>5. QED
  BY <1>1, <1>2, <1>3, <1>4, TradeTabMoves

\* A tab stops waiting, and forgets its request.
LEMMA IdleMoves ==
  ASSUME T!IInv, NEW t \in Tabs, NEW p \in T!Pages, storage' \in People, UNCHANGED <<record, aside>>,
         view' = [view EXCEPT ![t] = p], asked' = [asked EXCEPT ![t] = T!NoRequest], PageIsTrue(p),
         p.step = "idle", p.dialog # "closed" => p.status = "Locked", p.confirmed => p.dialog = "closed"
  PROVE  T!IInv'
<1>1. T!NoRequest = [T!NoRequest EXCEPT !.answer = "none"]
  BY DEF T!NoRequest
<1>2. T!NoRequest \in T!Waiting /\ RequestIsTrue(T!NoRequest) /\ T!NoRequest.step = "sent"
  BY <1>1, RefusalIsTrue
<1>3. WaitsForItsOwn(p, T!NoRequest)
  BY DEF WaitsForItsOwn
<1>4. QED
  BY <1>2, <1>3, TradeTabMoves

\* A tab that left the page shows and awaits nothing.
LEMMA AwayIsTrue == T!Away \in T!Pages /\ PageIsTrue(T!Away) /\ \A r : WaitsForItsOwn(T!Away, r)
<1>1. T!Away \in T!Pages
  BY DEF T!Away, T!Pages, T!Dialog
<1>2. QED
  BY <1>1 DEF T!Away, PageIsTrue, WaitsForItsOwn

\* TradePage: its invariant holds at first.
LEMMA TradeInit == T!Parameters /\ T!Init => T!IInv
<1> SUFFICES ASSUME T!Parameters, T!Init PROVE T!IInv
  OBVIOUS
<1>1. T!Away \in T!Pages /\ T!NoRequest \in T!Waiting
  BY AwayIsTrue DEF T!NoRequest, T!Waiting
<1>2. T!TypeOK
  <2>1. record \in [status : {"Active", "Locked", "Disputed"}, buyer : Traders \cup {None}]
    BY DEF T!Init
  <2>2. QED
    BY <1>1, <2>1 DEF T!Init, T!TypeOK
<1>3. T!RequestsAreTrue /\ T!TabsWaitForTheirs
  BY DEF T!Init, T!RequestsAreTrue, T!TabsWaitForTheirs, T!NoRequest, T!Away
<1>4. T!BuyerIsDepositor /\ T!ConfirmedIsBought /\ T!DisputeShownIsFiled
  BY DEF T!Init, T!BuyerIsDepositor, T!ConfirmedIsBought, T!DisputeShownIsFiled, T!Away
<1>5. QED
  BY <1>2, <1>3, <1>4 DEF T!IInv

\* The end of a signature: the key and the account are one, or nothing is sent.
LEMMA SignKeeps ==
  ASSUME T!IInv, NEW t \in Tabs, NEW key \in People, NEW source \in People,
         view[t].step \in {"prepare", "unlock"}, T!Sign(t, key, source),
         UNCHANGED <<storage, record, aside>>
  PROVE  T!IInv'
<1> DEFINE p == [view[t] EXCEPT !.step = "buy", !.key = key, !.source = source]
           q == [view[t] EXCEPT !.step = "idle", !.key = key, !.source = None]
<1>1. /\ view[t] \in T!Pages /\ PageIsTrue(view[t]) /\ WaitsForItsOwn(view[t], asked[t])
      /\ storage \in People /\ view \in [Tabs -> T!Pages]
  BY PagesAreTrue DEF T!IInv, T!TypeOK, People
<1>2. view[t].status = "Active" /\ view[t].dialog = "closed" /\ ~view[t].confirmed
  BY <1>1 DEF WaitsForItsOwn, T!Pages
<1>3. CASE key = source
  <2>1. /\ p \in T!Pages /\ p.status = "Active" /\ p.dialog = "closed" /\ ~p.confirmed
        /\ p.step = "buy" /\ p.key = source /\ p.source = source
    BY <1>1, <1>2, <1>3 DEF T!Pages, People
  <2>2. view' = [view EXCEPT ![t] = p] /\ T!Send(t, "buy", source)
    BY <1>1, <1>3 DEF T!Sign
  <2> HIDE DEF p
  <2>3. PageIsTrue(p)
    BY <2>1 DEF PageIsTrue
  <2>4. QED
    BY <2>1, <2>2, <2>3, SendMoves
<1>4. CASE key # source
  <2>1. /\ q \in T!Pages /\ q.status = "Active" /\ q.dialog = "closed" /\ ~q.confirmed
        /\ q.step = "idle"
    BY <1>1, <1>2, <1>4 DEF T!Pages, People
  <2>2. view' = [view EXCEPT ![t] = q] /\ asked' = [asked EXCEPT ![t] = T!NoRequest]
    BY <1>1, <1>4 DEF T!Sign
  <2> HIDE DEF q
  <2>3. PageIsTrue(q)
    BY <2>1 DEF PageIsTrue
  <2>4. QED
    BY <1>1, <2>1, <2>2, <2>3, IdleMoves
<1>5. QED
  BY <1>3, <1>4

\* The check of a purchase, and the chain's answer to it.
LEMMA CheckKeeps ==
  ASSUME T!Parameters, T!IInv, NEW t \in Tabs, T!CheckBuy(t)
  PROVE  T!IInv'
<1>1. /\ asked[t] \in T!Waiting /\ asked[t].op = "buy" /\ asked[t].answer = "none"
      /\ WaitsForItsOwn(view[t], asked[t]) /\ UNCHANGED <<storage, view, record, aside>>
      /\ asked \in [Tabs -> T!Waiting]
  BY PagesAreTrue DEF T!CheckBuy, T!Arrived, T!IInv, T!TypeOK
<1>2. CASE T!Answer(t, "error")
  BY <1>1, <1>2, RefusalMoves
<1>3. CASE /\ T!Buyable(asked[t].user) /\ T!SourceMatches(asked[t])
           /\ asked' = [asked EXCEPT ![t].step = "checked"]
  <2> DEFINE r == [asked[t] EXCEPT !.step = "checked"]
  <2>1. asked' = [asked EXCEPT ![t] = r]
    BY <1>3
  <2>2. /\ r \in T!Waiting /\ r.op = "buy" /\ r.answer = "none" /\ r.step = "checked"
        /\ r.source = asked[t].source /\ r.user = asked[t].user
    BY <1>1 DEF T!Waiting
  <2> HIDE DEF r
  <2>3. RequestIsTrue(r)
    BY <1>3, <2>2 DEF RequestIsTrue, T!Buyable, T!SourceMatches
  <2>4. WaitsForItsOwn(view[t], r)
    BY <1>1, <2>2 DEF WaitsForItsOwn
  <2>5. QED
    BY <1>1, <2>1, <2>2, <2>3, <2>4, TradeRequestMoves
<1>4. QED
  BY <1>2, <1>3 DEF T!CheckBuy

\* The contract takes a deposit only if it has none, and so only one request is between its
\* deposit and its row.
LEMMA DepositKeeps ==
  ASSUME T!Parameters, T!IInv, NEW t \in Tabs, T!Deposit(t)
  PROVE  T!IInv'
<1>1. /\ asked[t] \in T!Waiting /\ asked[t].op = "buy" /\ asked[t].answer = "none"
      /\ asked[t].step = "checked"
      /\ WaitsForItsOwn(view[t], asked[t]) /\ RequestIsTrue(asked[t]) /\ UNCHANGED <<storage, view,
          record>>
      /\ asked \in [Tabs -> T!Waiting] /\ view \in [Tabs -> T!Pages] /\ storage \in People
      /\ record \in [status : {"Active", "Locked", "Disputed"}, buyer : People]
  BY PagesAreTrue DEF T!Deposit, T!Arrived, T!IInv, T!TypeOK, People
<1>2. CASE aside # None
  BY <1>1, <1>2, RefusalMoves DEF T!Deposit
<1>3. CASE aside = None
  <2> DEFINE r == [asked[t] EXCEPT !.step = "deposited"]
             e == [T!NoRequest EXCEPT !.answer = "error"]
  <2>1. aside' = asked[t].source /\ asked[t].source = asked[t].user /\ asked[t].user \notin {Seller, None}
    BY <1>1, <1>3 DEF T!Deposit, RequestIsTrue
  <2>2. record.status = "Active" /\ aside' \in People
    BY <1>1, <1>3, <2>1 DEF T!IInv, T!BuyerIsDepositor, T!Waiting, People
  <2>3. /\ r \in T!Waiting /\ r.op = "buy" /\ r.answer = "none" /\ r.step = "deposited"
        /\ r.source = asked[t].source /\ r.user = asked[t].user
    BY <1>1 DEF T!Waiting
  <2>4. e \in T!Waiting /\ e.step = "sent" /\ e.answer = "error"
    BY RefusalIsTrue
  <2>5. asked' = [asked EXCEPT ![t] = r] \/ asked' = [asked EXCEPT ![t] = e]
    BY <1>3 DEF T!Deposit, T!Answer
  <2> HIDE DEF r, e
  <2>6. PICK q \in {r, e} : asked' = [asked EXCEPT ![t] = q]
    BY <2>5
  <2>7. q \in T!Waiting /\ RequestIsTrue(q)' /\ WaitsForItsOwn(view[t]', q)
    <3>1. CASE q = r
      BY <1>1, <2>1, <2>2, <2>3, <3>1 DEF RequestIsTrue, WaitsForItsOwn
    <3>2. CASE q = e
      BY <1>1, <2>4, <3>2 DEF RequestIsTrue, WaitsForItsOwn
    <3>3. QED
      BY <2>6, <3>1, <3>2
  <2>8. /\ asked' \in [Tabs -> T!Waiting] /\ asked'[t] = q
        /\ \A u \in Tabs \ {t} : asked'[u] = asked[u] /\ asked[u].step # "deposited"
    <3>1. ASSUME NEW u \in Tabs PROVE asked[u].step # "deposited"
      BY <1>3, PagesAreTrue DEF RequestIsTrue
    <3>2. QED
      BY <1>1, <2>6, <2>7, <3>1
  <2>9. ASSUME NEW u \in Tabs
        PROVE  RequestIsTrue(asked[u])' /\ PageIsTrue(view[u])' /\ WaitsForItsOwn(view[u], asked[u])'
    <3>1. RequestIsTrue(asked[u]) /\ PageIsTrue(view[u]) /\ WaitsForItsOwn(view[u], asked[u])
      BY PagesAreTrue
    <3>2. PageIsTrue(view[u])'
      BY <1>1, <3>1 DEF PageIsTrue
    <3>3. CASE u = t
      BY <1>1, <2>7, <2>8, <3>2, <3>3 DEF RequestIsTrue
    <3>4. CASE u # t
      BY <1>1, <2>8, <3>1, <3>2, <3>4 DEF RequestIsTrue, WaitsForItsOwn
    <3>5. QED
      BY <3>3, <3>4
  <2>10. \A u, w \in Tabs : asked'[u].step = "deposited" /\ asked'[w].step = "deposited" => u = w
    BY <2>8
  <2>11. T!BuyerIsDepositor'
    BY <1>1, <2>2 DEF T!BuyerIsDepositor
  <2>12. QED
    BY <1>1, <2>2, <2>8, <2>9, <2>10, <2>11, TrueAgain
<1>4. QED
  BY <1>2, <1>3

\* The row changes in step with what is answered; nothing else is between a deposit and its row.
LEMMA RowMoves ==
  ASSUME T!IInv, NEW t \in Tabs, NEW q \in T!Waiting, UNCHANGED <<storage, view, aside>>,
         record' \in [status : {"Locked", "Disputed"}, buyer : People],
         record'.buyer = aside, aside \notin {Seller, None},
         record.status # "Disputed", record.status = "Locked" => record'.buyer = record.buyer,
         \A u \in Tabs \ {t} : asked[u].step # "deposited",
         asked' = [asked EXCEPT ![t] = q], q.step = "sent", RequestIsTrue(q)', WaitsForItsOwn(view[t], q)
  PROVE  T!IInv'
<1>1. /\ asked \in [Tabs -> T!Waiting] /\ view \in [Tabs -> T!Pages] /\ storage \in People
      /\ aside \in People
      /\ record \in [status : {"Active", "Locked", "Disputed"}, buyer : People]
  BY DEF T!IInv, T!TypeOK, People
<1>2. /\ record' \in [status : {"Active", "Locked", "Disputed"}, buyer : People]
      /\ record'.status \in {"Locked", "Disputed"}
  OBVIOUS
<1>3. /\ asked' \in [Tabs -> T!Waiting] /\ asked'[t] = q
      /\ \A u \in Tabs \ {t} : asked'[u] = asked[u]
  BY <1>1
<1>4. ASSUME NEW u \in Tabs
      PROVE  RequestIsTrue(asked[u])' /\ PageIsTrue(view[u])' /\ WaitsForItsOwn(view[u], asked[u])'
  <2>1. RequestIsTrue(asked[u]) /\ PageIsTrue(view[u]) /\ WaitsForItsOwn(view[u], asked[u])
    BY PagesAreTrue
  <2>2. record.status \in {"Active", "Locked"}
    BY <1>1
  <2>3. PageIsTrue(view[u])'
    BY <1>2, <2>1, <2>2 DEF PageIsTrue
  <2>4. CASE u = t
    BY <1>3, <2>3, <2>4 DEF RequestIsTrue
  <2>5. CASE u # t
    <3>1. asked'[u] = asked[u] /\ asked[u].step # "deposited" /\ view' = view
      BY <1>3, <2>5
    <3>2. RequestIsTrue(asked[u])'
      BY <1>2, <2>1, <2>2, <3>1 DEF RequestIsTrue
    <3>3. QED
      BY <2>1, <2>3, <3>1, <3>2
  <2>6. QED
    BY <2>4, <2>5
<1>5. \A u, w \in Tabs : asked'[u].step = "deposited" /\ asked'[w].step = "deposited" => u = w
  BY <1>3
<1>6. T!BuyerIsDepositor'
  BY DEF T!BuyerIsDepositor
<1>7. QED
  BY <1>1, <1>2, <1>3, <1>4, <1>5, <1>6, TrueAgain

\* The row follows the deposit.
LEMMA LockKeeps ==
  ASSUME T!Parameters, T!IInv, NEW t \in Tabs, T!Lock(t)
  PROVE  T!IInv'
<1>1. /\ asked[t] \in T!Waiting /\ asked[t].op = "buy" /\ asked[t].answer = "none"
      /\ asked[t].step = "deposited" /\ WaitsForItsOwn(view[t], asked[t]) /\ RequestIsTrue(asked[t])
      /\ UNCHANGED <<storage, view, aside>>
  BY PagesAreTrue DEF T!Lock, T!Arrived
<1>2. /\ record.status = "Active" /\ aside = asked[t].source /\ asked[t].source = asked[t].user
      /\ asked[t].user \notin {Seller, None} /\ asked[t].user \in People
  BY <1>1 DEF RequestIsTrue, T!Waiting, People
<1>3. record' = [status |-> "Locked", buyer |-> asked[t].user]
  BY DEF T!Lock
<1>4. /\ record' \in [status : {"Locked", "Disputed"}, buyer : People] /\ record'.status = "Locked"
      /\ record'.buyer = aside
  BY <1>2, <1>3
<1>5. \A u \in Tabs \ {t} : asked[u].step # "deposited"
  BY <1>1 DEF T!IInv, T!RequestsAreTrue
<1> DEFINE r == [asked[t] EXCEPT !.answer = "ok", !.step = "sent"]
           e == [T!NoRequest EXCEPT !.answer = "lost"]
<1>6. /\ r \in T!Waiting /\ r.op = "buy" /\ r.answer = "ok" /\ r.step = "sent"
      /\ r.source = asked[t].source
  BY <1>1 DEF T!Waiting
<1>7. e \in T!Waiting /\ e.step = "sent" /\ e.answer = "lost"
  BY RefusalIsTrue
<1>8. asked' = [asked EXCEPT ![t] = r] \/ asked' = [asked EXCEPT ![t] = e]
  BY DEF T!Lock, T!Answer, T!IInv, T!TypeOK
<1> HIDE DEF r, e
<1>9. PICK q \in {r, e} : asked' = [asked EXCEPT ![t] = q]
  BY <1>8
<1>10. q \in T!Waiting /\ q.step = "sent" /\ RequestIsTrue(q)' /\ WaitsForItsOwn(view[t], q)
  <2>1. CASE q = r
    BY <1>1, <1>2, <1>4, <1>6, <2>1 DEF RequestIsTrue, WaitsForItsOwn
  <2>2. CASE q = e
    BY <1>1, <1>7, <2>2 DEF RequestIsTrue, WaitsForItsOwn
  <2>3. QED
    BY <1>9, <2>1, <2>2
<1>11. QED
  BY <1>1, <1>2, <1>4, <1>5, <1>9, <1>10, RowMoves

\* A dispute is filed, of a trade that has its deposit.
LEMMA FileDisputeKeeps ==
  ASSUME T!Parameters, T!IInv, NEW t \in Tabs, T!FileDispute(t)
  PROVE  T!IInv'
<1>1. /\ asked[t] \in T!Waiting /\ asked[t].op = "dispute" /\ asked[t].answer = "none"
      /\ asked[t].step = "sent" /\ WaitsForItsOwn(view[t], asked[t])
      /\ UNCHANGED <<storage, view, aside>>
      /\ record \in [status : {"Active", "Locked", "Disputed"}, buyer : People]
  BY PagesAreTrue DEF T!FileDispute, T!Arrived, T!IInv, T!TypeOK, People
<1>2. CASE UNCHANGED record /\ T!Answer(t, "error")
  BY <1>1, <1>2, RefusalMoves
<1>3. CASE /\ record.status = "Locked" /\ record' = [record EXCEPT !.status = "Disputed"]
           /\ (T!Answer(t, "ok") \/ T!Answer(t, "lost"))
  <2>1. /\ record' \in [status : {"Locked", "Disputed"}, buyer : People] /\ record'.status = "Disputed"
        /\ record'.buyer = record.buyer
    BY <1>1, <1>3
  <2>2. record.buyer = aside /\ aside \notin {Seller, None}
    BY <1>3 DEF T!IInv, T!BuyerIsDepositor
  <2>3. \A u \in Tabs \ {t} : asked[u].step # "deposited"
    BY <1>3 DEF T!IInv, T!RequestsAreTrue
  <2> DEFINE r == [asked[t] EXCEPT !.answer = "ok", !.step = "sent"]
             e == [T!NoRequest EXCEPT !.answer = "lost"]
  <2>4. /\ r \in T!Waiting /\ r.op = "dispute" /\ r.answer = "ok" /\ r.step = "sent"
        /\ r.source = asked[t].source
    BY <1>1 DEF T!Waiting
  <2>5. e \in T!Waiting /\ e.step = "sent" /\ e.answer = "lost"
    BY RefusalIsTrue
  <2>6. asked' = [asked EXCEPT ![t] = r] \/ asked' = [asked EXCEPT ![t] = e]
    BY <1>3 DEF T!Answer, T!IInv, T!TypeOK
  <2> HIDE DEF r, e
  <2>7. PICK q \in {r, e} : asked' = [asked EXCEPT ![t] = q]
    BY <2>6
  <2>8. q \in T!Waiting /\ q.step = "sent" /\ RequestIsTrue(q)' /\ WaitsForItsOwn(view[t], q)
    <3>1. CASE q = r
      BY <1>1, <2>1, <2>4, <3>1 DEF RequestIsTrue, WaitsForItsOwn
    <3>2. CASE q = e
      BY <1>1, <2>5, <3>2 DEF RequestIsTrue, WaitsForItsOwn
    <3>3. QED
      BY <2>7, <3>1, <3>2
  <2>9. QED
    BY <1>1, <1>3, <2>1, <2>2, <2>3, <2>7, <2>8, RowMoves
<1>4. QED
  BY <1>2, <1>3 DEF T!FileDispute


\* TradePage: its invariant is inductive.
LEMMA TradeStep == T!Parameters /\ T!IInv /\ [T!Next]_T!vars => T!IInv'
<1> SUFFICES ASSUME T!Parameters, T!IInv, [T!Next]_T!vars PROVE T!IInv'
  OBVIOUS
<1>0. /\ view \in [Tabs -> T!Pages] /\ asked \in [Tabs -> T!Waiting] /\ storage \in People
      /\ record \in [status : {"Active", "Locked", "Disputed"}, buyer : People]
      /\ None \in People
  BY DEF T!IInv, T!TypeOK, People
<1>1. CASE UNCHANGED T!vars
  <2>1. UNCHANGED <<storage, view, asked, record, aside>>
    BY <1>1 DEF T!vars
  <2>2. T!TypeOK' /\ T!BuyerIsDepositor' /\ T!ConfirmedIsBought' /\ T!DisputeShownIsFiled'
    BY <2>1 DEF T!IInv, T!TypeOK, T!BuyerIsDepositor, T!ConfirmedIsBought, T!DisputeShownIsFiled
  <2>3. T!RequestsAreTrue' /\ T!TabsWaitForTheirs'
    BY <2>1 DEF T!IInv, T!RequestsAreTrue, T!TabsWaitForTheirs
  <2>4. QED
    BY <2>2, <2>3 DEF T!IInv
<1>2. ASSUME NEW t \in Tabs, NEW p \in T!Pages, storage' \in People, UNCHANGED <<asked, record, aside>>,
             view' = [view EXCEPT ![t] = p], PageIsTrue(p), WaitsForItsOwn(p, asked[t])
      PROVE  T!IInv'
  <2>1. asked' = [asked EXCEPT ![t] = asked[t]] /\ asked[t] \in T!Waiting /\ RequestIsTrue(asked[t])
    BY <1>0, <1>2, PagesAreTrue
  <2>2. QED
    BY <1>2, <2>1, TradeTabMoves
<1>3. ASSUME NEW t \in Tabs, NEW u \in Traders, T!SignIn(t, u) PROVE T!IInv'
  <2>1. view' = [view EXCEPT ![t] = view[t]] /\ UNCHANGED <<asked, record, aside>> /\ storage' \in People
    BY <1>0, <1>3 DEF T!SignIn, People
  <2>2. QED
    BY <1>2, <2>1, PagesAreTrue
<1>4. ASSUME NEW t \in Tabs, T!SignOut(t) PROVE T!IInv'
  BY <1>0, <1>2, <1>4, AwayIsTrue DEF T!SignOut
<1>5. ASSUME NEW t \in Tabs, T!Open(t) PROVE T!IInv'
  <2> DEFINE p == [T!Away EXCEPT !.page = "trade", !.user = storage, !.status = record.status]
  <2>1. CASE storage = None
    BY <1>0, <1>2, <1>5, <2>1, AwayIsTrue DEF T!Open
  <2>2. CASE storage # None
    <3>1. view' = [view EXCEPT ![t] = p] /\ UNCHANGED <<storage, asked, record, aside>>
      BY <1>5, <2>2 DEF T!Open
    <3>2. p.status = record.status /\ ~p.confirmed /\ p.step = "idle" /\ p.dialog = "closed"
      BY DEF T!Away
    <3>3. p \in T!Pages
      <4>1. storage \in Traders \cup {None} /\ record.status \in {"Active", "Locked", "Disputed"}
        BY <1>0 DEF People
      <4>2. T!Away \in T!Pages
        BY AwayIsTrue
      <4>3. QED
        BY <4>1, <4>2, Zenon DEF T!Pages
    <3> HIDE DEF p
    <3>4. PageIsTrue(p) /\ WaitsForItsOwn(p, asked[t])
      BY <3>2 DEF PageIsTrue, WaitsForItsOwn
    <3>5. QED
      BY <1>0, <1>2, <3>1, <3>3, <3>4
  <2>3. QED
    BY <2>1, <2>2
<1>6. ASSUME NEW t \in Tabs, T!Buy(t) PROVE T!IInv'
  <2>1. /\ view[t] \in T!Pages /\ PageIsTrue(view[t]) /\ WaitsForItsOwn(view[t], asked[t])
        /\ view[t].status = "Active" /\ ~view[t].confirmed /\ UNCHANGED <<storage, record, aside>>
    BY <1>6, PagesAreTrue DEF T!Buy, T!Offered, T!CanBuy
  <2>2. CASE storage = None
    BY <1>0, <1>2, <1>6, <2>1, <2>2, AwayIsTrue DEF T!Buy
  <2>3. CASE storage # None
    <3> DEFINE p == [view[t] EXCEPT !.step = "prepare"]
    <3>1. view' = [view EXCEPT ![t] = p] /\ T!Send(t, "prepare", None)
      BY <1>6, <2>3 DEF T!Buy
    <3>2. /\ p \in T!Pages /\ p.status = "Active" /\ ~p.confirmed /\ p.step = "prepare"
          /\ p.dialog = "closed"
      BY <2>1 DEF T!Pages, WaitsForItsOwn
    <3> HIDE DEF p
    <3>3. PageIsTrue(p)
      BY <3>2 DEF PageIsTrue
    <3>4. QED
      BY <1>0, <2>1, <3>1, <3>2, <3>3, SendMoves
  <2>4. QED
    BY <2>2, <2>3
<1>7. ASSUME NEW t \in Tabs, T!Prepared(t) PROVE T!IInv'
  <2>1. /\ view[t] \in T!Pages /\ PageIsTrue(view[t]) /\ WaitsForItsOwn(view[t], asked[t])
        /\ asked[t].user \in People /\ view[t].key \in People /\ view[t].step = "prepare"
        /\ UNCHANGED <<storage, record, aside>>
    BY <1>0, <1>7, PagesAreTrue DEF T!Prepared, T!Answered, T!Waiting, T!Pages, People
  <2>2. CASE view[t].key # None
    BY <1>7, <2>1, <2>2, SignKeeps DEF T!Prepared
  <2>3. CASE view[t].key = None
    <3> DEFINE p == [view[t] EXCEPT !.step = "unlock", !.source = asked[t].user]
    <3>1. view' = [view EXCEPT ![t] = p] /\ T!Send(t, "unlock", None)
      BY <1>0, <1>7, <2>3 DEF T!Prepared
    <3>2. /\ p \in T!Pages /\ p.status = "Active" /\ ~p.confirmed /\ p.step = "unlock"
          /\ p.dialog = "closed"
      BY <2>1 DEF T!Pages, WaitsForItsOwn, People
    <3> HIDE DEF p
    <3>3. PageIsTrue(p)
      BY <3>2 DEF PageIsTrue
    <3>4. QED
      BY <1>0, <2>1, <3>1, <3>2, <3>3, SendMoves
  <2>4. QED
    BY <2>2, <2>3
<1>8. ASSUME NEW t \in Tabs, T!Unlocked(t) PROVE T!IInv'
  <2>1. /\ asked[t].user \in People /\ view[t].source \in People /\ view[t].step = "unlock"
        /\ UNCHANGED <<storage, record, aside>> /\ T!Sign(t, asked[t].user, view[t].source)
    BY <1>0, <1>8, PagesAreTrue DEF T!Unlocked, T!Answered, T!Waiting, T!Pages, People
  <2>2. QED
    BY <2>1, SignKeeps
<1>9. ASSUME NEW t \in Tabs, T!Bought(t) PROVE T!IInv'
  <2> DEFINE p == [view[t] EXCEPT !.step = "idle", !.status = "Locked", !.confirmed = TRUE]
  <2>1. /\ view[t] \in T!Pages /\ RequestIsTrue(asked[t]) /\ WaitsForItsOwn(view[t], asked[t])
        /\ view[t].step = "buy" /\ asked[t].answer = "ok" /\ UNCHANGED <<storage, record, aside>>
    BY <1>9, PagesAreTrue DEF T!Bought, T!Answered
  <2>2. /\ record.status # "Active" /\ record.buyer = view[t].source /\ record.buyer = view[t].key
        /\ view[t].dialog = "closed"
    BY <2>1 DEF RequestIsTrue, WaitsForItsOwn
  <2>3. view' = [view EXCEPT ![t] = p] /\ asked' = [asked EXCEPT ![t] = T!NoRequest]
    BY <1>0, <1>9 DEF T!Bought
  <2>4. /\ p \in T!Pages /\ p.step = "idle" /\ p.status = "Locked" /\ p.dialog = "closed"
        /\ p.source = view[t].source /\ p.key = view[t].key
    BY <2>1, <2>2 DEF T!Pages
  <2> HIDE DEF p
  <2>5. PageIsTrue(p)
    BY <2>2, <2>4 DEF PageIsTrue
  <2>6. QED
    BY <1>0, <2>1, <2>3, <2>4, <2>5, IdleMoves
<1>10. ASSUME NEW t \in Tabs, NEW d \in T!Dialog, UNCHANGED <<storage, asked, record, aside>>,
              view' = [view EXCEPT ![t].dialog = d], ~view[t].confirmed,
              view[t].status = "Locked", view[t].step = "idle"
       PROVE  T!IInv'
  <2> DEFINE p == [view[t] EXCEPT !.dialog = d]
  <2>1. view[t] \in T!Pages
    BY <1>0
  <2>2. /\ p \in T!Pages /\ ~p.confirmed /\ p.status = "Locked" /\ p.step = "idle"
    BY <1>10, <2>1 DEF T!Pages
  <2>3. view' = [view EXCEPT ![t] = p]
    BY <1>10
  <2> HIDE DEF p
  <2>4. PageIsTrue(p) /\ WaitsForItsOwn(p, asked[t])
    BY <2>2 DEF PageIsTrue, WaitsForItsOwn
  <2>5. QED
    BY <1>0, <1>2, <1>10, <2>2, <2>3, <2>4
<1>11. ASSUME NEW t \in Tabs, T!OpenDispute(t) PROVE T!IInv'
  <2>1. /\ ~view[t].confirmed /\ view[t].status = "Locked" /\ view[t].dialog = "closed"
        /\ UNCHANGED <<storage, asked, record, aside>> /\ view' = [view EXCEPT ![t].dialog = "empty"]
        /\ "empty" \in T!Dialog
    BY <1>11 DEF T!OpenDispute, T!Offered, T!Dialog
  <2>2. view[t] \in T!Pages /\ WaitsForItsOwn(view[t], asked[t])
    BY PagesAreTrue
  <2>3. view[t].step = "idle"
    BY <2>1, <2>2 DEF WaitsForItsOwn, T!Pages
  <2>4. QED
    BY <1>10, <2>1, <2>3
<1>12. ASSUME NEW t \in Tabs, T!ChangeReason(t) \/ T!CloseDispute(t) PROVE T!IInv'
  <2>1. view[t] \in T!Pages /\ WaitsForItsOwn(view[t], asked[t])
    BY PagesAreTrue
  <2>2. view[t].dialog # "closed" /\ view[t].step = "idle" /\ UNCHANGED <<storage, asked, record, aside>>
    BY <1>12 DEF T!ChangeReason, T!CloseDispute
  <2>3. PICK d \in T!Dialog : view' = [view EXCEPT ![t].dialog = d]
    BY <1>12 DEF T!ChangeReason, T!CloseDispute, T!Dialog
  <2>4. ~view[t].confirmed /\ view[t].status = "Locked"
    BY <2>1, <2>2 DEF WaitsForItsOwn, T!Pages
  <2>5. QED
    BY <1>10, <2>2, <2>3, <2>4
<1>13. ASSUME NEW t \in Tabs, T!Dispute(t) PROVE T!IInv'
  <2> DEFINE p == [view[t] EXCEPT !.step = "dispute"]
  <2>1. /\ view[t] \in T!Pages /\ PageIsTrue(view[t]) /\ WaitsForItsOwn(view[t], asked[t])
        /\ view[t].dialog = "reasoned" /\ UNCHANGED <<storage, record, aside>>
    BY <1>13, PagesAreTrue DEF T!Dispute
  <2>2. view[t].status = "Locked" /\ ~view[t].confirmed
    BY <2>1 DEF WaitsForItsOwn, T!Pages
  <2>3. view' = [view EXCEPT ![t] = p] /\ T!Send(t, "dispute", None)
    BY <1>13 DEF T!Dispute
  <2>4. p \in T!Pages /\ p.step = "dispute" /\ p.status = "Locked" /\ p.dialog # "closed" /\ ~p.confirmed
    BY <2>1, <2>2 DEF T!Pages
  <2> HIDE DEF p
  <2>5. PageIsTrue(p)
    BY <2>4 DEF PageIsTrue
  <2>6. QED
    BY <1>0, <2>1, <2>3, <2>4, <2>5, SendMoves
<1>14. ASSUME NEW t \in Tabs, T!Disputed(t) PROVE T!IInv'
  <2> DEFINE p == [view[t] EXCEPT !.step = "idle", !.status = "Disputed", !.dialog = "closed"]
  <2>1. /\ view[t] \in T!Pages /\ RequestIsTrue(asked[t]) /\ WaitsForItsOwn(view[t], asked[t])
        /\ view[t].step \in {"dispute", "dispute again"} /\ asked[t].answer = "ok"
        /\ UNCHANGED <<storage, record, aside>>
    BY <1>14, PagesAreTrue DEF T!Disputed
  <2>2. record.status = "Disputed" /\ ~view[t].confirmed
    BY <2>1 DEF RequestIsTrue, WaitsForItsOwn, T!Pages
  <2>3. view' = [view EXCEPT ![t] = p] /\ asked' = [asked EXCEPT ![t] = T!NoRequest]
    BY <1>0, <1>14 DEF T!Disputed
  <2>4. p \in T!Pages /\ p.step = "idle" /\ p.dialog = "closed" /\ ~p.confirmed
    BY <2>1, <2>2 DEF T!Pages, T!Dialog
  <2> HIDE DEF p
  <2>5. PageIsTrue(p)
    BY <2>2, <2>4 DEF PageIsTrue
  <2>6. QED
    BY <1>0, <2>1, <2>3, <2>4, <2>5, IdleMoves
<1>15. ASSUME NEW t \in Tabs, T!SessionExpired(t) PROVE T!IInv'
  <2>1. T!Away.step = "idle" /\ T!Away.dialog = "closed" /\ T!Away \in T!Pages /\ PageIsTrue(T!Away)
    BY AwayIsTrue DEF T!Away
  <2>2. QED
    BY <1>0, <1>15, <2>1, IdleMoves DEF T!SessionExpired
<1>16. ASSUME NEW t \in Tabs, T!Failed(t) PROVE T!IInv'
  <2>1. /\ view[t] \in T!Pages /\ PageIsTrue(view[t]) /\ WaitsForItsOwn(view[t], asked[t])
        /\ view[t].step # "idle" /\ UNCHANGED <<storage, record, aside>>
    BY <1>16, PagesAreTrue DEF T!Failed
  <2>2. ~view[t].confirmed
    BY <2>1 DEF WaitsForItsOwn, T!Pages
  <2>3. CASE view[t].step = "dispute" /\ view' = [view EXCEPT ![t].step = "dispute again"]
             /\ T!Send(t, "dispute", None)
    <3> DEFINE p == [view[t] EXCEPT !.step = "dispute again"]
    <3>1. view' = [view EXCEPT ![t] = p]
      BY <2>3
    <3>2. /\ p \in T!Pages /\ p.step = "dispute again" /\ ~p.confirmed /\ p.status = "Locked"
          /\ p.dialog # "closed"
      BY <2>1, <2>2, <2>3 DEF WaitsForItsOwn, T!Pages
    <3> HIDE DEF p
    <3>3. PageIsTrue(p)
      BY <3>2 DEF PageIsTrue
    <3>4. QED
      BY <1>0, <2>1, <2>3, <3>1, <3>2, <3>3, SendMoves
  <2>4. CASE T!Idle(t)
    <3> DEFINE p == [view[t] EXCEPT !.step = "idle", !.source = None]
    <3>1. view' = [view EXCEPT ![t] = p] /\ asked' = [asked EXCEPT ![t] = T!NoRequest]
      BY <1>0, <2>4 DEF T!Idle
    <3>2. /\ p \in T!Pages /\ p.step = "idle" /\ ~p.confirmed /\ p.status = view[t].status
          /\ (p.dialog # "closed" => p.status = "Locked")
      BY <2>1, <2>2 DEF WaitsForItsOwn, T!Pages
    <3> HIDE DEF p
    <3>3. PageIsTrue(p)
      BY <2>1, <3>2 DEF PageIsTrue
    <3>4. QED
      BY <1>0, <2>1, <3>1, <3>2, <3>3, IdleMoves
  <2>5. QED
    BY <1>16, <2>3, <2>4 DEF T!Failed
<1>17. ASSUME NEW t \in Tabs, T!Forget(t) PROVE T!IInv'
  <2>1. /\ view[t] \in T!Pages /\ PageIsTrue(view[t]) /\ WaitsForItsOwn(view[t], asked[t])
        /\ view[t].step = "idle" /\ UNCHANGED <<storage, record, aside>>
        /\ view' = [view EXCEPT ![t] = view[t]] /\ asked' = [asked EXCEPT ![t] = T!NoRequest]
    BY <1>0, <1>17, PagesAreTrue DEF T!Forget
  <2>2. (view[t].dialog # "closed" => view[t].status = "Locked")
        /\ (view[t].confirmed => view[t].dialog = "closed")
    BY <2>1 DEF WaitsForItsOwn
  <2>3. QED
    BY <1>0, <2>1, <2>2, IdleMoves
<1>18. ASSUME NEW t \in Tabs, T!Refuse(t) PROVE T!IInv'
  <2>1. PICK a \in {"401", "error", "lost"} : T!Answer(t, a)
    BY <1>18 DEF T!Refuse
  <2>2. QED
    BY <1>18, <2>1, RefusalMoves DEF T!Refuse
<1>19. ASSUME NEW t \in Tabs, T!Prepare(t) \/ T!Unlock(t) PROVE T!IInv'
  <2>1. /\ asked[t].answer = "none" /\ asked[t].op \in {"prepare", "unlock"}
        /\ UNCHANGED <<storage, view, record, aside>> /\ (T!Answer(t, "ok") \/ T!Answer(t, "error"))
    BY <1>19 DEF T!Prepare, T!Unlock, T!Arrived
  <2>2. QED
    BY <2>1, AnswerMoves, RefusalMoves
<1>20. QED
  BY <1>1, <1>3, <1>4, <1>5, <1>6, <1>7, <1>8, <1>9, <1>11, <1>12, <1>13, <1>14, <1>15, <1>16,
     <1>17, <1>18, <1>19, CheckKeeps, DepositKeeps, LockKeeps, FileDisputeKeeps DEF T!Next

\* TradePage: its invariant holds more than its properties.
LEMMA TradeIsSafe == T!IInv => T!BuyerIsDepositor /\ T!ConfirmedIsBought /\ T!DisputeShownIsFiled
  BY DEF T!IInv

-----------------------------------------------------------------------------
(* The listings.                                                           *)

\* What the invariant says of a page that awaits the filters in aw.
PageIsSound(v, aw) ==
  /\ v.rows.some /\ v.rows.of # v.filter => v.late \/ v.error \/ v.filter \in aw
  /\ v.loading /\ ~v.error => aw # {}
  /\ v.page = "trades" /\ ~v.error /\ ~v.loading => v.rows.of # None

\* The invariant, of a home page that comes next.
LEMMA HomeIsSound ==
  ASSUME storage' \in [Filters -> [rows : L!Rows, fresh : BOOLEAN]], L!CacheIsOfFilter',
         aside' \in [Filters -> {"none", "pending", "rejected"}],
         asked' \in [L!Pages -> [Filters -> Nat]], view' \in L!Views, view'.page = "home",
         \A f \in Filters : asked'["home"][f] = IF aside'[f] = "pending" THEN 1 ELSE 0,
         \A f \in Filters : asked'["trades"][f] = 0,
         \A f \in view'.waiting : aside'[f] = "pending",
         PageIsSound(view', view'.waiting)
  PROVE  L!IInv'
<1>1. L!UnderWay("trades")' = {}
  BY DEF L!UnderWay
<1>2. L!Awaited(view)' = view'.waiting
  BY DEF L!Awaited
<1>3. QED
  BY <1>1, <1>2 DEF L!IInv, L!Typed, L!RequestsAreCounted, L!AwaitedIsOfFilter, PageIsSound

\* The invariant, of the page /trades that comes next.
LEMMA TradesAreSound ==
  ASSUME storage' \in [Filters -> [rows : L!Rows, fresh : BOOLEAN]], L!CacheIsOfFilter',
         aside' \in [Filters -> {"none", "pending", "rejected"}],
         asked' \in [L!Pages -> [Filters -> Nat]], view' \in L!Views, view'.page = "trades",
         \A f \in Filters : asked'["home"][f] = IF aside'[f] = "pending" THEN 1 ELSE 0,
         view'.waiting = {},
         PageIsSound(view', {f \in Filters : asked'["trades"][f] > 0})
  PROVE  L!IInv'
<1>1. L!Awaited(view)' = {f \in Filters : asked'["trades"][f] > 0}
  BY DEF L!Awaited, L!UnderWay
<1>2. QED
  BY <1>1 DEF L!IInv, L!Typed, L!RequestsAreCounted, L!AwaitedIsOfFilter, PageIsSound

\* What the invariant says now.
LEMMA WhatIsSound ==
  ASSUME L!IInv
  PROVE  /\ storage \in [Filters -> [rows : L!Rows, fresh : BOOLEAN]] /\ L!CacheIsOfFilter
         /\ aside \in [Filters -> {"none", "pending", "rejected"}]
         /\ asked \in [L!Pages -> [Filters -> Nat]] /\ view \in L!Views
         /\ \A f \in Filters : asked["home"][f] = IF aside[f] = "pending" THEN 1 ELSE 0
         /\ \A f \in view.waiting : view.page = "home" /\ aside[f] = "pending"
         /\ view.page = "home" => /\ \A f \in Filters : asked["trades"][f] = 0
                                  /\ PageIsSound(view, view.waiting)
         /\ view.page = "trades" =>
              view.waiting = {} /\ PageIsSound(view, {f \in Filters : asked["trades"][f] > 0})
<1>1. /\ storage \in [Filters -> [rows : L!Rows, fresh : BOOLEAN]] /\ L!CacheIsOfFilter
      /\ aside \in [Filters -> {"none", "pending", "rejected"}]
      /\ asked \in [L!Pages -> [Filters -> Nat]] /\ view \in L!Views
      /\ \A f \in Filters : asked["home"][f] = IF aside[f] = "pending" THEN 1 ELSE 0
      /\ \A f \in view.waiting : view.page = "home" /\ aside[f] = "pending"
  BY DEF L!IInv, L!Typed, L!RequestsAreCounted
<1>2. CASE view.page = "home"
  <2>1. \A f \in Filters : asked["trades"][f] = 0
    BY <1>1, <1>2 DEF L!IInv, L!RequestsAreCounted, L!UnderWay, L!Pages
  <2>2. L!Awaited(view) = view.waiting
    BY <1>2 DEF L!Awaited
  <2>3. QED
    BY <1>1, <1>2, <2>1, <2>2 DEF L!IInv, L!AwaitedIsOfFilter, PageIsSound
<1>3. CASE view.page # "home"
  <2>1. L!Awaited(view) = {f \in Filters : asked["trades"][f] > 0}
    BY <1>3 DEF L!Awaited, L!UnderWay
  <2>2. view.waiting = {}
    BY <1>1, <1>3
  <2>3. QED
    BY <1>1, <1>3, <2>1, <2>2 DEF L!IInv, L!AwaitedIsOfFilter, PageIsSound
<1>4. QED
  BY <1>2, <1>3

\* What the page shows once the answer to a request for f is shown.
LEMMA ShowsAnswer ==
  ASSUME NEW v \in L!Views, NEW f, NEW rows \in L!Rows
  PROVE  /\ L!Shown(v, f, rows) \in L!Views /\ L!Shown(v, f, rows).page = v.page
         /\ L!Shown(v, f, rows).filter = v.filter /\ L!Shown(v, f, rows).rows = rows
         /\ ~L!Shown(v, f, rows).loading /\ L!Shown(v, f, rows).error = v.error
         /\ L!Shown(v, f, rows).waiting = v.waiting
         /\ L!Shown(v, f, rows).late = (f # v.filter)
<1> DEFINE l == f # v.filter
<1>1. L!Shown(v, f, rows) = [v EXCEPT !.rows = rows, !.loading = FALSE, !.late = l]
  BY DEF L!Shown
<1>2. l \in BOOLEAN /\ FALSE \in BOOLEAN
  OBVIOUS
<1> HIDE DEF l
<1>3. [v EXCEPT !.rows = rows, !.loading = FALSE, !.late = l] \in L!Views
  BY <1>2, Zenon DEF L!Views
<1>4. QED
  BY <1>1, <1>3 DEF L!Views, l

\* One more request is under way.
LEMMA Issues ==
  ASSUME asked \in [L!Pages -> [Filters -> Nat]], NEW pg \in L!Pages, NEW f \in Filters,
         L!Issue(pg, f)
  PROVE  /\ asked' \in [L!Pages -> [Filters -> Nat]]
         /\ asked'[pg][f] = asked[pg][f] + 1
         /\ \A p \in L!Pages, g \in Filters : p # pg \/ g # f => asked'[p][g] = asked[p][g]
<1>1. asked' = [asked EXCEPT ![pg][f] = @ + 1]
  BY DEF L!Issue
<1>2. QED
  BY <1>1

\* One is answered.
LEMMA Answers ==
  ASSUME asked \in [L!Pages -> [Filters -> Nat]], NEW pg \in L!Pages, NEW f \in Filters,
         L!Answered(pg, f)
  PROVE  /\ asked' \in [L!Pages -> [Filters -> Nat]] /\ asked[pg][f] > 0
         /\ asked'[pg][f] = asked[pg][f] - 1
         /\ \A p \in L!Pages, g \in Filters : p # pg \/ g # f => asked'[p][g] = asked[p][g]
<1>1. asked' = [asked EXCEPT ![pg][f] = @ - 1] /\ asked[pg][f] > 0
  BY DEF L!Answered
<1>2. QED
  BY <1>1

\* fetchData of the home page, for the filter that it shows.
LEMMA FetchDataKeeps ==
  ASSUME L!IInv, NEW v \in L!Views, NEW f \in Filters, NEW b \in BOOLEAN, v.page = "home", v.filter = f,
         \A g \in Filters : asked["trades"][g] = 0,
         \A g \in v.waiting : aside[g] = "pending",
         L!FetchData(v, f, b), UNCHANGED storage
  PROVE  L!IInv'
<1>1. /\ storage \in [Filters -> [rows : L!Rows, fresh : BOOLEAN]] /\ L!CacheIsOfFilter
      /\ aside \in [Filters -> {"none", "pending", "rejected"}]
      /\ asked \in [L!Pages -> [Filters -> Nat]]
      /\ \A g \in Filters : asked["home"][g] = IF aside[g] = "pending" THEN 1 ELSE 0
  BY WhatIsSound
<1>2. L!CacheIsOfFilter' /\ storage' \in [Filters -> [rows : L!Rows, fresh : BOOLEAN]]
  BY <1>1 DEF L!CacheIsOfFilter
<1>3. v.waiting \subseteq Filters /\ v.loading \in BOOLEAN
                                      /\ v.rows \in L!Rows
  BY DEF L!Views
<1>4. CASE storage[f].fresh /\ L!ShowCached(v, f)
  <2> DEFINE w == L!Shown(v, f, storage[f].rows)
  <2>1. storage[f].rows \in L!Rows /\ storage[f].rows.of = f /\ FALSE \in BOOLEAN
    <3>1. storage[f] \in [rows : L!Rows, fresh : BOOLEAN]
      BY <1>1
    <3>2. storage[f].rows.of = f
      BY <1>1, <1>4 DEF L!CacheIsOfFilter
    <3>3. QED
      BY <3>1, <3>2
  <2>2. w \in L!Views
    BY <2>1, ShowsAnswer
  <2>3. w.page = "home" /\ w.filter = f /\ w.rows.of = f /\ ~w.loading /\ w.waiting = v.waiting
    BY <2>1, ShowsAnswer
  <2>4. view' = [w EXCEPT !.error = FALSE] /\ UNCHANGED <<aside, asked>>
    BY <1>4 DEF L!ShowCached
  <2> HIDE DEF w
  <2>5. view' \in L!Views
    BY <2>1, <2>2, <2>4, Zenon DEF L!Views
  <2>8. /\ view'.page = "home" /\ view'.filter = f /\ view'.rows.of = f
        /\ ~view'.loading /\ ~view'.error /\ view'.waiting = v.waiting
    BY <2>2, <2>3, <2>4 DEF L!Views
  <2>6. PageIsSound(view', view'.waiting)
    BY <2>8 DEF PageIsSound
  <2>7. QED
    BY <1>1, <1>2, <2>4, <2>5, <2>6, <2>8, HomeIsSound
<1>5. CASE L!Await(L!Cleared(v, f, b), f)
  <2> DEFINE l == v.loading \/ (~b /\ storage[f].rows = L!NoRows /\ ~v.rows.some)
             c == [v EXCEPT !.loading = l, !.error = FALSE]
  <2>1. l \in BOOLEAN /\ FALSE \in BOOLEAN /\ TRUE \in BOOLEAN /\ L!Cleared(v, f, b) = c
    BY <1>3 DEF L!Cleared, L!Rows
  <2> HIDE DEF l
  <2>2. c \in L!Views
    BY <2>1, Zenon DEF L!Views
  <2>3. /\ c.page = "home" /\ c.filter = f /\ ~c.error /\ c.waiting = v.waiting /\ c.rows = v.rows
    BY DEF L!Views
  <2> HIDE DEF c
  <2>4. CASE aside[f] = "rejected" /\ view' = [c EXCEPT !.loading = FALSE, !.error = TRUE]
             /\ UNCHANGED <<aside, asked>>
    <3>1. view' \in L!Views
      BY <2>1, <2>2, <2>4, Zenon DEF L!Views
    <3>2. /\ view'.page = "home" /\ view'.filter = f /\ view'.error /\ ~view'.loading
          /\ view'.waiting = v.waiting
      BY <2>2, <2>3, <2>4 DEF L!Views
    <3>3. PageIsSound(view', view'.waiting)
      BY <3>2 DEF PageIsSound
    <3>4. QED
      BY <1>1, <1>2, <2>4, <3>1, <3>2, <3>3, HomeIsSound
  <2>5. ASSUME view' = [c EXCEPT !.waiting = @ \cup {f}]
        PROVE  /\ view' \in L!Views /\ view'.page = "home" /\ view'.waiting = v.waiting \cup {f}
               /\ PageIsSound(view', view'.waiting)
    <3>1. c.waiting \cup {f} \in SUBSET Filters
      BY <1>3, <2>3
    <3>2. view' = [c EXCEPT !.waiting = c.waiting \cup {f}]
      BY <2>5
    <3>3. view' \in L!Views
      BY <2>2, <3>1, <3>2, Zenon DEF L!Views
    <3>4. /\ view'.page = "home" /\ view'.filter = f /\ view'.waiting = v.waiting \cup {f}
      BY <2>2, <2>3, <3>2 DEF L!Views
    <3>5. PageIsSound(view', view'.waiting)
      BY <3>4 DEF PageIsSound
    <3>6. QED
      BY <3>3, <3>4, <3>5
  <2>6. CASE aside[f] = "pending" /\ view' = [c EXCEPT !.waiting = @ \cup {f}]
             /\ UNCHANGED <<aside, asked>>
    <3>1. \A g \in view'.waiting : aside'[g] = "pending"
      BY <2>5, <2>6
    <3>2. QED
      BY <1>1, <1>2, <2>5, <2>6, <3>1, HomeIsSound
  <2>7. CASE aside[f] = "none" /\ L!Issue("home", f) /\ aside' = [aside EXCEPT ![f] = "pending"]
             /\ view' = [c EXCEPT !.waiting = @ \cup {f}]
    <3>1. "home" \in L!Pages /\ "trades" \in L!Pages
      BY DEF L!Pages
    <3>2. /\ asked' \in [L!Pages -> [Filters -> Nat]]
          /\ asked'["home"][f] = asked["home"][f] + 1
          /\ \A p \in L!Pages, g \in Filters : p # "home" \/ g # f => asked'[p][g] = asked[p][g]
      BY <1>1, <2>7, <3>1, Issues
    <3>3. /\ aside' \in [Filters -> {"none", "pending", "rejected"}] /\ aside'[f] = "pending"
          /\ \A g \in Filters \ {f} : aside'[g] = aside[g]
      BY <1>1, <2>7
    <3>4. \A g \in Filters : asked'["home"][g] = IF aside'[g] = "pending" THEN 1 ELSE 0
      BY <1>1, <2>7, <3>1, <3>2, <3>3
    <3>5. \A g \in Filters : asked'["trades"][g] = 0
      BY <3>1, <3>2
    <3>6. \A g \in view'.waiting : aside'[g] = "pending"
      BY <1>3, <2>5, <2>7, <3>3
    <3>7. QED
      BY <1>2, <2>5, <2>7, <3>2, <3>3, <3>4, <3>5, <3>6, HomeIsSound
  <2>8. L!Await(c, f)
    BY <1>5, <2>1
  <2>9. QED
    BY <2>4, <2>6, <2>7, <2>8 DEF L!Await
<1>6. QED
  BY <1>4, <1>5 DEF L!FetchData

\* The page /trades asks for the filter that it shows.
LEMMA FetchListingsKeeps ==
  ASSUME L!IInv, NEW v \in L!Views, NEW f \in Filters, v.page = "trades", v.filter = f, v.waiting = {},
         L!FetchListings(v, f), UNCHANGED storage
  PROVE  L!IInv'
<1>1. /\ storage \in [Filters -> [rows : L!Rows, fresh : BOOLEAN]] /\ L!CacheIsOfFilter
      /\ aside \in [Filters -> {"none", "pending", "rejected"}]
      /\ asked \in [L!Pages -> [Filters -> Nat]]
      /\ \A g \in Filters : asked["home"][g] = IF aside[g] = "pending" THEN 1 ELSE 0
  BY WhatIsSound
<1>2. /\ L!CacheIsOfFilter' /\ storage' \in [Filters -> [rows : L!Rows, fresh : BOOLEAN]]
      /\ aside' = aside
  BY <1>1 DEF L!CacheIsOfFilter, L!FetchListings
<1>3. "home" \in L!Pages /\ "trades" \in L!Pages /\ TRUE \in BOOLEAN /\ FALSE \in BOOLEAN
  BY DEF L!Pages
<1>4. /\ asked' \in [L!Pages -> [Filters -> Nat]]
      /\ asked'["trades"][f] = asked["trades"][f] + 1
      /\ \A p \in L!Pages, g \in Filters : p # "trades" \/ g # f => asked'[p][g] = asked[p][g]
  BY <1>1, <1>3, Issues DEF L!FetchListings
<1>5. view' = [v EXCEPT !.loading = TRUE, !.error = FALSE]
  BY DEF L!FetchListings
<1>6. view' \in L!Views
  BY <1>3, <1>5, Zenon DEF L!Views
<1>7. /\ view'.page = "trades" /\ view'.filter = f /\ view'.waiting = {} /\ view'.loading
  BY <1>5 DEF L!Views
<1> DEFINE aw == {g \in Filters : asked'["trades"][g] > 0}
<1>8. f \in aw
  BY <1>1, <1>3, <1>4
<1> HIDE DEF aw
<1>9. PageIsSound(view', aw)
  BY <1>7, <1>8 DEF PageIsSound
<1>10. \A g \in Filters : asked'["home"][g] = IF aside'[g] = "pending" THEN 1 ELSE 0
  BY <1>1, <1>2, <1>3, <1>4
<1>11. QED
  BY <1>1, <1>2, <1>4, <1>6, <1>7, <1>9, <1>10, TradesAreSound DEF aw

\* A page that opens shows nothing.
LEMMA MountedIsEmpty ==
  ASSUME NEW pg \in L!Pages, NEW f \in Filters
  PROVE  LET v == L!Mounted(pg, f) IN
         /\ v \in L!Views /\ v.page = pg /\ v.filter = f /\ v.waiting = {}
         /\ ~v.error /\ v.loading /\ ~v.rows.some
<1>1. L!NoRows \in L!Rows /\ ~L!NoRows.some
  BY DEF L!NoRows, L!Rows
<1>2. QED
  BY <1>1 DEF L!Mounted, L!Views

\* What a load leaves.
LEMMA LoadedIsFresh ==
  ASSUME NEW pg \in L!Pages, NEW f \in Filters, L!Load(pg, f)
  PROVE  L!IInv'
<1> DEFINE v == [L!Mounted(pg, f) EXCEPT !.waiting = IF pg = "home" THEN {f} ELSE {}]
<1>1. /\ storage' = [g \in Filters |-> [rows |-> L!NoRows, fresh |-> FALSE]]
      /\ aside' = [g \in Filters |-> IF pg = "home" /\ g = f THEN "pending" ELSE "none"]
      /\ asked' = [p \in L!Pages |-> [g \in Filters |-> IF p = pg /\ g = f THEN 1 ELSE 0]]
      /\ view' = v
  BY DEF L!Load, L!Loaded
<1>2. /\ L!Mounted(pg, f) \in L!Views /\ L!Mounted(pg, f).page = pg /\ L!Mounted(pg, f).filter = f
      /\ ~L!Mounted(pg, f).error /\ L!Mounted(pg, f).loading
      /\ ~L!Mounted(pg, f).rows.some
  BY MountedIsEmpty
<1>3. (IF pg = "home" THEN {f} ELSE {}) \in SUBSET Filters
  OBVIOUS
<1>4. v \in L!Views
  BY <1>2, <1>3, Zenon DEF L!Views
<1>5. /\ v.page = pg /\ v.filter = f /\ ~v.error /\ v.loading /\ ~v.rows.some
      /\ v.waiting = IF pg = "home" THEN {f} ELSE {}
  BY <1>2 DEF L!Views
<1> HIDE DEF v
<1>6. L!NoRows \in L!Rows /\ L!NoRows.of = None /\ "home" \in L!Pages /\ "trades" \in L!Pages
  BY DEF L!NoRows, L!Rows, L!Pages
<1>7. /\ storage' \in [Filters -> [rows : L!Rows, fresh : BOOLEAN]] /\ L!CacheIsOfFilter'
      /\ aside' \in [Filters -> {"none", "pending", "rejected"}]
      /\ asked' \in [L!Pages -> [Filters -> Nat]]
  BY <1>1, <1>6 DEF L!CacheIsOfFilter
<1>8. \A g \in Filters : asked'["home"][g] = IF aside'[g] = "pending" THEN 1 ELSE 0
  BY <1>1, <1>6
<1>9. CASE pg = "home"
  <2>1. PageIsSound(v, {f})
    BY <1>5 DEF PageIsSound
  <2>2. \A g \in Filters : asked'["trades"][g] = 0
    BY <1>1, <1>6, <1>9
  <2>3. v.waiting = {f} /\ aside'[f] = "pending"
    BY <1>1, <1>5, <1>9
  <2>4. QED
    BY <1>1, <1>4, <1>5, <1>7, <1>8, <1>9, <2>1, <2>2, <2>3, HomeIsSound
<1>10. CASE pg # "home"
  <2>1. pg = "trades" /\ v.waiting = {}
    BY <1>5, <1>10 DEF L!Pages
  <2>2. {g \in Filters : asked'["trades"][g] > 0} = {f}
    BY <1>1, <1>6, <2>1
  <2>3. PageIsSound(v, {f})
    BY <1>5 DEF PageIsSound
  <2>4. QED
    BY <1>1, <1>4, <1>5, <1>7, <1>8, <2>1, <2>2, <2>3, TradesAreSound
<1>11. QED
  BY <1>9, <1>10

\* The home page opens first, without a filter.
LEMMA ListingsInit == L!Parameters /\ L!Init => L!IInv
<1> DEFINE v == [L!Mounted("home", All) EXCEPT !.waiting = {All}]
           aw == {All}
<1>1. SUFFICES ASSUME L!Parameters, L!Init PROVE L!IInv
  OBVIOUS
<1>2. All \in Filters /\ "home" \in L!Pages /\ "trades" \in L!Pages /\ L!NoRows \in L!Rows
                          /\ L!NoRows.of = None
  BY <1>1 DEF L!Parameters, L!Pages, L!NoRows, L!Rows
<1>3. /\ storage = [g \in Filters |-> [rows |-> L!NoRows, fresh |-> FALSE]]
      /\ aside = [g \in Filters |-> IF g = All THEN "pending" ELSE "none"]
      /\ asked = [p \in L!Pages |-> [g \in Filters |-> IF p = "home" /\ g = All THEN 1 ELSE 0]]
      /\ view = v
  BY <1>1 DEF L!Init, L!Loaded
<1>4. /\ L!Mounted("home", All) \in L!Views /\ L!Mounted("home", All).page = "home"
      /\ L!Mounted("home", All).filter = All
      /\ ~L!Mounted("home", All).error
      /\ L!Mounted("home", All).loading /\ ~L!Mounted("home", All).rows.some
  BY <1>2, MountedIsEmpty
<1>5. aw \in SUBSET Filters
  BY <1>2
<1>6. v \in L!Views
  BY <1>4, <1>5, Zenon DEF L!Views
<1>7. /\ v.page = "home" /\ v.filter = All /\ ~v.error /\ v.loading /\ ~v.rows.some
      /\ v.waiting = {All}
  BY <1>4 DEF L!Views
<1> HIDE DEF v
<1>8. L!Typed
  BY <1>2, <1>3, <1>6 DEF L!Typed
<1>9. L!CacheIsOfFilter
  BY <1>2, <1>3 DEF L!CacheIsOfFilter
<1>10. L!RequestsAreCounted
  BY <1>2, <1>3, <1>7 DEF L!RequestsAreCounted, L!UnderWay
<1>11. L!AwaitedIsOfFilter
  BY <1>3, <1>7 DEF L!AwaitedIsOfFilter, L!Awaited
<1>12. QED
  BY <1>8, <1>9, <1>10, <1>11 DEF L!IInv

\* An answer to the home page, whichever page is open: what is left of the requests.
LEMMA AnsweredAtHome ==
  ASSUME L!IInv, NEW f \in Filters, L!Answered("home", f), NEW s \in {"none", "rejected"},
         aside' = [aside EXCEPT ![f] = s]
  PROVE  /\ asked' \in [L!Pages -> [Filters -> Nat]]
         /\ aside' \in [Filters -> {"none", "pending", "rejected"}]
         /\ \A g \in Filters : asked'["trades"][g] = asked["trades"][g]
         /\ \A g \in Filters : asked'["home"][g] = IF aside'[g] = "pending" THEN 1 ELSE 0
         /\ \A g \in Filters \ {f} : aside'[g] = aside[g]
<1>1. /\ aside \in [Filters -> {"none", "pending", "rejected"}]
      /\ asked \in [L!Pages -> [Filters -> Nat]]
      /\ \A g \in Filters : asked["home"][g] = IF aside[g] = "pending" THEN 1 ELSE 0
  BY WhatIsSound
<1>2. "home" \in L!Pages /\ "trades" \in L!Pages /\ "home" # "trades"
  BY DEF L!Pages
<1>3. /\ asked' \in [L!Pages -> [Filters -> Nat]] /\ asked["home"][f] > 0
      /\ asked'["home"][f] = asked["home"][f] - 1
      /\ \A p \in L!Pages, g \in Filters : p # "home" \/ g # f => asked'[p][g] = asked[p][g]
  BY <1>1, <1>2, Answers
<1>4. /\ aside' \in [Filters -> {"none", "pending", "rejected"}]
      /\ aside'[f] = s /\ \A g \in Filters \ {f} : aside'[g] = aside[g]
  BY <1>1
<1>5. asked["home"][f] = 1 /\ asked'["home"][f] = 0
  BY <1>1, <1>2, <1>3
<1>6. QED
  BY <1>1, <1>2, <1>3, <1>4, <1>5

\* An answer for which the open page does not wait changes nothing there.
LEMMA UnheardKeeps ==
  ASSUME L!IInv, NEW f \in Filters, f \notin view.waiting, view' = view,
         storage' \in [Filters -> [rows : L!Rows, fresh : BOOLEAN]], L!CacheIsOfFilter',
         aside' \in [Filters -> {"none", "pending", "rejected"}],
         asked' \in [L!Pages -> [Filters -> Nat]],
         \A g \in Filters : asked'["trades"][g] = asked["trades"][g],
         \A g \in Filters : asked'["home"][g] = IF aside'[g] = "pending" THEN 1 ELSE 0,
         \A g \in Filters \ {f} : aside'[g] = aside[g]
  PROVE  L!IInv'
<1>1. /\ view \in L!Views /\ view.waiting \subseteq Filters
      /\ \A g \in view.waiting : aside[g] = "pending"
      /\ view.page = "home" => /\ \A g \in Filters : asked["trades"][g] = 0
                               /\ PageIsSound(view, view.waiting)
      /\ view.page = "trades" =>
           view.waiting = {} /\ PageIsSound(view, {g \in Filters : asked["trades"][g] > 0})
  BY WhatIsSound DEF L!Views
<1>2. CASE view.page = "home"
  <2>1. \A g \in view'.waiting : aside'[g] = "pending"
    BY <1>1
  <2>2. view' \in L!Views /\ view'.page = "home" /\ PageIsSound(view', view'.waiting)
    BY <1>1, <1>2
  <2>3. \A g \in Filters : asked'["trades"][g] = 0
    BY <1>1, <1>2
  <2>4. QED
    BY <2>1, <2>2, <2>3, HomeIsSound
<1>3. CASE view.page # "home"
  <2>1. view.page = "trades"
    BY <1>1, <1>3 DEF L!Views, L!Pages
  <2>2. {g \in Filters : asked'["trades"][g] > 0} = {g \in Filters : asked["trades"][g] > 0}
    OBVIOUS
  <2>3. /\ view' \in L!Views /\ view'.page = "trades" /\ view'.waiting = {}
        /\ PageIsSound(view', {g \in Filters : asked'["trades"][g] > 0})
    BY <1>1, <2>1, <2>2
  <2>4. QED
    BY <2>3, TradesAreSound
<1>4. QED
  BY <1>2, <1>3

\* An offer list comes to the home page.
LEMMA ResolvedKeeps ==
  ASSUME L!IInv, L!Parameters, NEW f \in Filters, L!Resolved(f)
  PROVE  L!IInv'
<1>1. /\ storage \in [Filters -> [rows : L!Rows, fresh : BOOLEAN]] /\ L!CacheIsOfFilter
      /\ aside \in [Filters -> {"none", "pending", "rejected"}]
      /\ asked \in [L!Pages -> [Filters -> Nat]] /\ view \in L!Views
      /\ \A g \in view.waiting : view.page = "home" /\ aside[g] = "pending"
      /\ view.page = "home" => /\ \A g \in Filters : asked["trades"][g] = 0
                               /\ PageIsSound(view, view.waiting)
  BY WhatIsSound
<1>2. PICK rows \in L!AnswerFor(f) :
        /\ L!Answered("home", f)
        /\ storage' = [storage EXCEPT ![f] = [rows |-> rows, fresh |-> TRUE]]
        /\ aside' = [aside EXCEPT ![f] = "none"]
        /\ view' = IF f \in view.waiting
                   THEN [L!Shown(view, f, rows) EXCEPT !.waiting = @ \ {f}]
                   ELSE view
  BY DEF L!Resolved
<1>3. rows \in L!Rows /\ rows.of = f
  BY DEF L!AnswerFor, L!Rows
<1>4. /\ asked' \in [L!Pages -> [Filters -> Nat]]
      /\ aside' \in [Filters -> {"none", "pending", "rejected"}]
      /\ \A g \in Filters : asked'["trades"][g] = asked["trades"][g]
      /\ \A g \in Filters : asked'["home"][g] = IF aside'[g] = "pending" THEN 1 ELSE 0
      /\ \A g \in Filters \ {f} : aside'[g] = aside[g]
  BY <1>2, AnsweredAtHome
<1> DEFINE entry == [rows |-> rows, fresh |-> TRUE]
<1>5. entry \in [rows : L!Rows, fresh : BOOLEAN] /\ entry.rows = rows
  BY <1>3
<1>6. storage' = [storage EXCEPT ![f] = entry]
  BY <1>2
<1> HIDE DEF entry
<1>7. storage' \in [Filters -> [rows : L!Rows, fresh : BOOLEAN]]
  BY <1>1, <1>5, <1>6
<1>8. L!CacheIsOfFilter'
  BY <1>1, <1>3, <1>5, <1>6 DEF L!CacheIsOfFilter
<1>9. CASE f \in view.waiting
  <2> DEFINE left == view.waiting \ {f}
             w == L!Shown(view, f, rows)
  <2>1. /\ left \in SUBSET Filters /\ view.waiting \subseteq Filters
        /\ w \in L!Views /\ w.page = view.page /\ w.filter = view.filter /\ w.rows = rows
        /\ ~w.loading /\ w.waiting = view.waiting /\ w.late = (f # view.filter)
    BY <1>1, <1>3, ShowsAnswer DEF L!Views
  <2>2. view' = [w EXCEPT !.waiting = left]
    BY <1>2, <1>9, <2>1
  <2> HIDE DEF left, w
  <2>3. view' \in L!Views
    BY <2>1, <2>2, Zenon DEF L!Views
  <2>5. view.page = "home" /\ PageIsSound(view, view.waiting)
        /\ \A g \in Filters : asked["trades"][g] = 0
    BY <1>1, <1>9
  <2>6. /\ view'.page = "home" /\ view'.filter = view.filter /\ view'.rows = rows
        /\ ~view'.loading /\ view'.waiting = left /\ view'.late = (f # view.filter)
    BY <2>1, <2>2, <2>5 DEF L!Views
  <2>7. PageIsSound(view', left)
    BY <1>3, <2>6 DEF PageIsSound
  <2>8. \A g \in view'.waiting : aside'[g] = "pending"
    BY <1>1, <1>4, <2>1, <2>6 DEF left
  <2>9. \A g \in Filters : asked'["trades"][g] = 0
    BY <1>4, <2>5
  <2>10. QED
    BY <1>4, <1>7, <1>8, <2>3, <2>6, <2>7, <2>8, <2>9, HomeIsSound
<1>10. CASE f \notin view.waiting
  BY <1>2, <1>4, <1>7, <1>8, <1>10, UnheardKeeps
<1>11. QED
  BY <1>9, <1>10

\* The home page is told of a failure.
LEMMA RejectedKeeps ==
  ASSUME L!IInv, NEW f \in Filters, L!Rejected(f)
  PROVE  L!IInv'
<1>1. /\ storage \in [Filters -> [rows : L!Rows, fresh : BOOLEAN]] /\ L!CacheIsOfFilter
      /\ aside \in [Filters -> {"none", "pending", "rejected"}]
      /\ asked \in [L!Pages -> [Filters -> Nat]] /\ view \in L!Views
      /\ \A g \in view.waiting : view.page = "home" /\ aside[g] = "pending"
      /\ view.page = "home" => /\ \A g \in Filters : asked["trades"][g] = 0
                               /\ PageIsSound(view, view.waiting)
  BY WhatIsSound
<1>2. /\ L!Answered("home", f) /\ aside' = [aside EXCEPT ![f] = "rejected"] /\ storage' = storage
      /\ view' = IF f \in view.waiting
                 THEN [view EXCEPT !.loading = FALSE, !.error = TRUE, !.waiting = @ \ {f}]
                 ELSE view
  BY DEF L!Rejected
<1>3. /\ asked' \in [L!Pages -> [Filters -> Nat]]
      /\ aside' \in [Filters -> {"none", "pending", "rejected"}]
      /\ \A g \in Filters : asked'["trades"][g] = asked["trades"][g]
      /\ \A g \in Filters : asked'["home"][g] = IF aside'[g] = "pending" THEN 1 ELSE 0
      /\ \A g \in Filters \ {f} : aside'[g] = aside[g]
  BY <1>2, AnsweredAtHome
<1>4. storage' \in [Filters -> [rows : L!Rows, fresh : BOOLEAN]] /\ L!CacheIsOfFilter'
  BY <1>1, <1>2 DEF L!CacheIsOfFilter
<1>5. CASE f \in view.waiting
  <2> DEFINE left == view.waiting \ {f}
  <2>1. /\ left \in SUBSET Filters /\ FALSE \in BOOLEAN /\ TRUE \in BOOLEAN
        /\ view.waiting \subseteq Filters
    BY <1>1 DEF L!Views
  <2>2. view' = [view EXCEPT !.loading = FALSE, !.error = TRUE, !.waiting = left]
    BY <1>2, <1>5
  <2> HIDE DEF left
  <2>3. view' \in L!Views
    BY <1>1, <2>1, <2>2, Zenon DEF L!Views
  <2>4. /\ view'.page = view.page /\ view'.filter = view.filter /\ view'.error /\ ~view'.loading
        /\ view'.waiting = left
    BY <1>1, <2>2 DEF L!Views
  <2>5. view.page = "home" /\ PageIsSound(view, view.waiting)
        /\ \A g \in Filters : asked["trades"][g] = 0
    BY <1>1, <1>5
  <2>6. PageIsSound(view', left)
    BY <2>4, <2>5 DEF PageIsSound, left
  <2>7. \A g \in view'.waiting : aside'[g] = "pending"
    BY <1>1, <1>3, <2>1, <2>4 DEF left
  <2>8. \A g \in Filters : asked'["trades"][g] = 0
    BY <1>3, <2>5
  <2>9. QED
    BY <1>3, <1>4, <2>3, <2>4, <2>5, <2>6, <2>7, <2>8, HomeIsSound
<1>6. CASE f \notin view.waiting
  BY <1>2, <1>3, <1>4, <1>6, UnheardKeeps
<1>7. QED
  BY <1>5, <1>6

\* A cache entry gets old.
LEMMA CacheExpires ==
  ASSUME L!IInv, NEW f \in Filters, L!ExpireCache(f)
  PROVE  L!IInv'
<1>1. storage \in [Filters -> [rows : L!Rows, fresh : BOOLEAN]] /\ L!CacheIsOfFilter
  BY WhatIsSound
<1>2. storage' = [storage EXCEPT ![f].fresh = FALSE] /\ UNCHANGED <<aside, asked, view>>
  BY DEF L!ExpireCache
<1> DEFINE entry == [storage[f] EXCEPT !.fresh = FALSE]
<1>3. /\ entry \in [rows : L!Rows, fresh : BOOLEAN] /\ entry.rows = storage[f].rows /\ ~entry.fresh
      /\ storage' = [storage EXCEPT ![f] = entry]
  BY <1>1, <1>2
<1> HIDE DEF entry
<1>4. storage' \in [Filters -> [rows : L!Rows, fresh : BOOLEAN]]
  BY <1>1, <1>3
<1>5. L!CacheIsOfFilter'
  BY <1>1, <1>3 DEF L!CacheIsOfFilter
<1>6. L!Typed'
  BY <1>2, <1>4 DEF L!IInv, L!Typed
<1>7. L!RequestsAreCounted'
  BY <1>2 DEF L!IInv, L!RequestsAreCounted, L!UnderWay
<1>8. L!AwaitedIsOfFilter'
  BY <1>2 DEF L!IInv, L!AwaitedIsOfFilter, L!Awaited, L!UnderWay
<1>9. QED
  BY <1>5, <1>6, <1>7, <1>8 DEF L!IInv

\* The page /trades is answered.
LEMMA ListedKeeps ==
  ASSUME L!IInv, L!Parameters, NEW f \in Filters, L!Listed(f) \/ L!NotListed(f)
  PROVE  L!IInv'
<1>1. /\ storage \in [Filters -> [rows : L!Rows, fresh : BOOLEAN]] /\ L!CacheIsOfFilter
      /\ aside \in [Filters -> {"none", "pending", "rejected"}]
      /\ asked \in [L!Pages -> [Filters -> Nat]] /\ view \in L!Views
      /\ \A g \in Filters : asked["home"][g] = IF aside[g] = "pending" THEN 1 ELSE 0
      /\ view.page = "home" => \A g \in Filters : asked["trades"][g] = 0
      /\ view.page = "trades" =>
           view.waiting = {} /\ PageIsSound(view, {g \in Filters : asked["trades"][g] > 0})
  BY WhatIsSound
<1>2. L!Answered("trades", f) /\ UNCHANGED <<storage, aside>>
  BY DEF L!Listed, L!NotListed
<1>3. "home" \in L!Pages /\ "trades" \in L!Pages /\ "home" # "trades"
  BY DEF L!Pages
<1>4. /\ asked' \in [L!Pages -> [Filters -> Nat]] /\ asked["trades"][f] > 0
      /\ asked'["trades"][f] = asked["trades"][f] - 1
      /\ \A p \in L!Pages, g \in Filters : p # "trades" \/ g # f => asked'[p][g] = asked[p][g]
  BY <1>1, <1>2, <1>3, Answers
<1>5. \A g \in Filters : asked'["home"][g] = IF aside'[g] = "pending" THEN 1 ELSE 0
  BY <1>1, <1>2, <1>3, <1>4
<1>6. storage' \in [Filters -> [rows : L!Rows, fresh : BOOLEAN]] /\ L!CacheIsOfFilter'
  BY <1>1, <1>2 DEF L!CacheIsOfFilter
<1>7. view.page = "trades"
  BY <1>1, <1>4 DEF L!Views, L!Pages
<1> DEFINE was == {g \in Filters : asked["trades"][g] > 0}
           left == {g \in Filters : asked'["trades"][g] > 0}
<1>8. left \subseteq was /\ f \in was
  BY <1>1, <1>3, <1>4
<1>9. view.waiting = {} /\ PageIsSound(view, was)
  BY <1>1, <1>7
<1> HIDE DEF was
<1>10. CASE L!Listed(f)
  <2>1. PICK rows \in L!AnswerFor(f) : view' = L!Shown(view, f, rows)
    BY <1>10 DEF L!Listed
  <2> HIDE DEF left
  <2>2. rows \in L!Rows /\ rows.of = f /\ f # None
    BY DEF L!AnswerFor, L!Rows, L!Parameters
  <2>6. /\ view' \in L!Views /\ view'.page = "trades" /\ view'.filter = view.filter /\ view'.rows = rows
        /\ ~view'.loading /\ view'.waiting = {} /\ view'.late = (f # view.filter)
    BY <1>1, <1>7, <1>9, <2>1, <2>2, ShowsAnswer
  <2>7. PageIsSound(view', left)
    BY <2>2, <2>6 DEF PageIsSound
  <2>8. QED
    BY <1>1, <1>2, <1>4, <1>5, <1>6, <2>6, <2>7, TradesAreSound DEF left
<1>11. CASE L!NotListed(f)
  <2> HIDE DEF left
  <2>1. view' = [view EXCEPT !.loading = FALSE, !.error = TRUE]
    BY <1>11 DEF L!NotListed
  <2>2. TRUE \in BOOLEAN /\ FALSE \in BOOLEAN
    OBVIOUS
  <2>3. view' \in L!Views
    BY <1>1, <2>1, <2>2, Zenon DEF L!Views
  <2>4. /\ view'.page = "trades" /\ view'.filter = view.filter /\ view'.error /\ ~view'.loading
        /\ view'.waiting = {}
    BY <1>1, <1>7, <1>9, <2>1 DEF L!Views
  <2>5. PageIsSound(view', left)
    BY <1>8, <1>9, <2>4 DEF PageIsSound
  <2>6. QED
    BY <1>1, <1>2, <1>4, <1>5, <1>6, <2>3, <2>4, <2>5, TradesAreSound DEF left
<1>12. QED
  BY <1>10, <1>11

\* Another filter is chosen.
LEMMA ChooseKeeps ==
  ASSUME L!IInv, NEW f \in Filters, L!Choose(f)
  PROVE  L!IInv'
<1>1. /\ view \in L!Views
      /\ \A g \in view.waiting : view.page = "home" /\ aside[g] = "pending"
      /\ view.page = "home" => \A g \in Filters : asked["trades"][g] = 0
      /\ view.page = "trades" => view.waiting = {}
      /\ asked \in [L!Pages -> [Filters -> Nat]]
  BY WhatIsSound
<1> DEFINE v == [view EXCEPT !.filter = f]
<1>2. /\ IF view.page = "home" THEN L!FetchData(v, f, FALSE) ELSE L!FetchListings(v, f)
      /\ UNCHANGED storage
  BY DEF L!Choose
<1>3. FALSE \in BOOLEAN
  OBVIOUS
<1>6. v \in L!Views
  BY <1>1, Zenon DEF L!Views
<1>7. v.page = view.page /\ v.filter = f /\ v.waiting = view.waiting
  BY <1>1 DEF L!Views
<1> HIDE DEF v
<1>8. CASE view.page = "home"
  <2>1. L!FetchData(v, f, FALSE)
    BY <1>2, <1>8
  <2>2. QED
    BY <1>1, <1>2, <1>3, <1>6, <1>7, <1>8, <2>1, FetchDataKeeps
<1>9. CASE view.page # "home"
  <2>1. L!FetchListings(v, f)
    BY <1>2, <1>9
  <2>2. view.page = "trades"
    BY <1>1, <1>9 DEF L!Views, L!Pages
  <2>3. QED
    BY <1>1, <1>2, <1>6, <1>7, <2>1, <2>2, FetchListingsKeeps
<1>10. QED
  BY <1>8, <1>9

\* The visitor goes to the other page.
LEMMA VisitKeeps ==
  ASSUME L!IInv, NEW f \in Filters, L!Visit(f)
  PROVE  L!IInv'
<1>1. /\ asked \in [L!Pages -> [Filters -> Nat]] /\ "home" \in L!Pages /\ "trades" \in L!Pages
      /\ FALSE \in BOOLEAN
      /\ view.page = "home" => \A g \in Filters : asked["trades"][g] = 0
  BY WhatIsSound DEF L!Pages
<1>2. UNCHANGED storage
  BY DEF L!Visit
<1>3. CASE view.page = "trades" /\ L!Awaited(view) = {} /\ L!FetchData(L!Mounted("home", f), f, FALSE)
  <2> DEFINE v == L!Mounted("home", f)
  <2>1. /\ v \in L!Views /\ v.page = "home" /\ v.filter = f /\ v.waiting = {}
    BY <1>1, MountedIsEmpty
  <2>2. \A g \in Filters : asked["trades"][g] = 0
    BY <1>1, <1>3 DEF L!Awaited, L!UnderWay
  <2> HIDE DEF v
  <2>3. L!FetchData(v, f, FALSE)
    BY <1>3 DEF v
  <2>4. QED
    BY <1>1, <1>2, <2>1, <2>2, <2>3, FetchDataKeeps
<1>4. CASE view.page = "home" /\ L!FetchListings(L!Mounted("trades", f), f)
  <2> DEFINE v == L!Mounted("trades", f)
  <2>1. /\ v \in L!Views /\ v.page = "trades" /\ v.filter = f /\ v.waiting = {}
    BY <1>1, MountedIsEmpty
  <2>2. \A g \in Filters : asked["trades"][g] = 0
    BY <1>1, <1>4
  <2> HIDE DEF v
  <2>3. L!FetchListings(v, f)
    BY <1>4 DEF v
  <2>4. QED
    BY <1>2, <2>1, <2>2, <2>3, FetchListingsKeeps
<1>5. QED
  BY <1>3, <1>4 DEF L!Visit

\* Listings: a step keeps its invariant.
LEMMA ListingsStep == L!Parameters /\ L!IInv /\ [L!Next]_L!vars => L!IInv'
<1> SUFFICES ASSUME L!Parameters, L!IInv, [L!Next]_L!vars PROVE L!IInv'
  OBVIOUS
<1>1. CASE UNCHANGED L!vars
  <2>1. UNCHANGED <<storage, aside, asked, view>>
    BY <1>1 DEF L!vars
  <2>2. L!Typed'
    BY <2>1 DEF L!IInv, L!Typed
  <2>3. L!RequestsAreCounted'
    BY <2>1 DEF L!IInv, L!RequestsAreCounted, L!UnderWay
  <2>4. L!CacheIsOfFilter'
    BY <2>1 DEF L!IInv, L!CacheIsOfFilter
  <2>5. L!AwaitedIsOfFilter'
    BY <2>1 DEF L!IInv, L!AwaitedIsOfFilter, L!Awaited, L!UnderWay
  <2>6. QED
    BY <2>2, <2>3, <2>4, <2>5 DEF L!IInv
<1>2. CASE L!Refresh
  <2> DEFINE f == view.filter
  <2>1. /\ view \in L!Views /\ view.page = "home" /\ TRUE \in BOOLEAN
        /\ \A g \in Filters : asked["trades"][g] = 0
        /\ \A g \in view.waiting : aside[g] = "pending"
        /\ PageIsSound(view, view.waiting)
    BY <1>2, WhatIsSound DEF L!Refresh
  <2>2. f \in Filters
    BY <2>1 DEF L!Views
  <2>3. L!FetchData(view, f, TRUE) /\ UNCHANGED storage
    BY <1>2 DEF L!Refresh
  <2> HIDE DEF f
  <2>4. view.filter = f
    BY DEF f
  <2>5. QED
    BY <2>1, <2>2, <2>3, <2>4, FetchDataKeeps
<1>3. ASSUME NEW f \in Filters, L!Resolved(f) PROVE L!IInv'
  BY <1>3, ResolvedKeeps
<1>4. ASSUME NEW f \in Filters, L!Rejected(f) PROVE L!IInv'
  BY <1>4, RejectedKeeps
<1>5. ASSUME NEW f \in Filters, L!Listed(f) \/ L!NotListed(f) PROVE L!IInv'
  BY <1>5, ListedKeeps
<1>6. ASSUME NEW f \in Filters, L!ExpireCache(f) PROVE L!IInv'
  BY <1>6, CacheExpires
<1>7. ASSUME NEW f \in Filters, L!Choose(f) PROVE L!IInv'
  BY <1>7, ChooseKeeps
<1>8. ASSUME NEW f \in Filters, L!Visit(f) PROVE L!IInv'
  BY <1>8, VisitKeeps
<1>9. ASSUME NEW f \in Filters, NEW p \in L!Pages, L!Load(p, f) PROVE L!IInv'
  BY <1>9, LoadedIsFresh
<1>10. QED
  BY <1>1, <1>2, <1>3, <1>4, <1>5, <1>6, <1>7, <1>8, <1>9 DEF L!Next

\* Listings: its invariant holds its properties.
LEMMA ListingsAreSafe == L!IInv => L!OneRequestPerFilter /\ L!ShownIsOfFilter /\ L!SpinnersEnd
<1> SUFFICES ASSUME L!IInv PROVE L!OneRequestPerFilter /\ L!ShownIsOfFilter /\ L!SpinnersEnd
  OBVIOUS
<1>1. L!OneRequestPerFilter
  BY DEF L!IInv, L!RequestsAreCounted, L!CacheIsOfFilter, L!OneRequestPerFilter
<1>2. L!AwaitedIsOfFilter
  BY DEF L!IInv
<1>3. L!ShownIsOfFilter
  BY <1>2 DEF L!AwaitedIsOfFilter, L!ShownIsOfFilter, L!Shows
<1>4. L!SpinnersEnd
  BY <1>2 DEF L!AwaitedIsOfFilter, L!SpinnersEnd, L!Shows
<1>5. QED
  BY <1>1, <1>3, <1>4

-----------------------------------------------------------------------------
(* The history of trades.                                                  *)

\* A page that opens shows no rows, and asks for its user's first.
LEMMA OpenedIsAsked ==
  ASSUME H!Parameters, storage \in Viewers, NEW route \in {"profile", "wallet"}
  PROVE  LET v == H!Opened(route, storage) IN
         /\ v \in H!Views /\ v.asked.filter = v.filter /\ v.asked.page = v.page
         /\ v.user = storage /\ v.asked.user = storage /\ v.loading
<1> DEFINE v == H!Opened(route, storage)
           asks == [H!NoRows EXCEPT !.user = storage, !.page = 1]
<1>1. H!NoRows \in H!Rows /\ 1 \in 1..MaxPages /\ 1 \in 0..MaxPages /\ 0 \in 0..MaxPages
                              /\ All \in Filters
  BY DEF H!NoRows, H!Rows, H!Parameters
<1>2. storage \in Viewers \cup {None} /\ TRUE \in BOOLEAN /\ FALSE \in BOOLEAN
  OBVIOUS
<1>3. asks \in H!Rows
  BY <1>1, <1>2, Zenon DEF H!Rows
<1>4. asks.filter = All /\ asks.page = 1 /\ asks.user = storage
  BY DEF H!NoRows
<1>5. v = [route |-> route, user |-> storage, filter |-> All, page |-> 1, totalPages |-> 1,
           trades |-> H!NoRows, asked |-> asks, loading |-> TRUE, error |-> FALSE, counted |-> 0,
           switched |-> FALSE, failed |-> FALSE]
  BY DEF H!Opened
<1> HIDE DEF asks, v
<1>6. v \in H!Views
  BY <1>1, <1>2, <1>3, <1>5 DEF H!Views
<1>7. QED
  BY <1>4, <1>5, <1>6 DEF v

\* fetchTrades asks for what is pressed, or does nothing.
LEMMA FetchIsAsked ==
  ASSUME H!Parameters, H!TypeOK, NEW v \in H!Views
  PROVE  /\ H!FetchTrades(v) \in H!Views
         /\ H!FetchTrades(v).user = v.user /\ H!FetchTrades(v).switched = v.switched
         /\ \/ storage = None /\ H!FetchTrades(v) = v
            \/ /\ storage # None /\ H!FetchTrades(v).loading
               /\ H!FetchTrades(v).asked.filter = H!FetchTrades(v).filter
               /\ H!FetchTrades(v).asked.page = H!FetchTrades(v).page
               /\ H!FetchTrades(v).asked.user = storage
<1> DEFINE asks == [H!NoRows EXCEPT !.user = storage, !.filter = v.filter, !.page = v.page]
           w == [v EXCEPT !.loading = TRUE, !.error = FALSE, !.asked = asks]
<1>1. CASE storage = None
  BY <1>1 DEF H!FetchTrades
<1>2. CASE storage # None
  <2>1. H!NoRows \in H!Rows /\ storage \in Viewers \cup {None} /\ v.filter \in Filters
                                /\ v.page \in 0..MaxPages
    BY DEF H!NoRows, H!Rows, H!Parameters, H!TypeOK, H!Views
  <2>2. asks \in H!Rows
    BY <2>1, Zenon DEF H!Rows
  <2>3. asks.filter = v.filter /\ asks.page = v.page /\ asks.user = storage
    BY DEF H!NoRows
  <2>4. H!FetchTrades(v) = w
    BY <1>2 DEF H!FetchTrades
  <2> HIDE DEF asks
  <2>5. TRUE \in BOOLEAN /\ FALSE \in BOOLEAN
    OBVIOUS
  <2>6. w \in H!Views
    BY <2>2, <2>5, Zenon DEF H!Views
  <2>7. /\ w.asked = asks /\ w.loading /\ w.filter = v.filter /\ w.page = v.page
        /\ w.user = v.user /\ w.switched = v.switched
    BY DEF H!Views
  <2> HIDE DEF w
  <2>8. QED
    BY <1>2, <2>3, <2>4, <2>6, <2>7
<1>3. QED
  BY <1>1, <1>2

\* A control is pressed that fetches.
LEMMA FetchKeeps ==
  ASSUME H!Parameters, H!IInv, NEW v \in H!Views, v.user = view.user, v.switched = view.switched,
         v = view \/ ~v.loading, view' = H!FetchTrades(v), UNCHANGED storage
  PROVE  H!IInv'
<1>1. /\ H!TypeOK /\ storage \in Viewers \cup {None} /\ view \in H!Views
      /\ (~view.switched => storage = view.user)
  BY DEF H!IInv, H!TypeOK, H!AskedIsPressed
<1>2. view.user # None
  BY <1>1 DEF H!Views, H!Parameters
<1>3. CASE storage = None
  <2>1. view' = v /\ view' \in H!Views /\ view'.switched
    BY <1>1, <1>2, <1>3, FetchIsAsked
  <2>2. view'.loading => view'.asked.filter = view'.filter /\ view'.asked.page = view'.page
    BY <2>1 DEF H!IInv, H!AskedIsPressed
  <2>3. QED
    BY <1>1, <2>1, <2>2 DEF H!IInv, H!TypeOK, H!AskedIsPressed, H!HistoryIsOfFilter
<1>4. CASE storage # None
  <2>1. /\ view' \in H!Views /\ view'.user = v.user /\ view'.switched = v.switched /\ view'.loading
        /\ view'.asked.filter = view'.filter /\ view'.asked.page = view'.page
        /\ view'.asked.user = storage
    BY <1>1, <1>4, FetchIsAsked
  <2>2. QED
    BY <1>1, <2>1 DEF H!IInv, H!TypeOK, H!AskedIsPressed, H!HistoryIsOfFilter
<1>5. QED
  BY <1>3, <1>4

\* TradeHistory: its invariant holds at first.
LEMMA HistoryInit == H!Parameters /\ H!Init => H!IInv
<1> SUFFICES ASSUME H!Parameters, H!Init PROVE H!IInv
  OBVIOUS
<1>1. PICK route \in {"profile", "wallet"} : view = H!Opened(route, storage)
  BY DEF H!Init
<1>2. storage \in Viewers
  BY DEF H!Init
<1>3. /\ view \in H!Views /\ view.asked.filter = view.filter /\ view.asked.page = view.page
      /\ view.user = storage /\ view.asked.user = storage /\ view.loading
  BY <1>1, <1>2, OpenedIsAsked
<1>4. QED
  BY <1>2, <1>3 DEF H!IInv, H!TypeOK, H!AskedIsPressed, H!HistoryIsOfFilter

\* TradeHistory: its invariant is inductive.
LEMMA HistoryStep == H!Parameters /\ H!IInv /\ [H!Next]_H!vars => H!IInv'
<1> SUFFICES ASSUME H!Parameters, H!IInv, [H!Next]_H!vars PROVE H!IInv'
  OBVIOUS
<1>0. view \in H!Views /\ storage \in Viewers \cup {None}
  BY DEF H!IInv, H!TypeOK
<1>1. CASE UNCHANGED H!vars
  BY <1>1 DEF H!vars, H!IInv, H!TypeOK, H!AskedIsPressed, H!HistoryIsOfFilter
<1>2. CASE H!Open
  <2>1. PICK route \in {"profile", "wallet"} : view' = H!Opened(route, storage)
    BY <1>2 DEF H!Open
  <2>2. storage \in Viewers /\ storage' = storage
    BY <1>0, <1>2 DEF H!Open
  <2>3. /\ view' \in H!Views /\ view'.asked.filter = view'.filter /\ view'.asked.page = view'.page
        /\ view'.user = storage /\ view'.asked.user = storage /\ view'.loading
    BY <2>1, <2>2, OpenedIsAsked
  <2>4. QED
    BY <1>0, <2>2, <2>3 DEF H!IInv, H!TypeOK, H!AskedIsPressed, H!HistoryIsOfFilter
<1>3. ASSUME NEW u \in Viewers \cup {None}, H!SignIn(u) PROVE H!IInv'
  <2>1. view' = [view EXCEPT !.switched = TRUE] /\ storage' = u
    BY <1>3 DEF H!SignIn
  <2>2. /\ view' \in H!Views /\ view'.switched /\ view'.loading = view.loading
        /\ view'.asked = view.asked /\ view'.filter = view.filter /\ view'.page = view.page
    BY <1>0, <2>1 DEF H!Views
  <2>3. QED
    BY <2>1, <2>2 DEF H!IInv, H!TypeOK, H!AskedIsPressed, H!HistoryIsOfFilter
<1>4. CASE H!TradesShown
  <2>1. PICK any \in BOOLEAN, total \in 0..MaxPages :
          view' = [view EXCEPT !.trades = H!Answer(any, total), !.loading = FALSE, !.failed = FALSE,
                               !.counted = total,
                               !.totalPages = IF view.route = "wallet" /\ total = 0
                                              THEN 1 ELSE total]
    BY <1>4, Zenon DEF H!TradesShown
  <2> DEFINE rows == H!Answer(any, total)
  <2>3. view.asked \in H!Rows /\ view.loading /\ storage' = storage
    BY <1>0, <1>4 DEF H!Views, H!TradesShown
  <2>4. /\ rows \in H!Rows /\ rows.filter = view.asked.filter /\ rows.page = view.asked.page
        /\ rows.user = view.asked.user /\ rows.total = total
    BY <2>3 DEF H!Rows, H!Answer
  <2> DEFINE last == IF view.route = "wallet" /\ total = 0 THEN 1 ELSE total
  <2>5. last \in 0..MaxPages /\ total \in 0..MaxPages /\ FALSE \in BOOLEAN
    BY DEF H!Parameters
  <2> HIDE DEF last, rows
  <2>6. view' = [view EXCEPT !.trades = rows, !.loading = FALSE, !.failed = FALSE,
                             !.counted = total, !.totalPages = last]
    BY <2>1 DEF last, rows
  <2>7. view' \in H!Views
    BY <1>0, <2>4, <2>5, <2>6, Zenon DEF H!Views
  <2>8. /\ view'.trades = rows /\ ~view'.loading /\ view'.counted = total
        /\ view'.filter = view.filter /\ view'.page = view.page /\ view'.user = view.user
        /\ view'.switched = view.switched
    BY <1>0, <2>6 DEF H!Views
  <2>9. QED
    BY <1>0, <2>3, <2>4, <2>7, <2>8 DEF H!IInv, H!TypeOK, H!AskedIsPressed, H!HistoryIsOfFilter
<1>5. CASE H!TradesRefused
  <2> DEFINE e == view.route = "profile"
             rows == IF view.route = "wallet" THEN H!NoRows ELSE view.trades
  <2>1. H!NoRows \in H!Rows
    BY DEF H!NoRows, H!Rows, H!Parameters
  <2>2. rows \in H!Rows /\ e \in BOOLEAN /\ TRUE \in BOOLEAN /\ FALSE \in BOOLEAN
    BY <1>0, <2>1 DEF H!Views
  <2>3. view' = [view EXCEPT !.loading = FALSE, !.failed = TRUE, !.error = e, !.trades = rows]
        /\ storage' = storage
    BY <1>5 DEF H!TradesRefused
  <2> HIDE DEF e, rows
  <2>4. view' \in H!Views
    BY <1>0, <2>2, <2>3, Zenon DEF H!Views
  <2>5. /\ ~view'.loading /\ view'.failed /\ view'.user = view.user
        /\ view'.switched = view.switched
    BY <1>0, <2>3 DEF H!Views
  <2>6. QED
    BY <1>0, <2>3, <2>4, <2>5 DEF H!IInv, H!TypeOK, H!AskedIsPressed, H!HistoryIsOfFilter
<1>6. CASE H!Retry
  BY <1>0, <1>6, FetchKeeps DEF H!Retry
<1>7. ASSUME NEW f \in Filters, H!HandleFilterChange(f) PROVE H!IInv'
  <2> DEFINE v == [view EXCEPT !.filter = f, !.page = 1]
  <2>1. 1 \in 1..MaxPages
    BY DEF H!Parameters
  <2>2. v \in H!Views
    BY <1>0, <2>1, Zenon DEF H!Views
  <2>3. /\ v.user = view.user /\ v.switched = view.switched /\ v.loading = view.loading
    BY <1>0 DEF H!Views
  <2>4. ~view.loading /\ view' = H!FetchTrades(v) /\ storage' = storage
    BY <1>7 DEF H!HandleFilterChange, H!Shows
  <2> HIDE DEF v
  <2>5. QED
    BY <2>2, <2>3, <2>4, FetchKeeps
<1>8. ASSUME NEW n \in 1..MaxPages, H!Turn(n) PROVE H!IInv'
  <2> DEFINE v == [view EXCEPT !.page = n]
  <2>1. v \in H!Views
    BY <1>0, Zenon DEF H!Views
  <2>2. v.user = view.user /\ v.switched = view.switched /\ v.loading = view.loading
    BY <1>0 DEF H!Views
  <2>3. ~view.loading /\ view' = H!FetchTrades(v) /\ storage' = storage
    BY <1>0, <1>8 DEF H!Turn, H!HasPages, H!Shows, H!Views
  <2> HIDE DEF v
  <2>4. QED
    BY <2>1, <2>2, <2>3, FetchKeeps
<1>9. QED
  BY <1>1, <1>2, <1>3, <1>4, <1>5, <1>6, <1>7, <1>8 DEF H!Next

\* TradeHistory: its invariant holds its property.
LEMMA HistoryIsSafe == H!IInv => H!HistoryIsOfFilter
  BY DEF H!IInv

-----------------------------------------------------------------------------
(* Sequences.                                                              *)

\* A sequence with another entry in the place of one.
LEMMA EntryIsPut ==
  ASSUME NEW Entries, NEW s \in Seq(Entries), NEW i \in 1..Len(s), NEW v \in Entries, NEW t,
         t = [s EXCEPT ![i] = v]
  PROVE  /\ t \in Seq(Entries) /\ Len(t) = Len(s) /\ t[i] = v
         /\ \A j \in 1..Len(s) : j # i => t[j] = s[j]
  OBVIOUS

\* A sequence with one entry more.
LEMMA EntryIsAdded ==
  ASSUME NEW Entries, NEW s \in Seq(Entries), NEW v \in Entries, NEW t, t = Append(s, v)
  PROVE  /\ t \in Seq(Entries) /\ Len(t) = Len(s) + 1 /\ t[Len(t)] = v /\ Len(s) \in Nat
         /\ \A j \in 1..Len(s) : t[j] = s[j]
         /\ 1..Len(t) = 1..Len(s) \cup {Len(t)}
  OBVIOUS

-----------------------------------------------------------------------------
(* Documents.                                                              *)

\* Who sets one handler's submission leaves the others'.
LEMMA OneHandlerMoves ==
  ASSUME NEW n \in Nat, submission \in [Handlers -> K!Submissions(n)],
         NEW h \in Handlers, NEW s \in K!Submissions(n), submission' = [submission EXCEPT ![h] = s]
  PROVE  /\ submission' \in [Handlers -> K!Submissions(n)]
         /\ submission'[h] = s
         /\ \A g \in Handlers \ {h} : submission'[g] = submission[g]
  OBVIOUS

\* A handler without a submission has nothing.
LEMMA NoneIsHeld ==
  ASSUME NEW n \in Nat
  PROVE  K!NoSubmission \in K!Submissions(n) /\ K!NoSubmission.step = "idle" /\ K!NoSubmission.key = 0
  BY DEF K!NoSubmission, K!Submissions

\* More keys may be given out.
LEMMA MoreKeys ==
  ASSUME NEW n \in Nat, NEW m \in Nat, n <= m
  PROVE  K!Submissions(n) \subseteq K!Submissions(m)
  BY DEF K!Submissions

\* A handler that has ended: the others' documents are theirs as before.
LEMMA UnheldIsHandled ==
  ASSUME K!DocumentsAreHandled, 0 \notin objects, NEW h \in Handlers,
         submission'[h] = K!NoSubmission, \A g \in Handlers \ {h} : submission'[g] = submission[g],
         \A g \in Handlers : K!Has(g) /\ g # h =>
           /\ submission[g].key \in objects' \ deleting'
           /\ \A v \in Applicants : document'[v] # submission[g].key
  PROVE  K!DocumentsAreHandled'
<1>1. K!NoSubmission.step = "idle" /\ K!NoSubmission.key = 0
  BY DEF K!NoSubmission
<1>2. ASSUME NEW g \in Handlers
      PROVE  /\ submission'[g].step # "idle" => submission'[g].user \in Applicants
             /\ ~K!Has(g)' => submission'[g].key = 0
             /\ K!Has(g)' => /\ submission'[g].key \in objects' \ deleting'
                             /\ \A v \in Applicants : document'[v] # submission'[g].key
                             /\ \A i \in Handlers \ {g} : submission'[i].key # submission'[g].key
  <2>1. CASE g = h
    BY <1>1, <2>1 DEF K!Has
  <2>2. CASE g # h
    <3>1. submission'[g] = submission[g] /\ (K!Has(g)' <=> K!Has(g))
      BY <2>2 DEF K!Has
    <3>2. ASSUME K!Has(g), NEW i \in Handlers \ {g} PROVE submission'[i].key # submission[g].key
      <4>1. submission[i].key # submission[g].key /\ submission[g].key # 0
        BY <3>2 DEF K!DocumentsAreHandled
      <4>2. QED
        BY <1>1, <4>1
    <3>3. QED
      BY <2>2, <3>1, <3>2 DEF K!DocumentsAreHandled
  <2>3. QED
    BY <2>1, <2>2
<1>3. QED
  BY <1>2 DEF K!DocumentsAreHandled

\* Kyc: its invariant holds at first.
LEMMA KycInit == K!Init => K!IInv
<1> SUFFICES ASSUME K!Init PROVE K!IInv
  OBVIOUS
<1>1. /\ status = [u \in Applicants |-> "none"] /\ document = [u \in Applicants |-> 0] /\ objects = {}
      /\ deleting = {} /\ submission = [h \in Handlers |-> K!NoSubmission] /\ uploads = 0
      /\ texts = [u \in Applicants |-> [d \in K!Days |-> 0]]
  BY DEF K!Init
<1>2. K!NoSubmission \in K!Submissions(0) /\ K!NoSubmission.step = "idle" /\ K!NoSubmission.key = 0
  BY NoneIsHeld
<1>3. K!Typed
  BY <1>1, <1>2 DEF K!Typed
<1>4. K!DocumentsAreHandled
  BY <1>1, <1>2 DEF K!DocumentsAreHandled, K!Has
<1>5. K!DocumentsAreOwn /\ K!TextsAreNoticed /\ K!DocumentOnFile /\ K!NoForgottenDocument
  BY <1>1 DEF K!DocumentsAreOwn, K!TextsAreNoticed, K!DocumentOnFile, K!NoForgottenDocument
<1>6. QED
  BY <1>3, <1>4, <1>5 DEF K!IInv

\* What the database knows of the texts.
LEMMA WarningKeeps ==
  ASSUME K!Typed, K!TextsAreNoticed, NEW r \in Replicas, NEW u \in Applicants, K!Warn(r, u)
  PROVE  texts' \in [Applicants -> [K!Days -> 0..1]] /\ K!TextsAreNoticed'
<1>1. /\ notices' = notices \cup {<<u, day>>}
      /\ texts' = IF <<u, day>> \in notices THEN texts
                  ELSE [texts EXCEPT ![u][day] = IF @ = 2 THEN 2 ELSE @ + 1]
  BY DEF K!Warn
<1>2. texts \in [Applicants -> [K!Days -> 0..1]]
  BY DEF K!Typed
<1>3. CASE <<u, day>> \in notices
  BY <1>1, <1>2, <1>3 DEF K!TextsAreNoticed
<1>4. CASE <<u, day>> \notin notices /\ day \notin K!Days
  <2>1. texts' = [texts EXCEPT ![u] = [texts[u] EXCEPT ![day] = IF @ = 2 THEN 2 ELSE @ + 1]]
    BY <1>1, <1>4
  <2>2. [texts[u] EXCEPT ![day] = IF @ = 2 THEN 2 ELSE @ + 1] = texts[u]
    BY <1>2, <1>4
  <2>3. texts' = texts
    BY <1>2, <2>1, <2>2
  <2>4. QED
    BY <1>1, <1>2, <2>3 DEF K!TextsAreNoticed
<1>5. CASE <<u, day>> \notin notices /\ day \in K!Days
  <2>1. texts[u][day] = 0
    BY <1>2, <1>5 DEF K!TextsAreNoticed
  <2> DEFINE t == [texts[u] EXCEPT ![day] = 1]
  <2>2. texts' = [texts EXCEPT ![u] = t]
    BY <1>1, <1>2, <1>5, <2>1
  <2>3. t \in [K!Days -> 0..1] /\ \A d \in K!Days \ {day} : t[d] = texts[u][d]
    BY <1>2, <1>5
  <2> HIDE DEF t
  <2>4. /\ texts' \in [Applicants -> [K!Days -> 0..1]] /\ texts'[u] = t
        /\ \A v \in Applicants \ {u} : texts'[v] = texts[v]
    BY <1>2, <2>2, <2>3
  <2>5. ASSUME NEW v \in Applicants, NEW d \in K!Days, texts'[v][d] # 0 PROVE <<v, d>> \in notices'
    BY <1>1, <2>3, <2>4, <2>5 DEF K!TextsAreNoticed
  <2>6. QED
    BY <2>4, <2>5 DEF K!TextsAreNoticed
<1>6. QED
  BY <1>3, <1>4, <1>5

\* Kyc: a step keeps its invariant.
LEMMA KycStep == K!IInv /\ [K!Next]_K!vars => K!IInv'
<1> SUFFICES ASSUME K!IInv, [K!Next]_K!vars PROVE K!IInv'
  OBVIOUS
<1>0. /\ K!Typed /\ K!DocumentsAreHandled /\ K!DocumentsAreOwn /\ K!TextsAreNoticed
      /\ K!DocumentOnFile /\ K!NoForgottenDocument
  BY DEF K!IInv
<1>t. /\ uploads \in Nat /\ objects \subseteq 1..uploads /\ deleting \subseteq 1..uploads
      /\ document \in [Applicants -> 0..uploads] /\ submission \in [Handlers -> K!Submissions(uploads)]
      /\ status \in [Applicants -> {"none", "pending", "verified", "rejected"}]
      /\ texts \in [Applicants -> [K!Days -> 0..1]]
  BY <1>0 DEF K!Typed
<1>s. \A h \in Handlers : /\ submission[h].key \in 0..uploads
                          /\ submission[h].user \in Applicants \cup {None}
                          /\ submission[h].step \in {"idle", "limited", "uploaded", "writing"}
  BY <1>t DEF K!Submissions
<1>n. K!NoSubmission \in K!Submissions(uploads) /\ K!NoSubmission.step = "idle" /\ K!NoSubmission.key = 0
  BY <1>t, NoneIsHeld
<1>1. ASSUME UNCHANGED <<status, document, objects, deleting, submission, uploads, abandoned,
                         notices, texts>>
      PROVE  K!IInv'
  <2>1. K!Typed'
    BY <1>0, <1>1 DEF K!Typed
  <2>2. K!DocumentsAreHandled'
    BY <1>0, <1>1 DEF K!DocumentsAreHandled, K!Has
  <2>3. K!DocumentsAreOwn' /\ K!TextsAreNoticed'
    BY <1>0, <1>1 DEF K!DocumentsAreOwn, K!TextsAreNoticed
  <2>4. K!DocumentOnFile' /\ K!NoForgottenDocument'
    BY <1>0, <1>1 DEF K!DocumentOnFile, K!NoForgottenDocument
  <2>5. QED
    BY <2>1, <2>2, <2>3, <2>4 DEF K!IInv
<1>2. ASSUME NEW h \in Handlers, NEW u \in Applicants, K!Limit(h, u) PROVE K!IInv'
  <2> DEFINE s == [step |-> "limited", user |-> u, key |-> 0]
  <2>1. s \in K!Submissions(uploads) /\ s.step = "limited" /\ s.user = u /\ s.key = 0
    BY <1>t DEF K!Submissions
  <2>2. /\ submission[h] = K!NoSubmission /\ submission' = [submission EXCEPT ![h] = s]
        /\ UNCHANGED <<status, document, objects, deleting, uploads, abandoned, notices, texts>>
    BY <1>2 DEF K!Limit, K!warning
  <2> HIDE DEF s
  <2>3. /\ submission' \in [Handlers -> K!Submissions(uploads)] /\ submission'[h] = s
        /\ \A g \in Handlers \ {h} : submission'[g] = submission[g]
    BY <1>t, <2>1, <2>2, OneHandlerMoves
  <2>4. K!Typed'
    BY <1>0, <2>2, <2>3 DEF K!Typed
  <2>5. K!DocumentsAreHandled'
    BY <1>0, <1>n, <2>1, <2>2, <2>3 DEF K!DocumentsAreHandled, K!Has
  <2>6. K!DocumentsAreOwn' /\ K!TextsAreNoticed' /\ K!DocumentOnFile'
    BY <1>0, <2>2 DEF K!DocumentsAreOwn, K!TextsAreNoticed, K!DocumentOnFile
  <2>7. K!NoForgottenDocument'
    BY <1>0, <1>n, <1>t, <2>2, <2>3 DEF K!NoForgottenDocument
  <2>8. QED
    BY <2>4, <2>5, <2>6, <2>7 DEF K!IInv
<1>3. ASSUME K!WindowPasses PROVE K!IInv'
  BY <1>1, <1>3 DEF K!WindowPasses, K!store, K!warning
<1>4. ASSUME NEW h \in Handlers, K!Upload(h) PROVE K!IInv'
  <2> DEFINE s == [submission[h] EXCEPT !.step = "uploaded", !.key = uploads + 1]
  <2>1. /\ submission[h].step = "limited" /\ uploads' = uploads + 1
        /\ objects' = objects \cup {uploads + 1}
        /\ submission' = [submission EXCEPT ![h] = s]
        /\ UNCHANGED <<status, document, deleting, abandoned, notices, texts>>
    BY <1>4, <1>t DEF K!Upload, K!rows, K!warning
  <2>2. submission \in [Handlers -> K!Submissions(uploads')] /\ uploads' \in Nat
    <3>1. K!Submissions(uploads) \subseteq K!Submissions(uploads + 1)
      BY <1>t, MoreKeys
    <3>2. QED
      BY <1>t, <2>1, <3>1
  <2>3. /\ s \in K!Submissions(uploads') /\ s.step = "uploaded" /\ s.key = uploads + 1
        /\ s.user = submission[h].user
    <3>1. submission[h] \in K!Submissions(uploads') /\ uploads + 1 \in 0..uploads'
      BY <1>t, <2>1, <2>2
    <3>2. "uploaded" \in {"idle", "limited", "uploaded", "writing"}
      OBVIOUS
    <3>3. s \in K!Submissions(uploads')
      BY <3>1, <3>2, Zenon DEF K!Submissions
    <3>4. QED
      BY <3>1, <3>3 DEF K!Submissions
  <2> HIDE DEF s
  <2>4. /\ submission' \in [Handlers -> K!Submissions(uploads')] /\ submission'[h] = s
        /\ \A g \in Handlers \ {h} : submission'[g] = submission[g]
    BY <2>1, <2>2, <2>3, OneHandlerMoves
  <2>5. K!Typed'
    <3>1. objects' \subseteq 1..uploads' /\ deleting' \subseteq 1..uploads'
      BY <1>t, <2>1
    <3>2. document' \in [Applicants -> 0..uploads']
      BY <1>t, <2>1
    <3>3. QED
      BY <1>t, <2>1, <2>2, <2>4, <3>1, <3>2 DEF K!Typed
  <2>6. K!DocumentsAreHandled'
    <3>1. /\ K!Has(h)' /\ submission'[h].user \in Applicants /\ submission'[h].key = uploads + 1
      BY <1>0, <2>1, <2>3, <2>4 DEF K!DocumentsAreHandled, K!Has
    <3>2. uploads + 1 \in objects' \ deleting' /\ \A u \in Applicants : document'[u] # uploads + 1
      BY <1>t, <2>1
    <3>3. \A g \in Handlers \ {h} : submission'[g].key # uploads + 1
      BY <1>s, <1>t, <2>4
    <3>4. QED
      BY <1>0, <2>1, <2>4, <3>1, <3>2, <3>3 DEF K!DocumentsAreHandled, K!Has
  <2>7. K!DocumentsAreOwn' /\ K!TextsAreNoticed' /\ K!DocumentOnFile'
    BY <1>0, <2>1 DEF K!DocumentsAreOwn, K!TextsAreNoticed, K!DocumentOnFile
  <2>8. K!NoForgottenDocument'
    <3>1. submission[h].key = 0 /\ 0 \notin objects
      BY <1>0, <1>t, <2>1 DEF K!DocumentsAreHandled, K!Has
    <3>2. ASSUME NEW k \in objects' \ abandoned', k \notin deleting', k # uploads + 1
          PROVE  (\E u \in Applicants : document'[u] = k) \/ \E g \in Handlers : submission'[g].key = k
      <4>1. k \in objects \ abandoned /\ k \notin deleting /\ k # 0
        BY <2>1, <3>1, <3>2
      <4>2. (\E u \in Applicants : document[u] = k) \/ \E g \in Handlers : submission[g].key = k
        BY <1>0, <4>1 DEF K!NoForgottenDocument
      <4>3. QED
        BY <2>1, <2>4, <3>1, <4>1, <4>2
    <3>3. submission'[h].key = uploads + 1
      BY <2>3, <2>4
    <3>4. QED
      BY <3>2, <3>3 DEF K!NoForgottenDocument
  <2>9. QED
    BY <2>5, <2>6, <2>7, <2>8 DEF K!IInv
<1>5. ASSUME NEW h \in Handlers, K!Refuse(h) PROVE K!IInv'
  <2>1. /\ K!Has(h) /\ deleting' = deleting \cup {submission[h].key}
        /\ submission' = [submission EXCEPT ![h] = K!NoSubmission]
        /\ UNCHANGED <<status, document, objects, uploads, abandoned, notices, texts>>
    BY <1>5 DEF K!Refuse, K!Has, K!End, K!rows, K!warning
  <2>2. /\ submission' \in [Handlers -> K!Submissions(uploads)] /\ submission'[h] = K!NoSubmission
        /\ \A g \in Handlers \ {h} : submission'[g] = submission[g]
    BY <1>n, <1>t, <2>1, OneHandlerMoves
  <2>3. /\ submission[h].key \in objects \ deleting
        /\ \A u \in Applicants : document[u] # submission[h].key
        /\ \A g \in Handlers \ {h} : submission[g].key # submission[h].key
    BY <1>0, <2>1 DEF K!DocumentsAreHandled
  <2>4. K!Typed'
    BY <1>t, <2>1, <2>2, <2>3 DEF K!Typed
  <2>5. K!DocumentsAreHandled'
    <3>2. \A g \in Handlers : K!Has(g) /\ g # h => submission[g].key \in objects' \ deleting'
      BY <1>0, <2>1, <2>3 DEF K!DocumentsAreHandled
    <3>3. \A g \in Handlers : K!Has(g) => \A v \in Applicants : document'[v] # submission[g].key
      BY <1>0, <2>1 DEF K!DocumentsAreHandled
    <3>4. 0 \notin objects
      BY <1>t
    <3>5. QED
      BY <1>0, <2>2, <3>2, <3>3, <3>4, UnheldIsHandled
  <2>6. K!DocumentsAreOwn' /\ K!TextsAreNoticed'
    BY <1>0, <2>1 DEF K!DocumentsAreOwn, K!TextsAreNoticed
  <2>7. K!DocumentOnFile'
    BY <1>0, <2>1, <2>3 DEF K!DocumentOnFile
  <2>8. K!NoForgottenDocument'
    BY <1>0, <2>1, <2>2 DEF K!NoForgottenDocument
  <2>9. QED
    BY <2>4, <2>5, <2>6, <2>7, <2>8 DEF K!IInv
<1>6. ASSUME NEW h \in Handlers, K!Accept(h) PROVE K!IInv'
  <2> DEFINE s == [submission[h] EXCEPT !.step = "writing"]
             u == submission[h].user
  <2>1. /\ K!Has(h) /\ status[u] \in {"none", "rejected"}
        /\ deleting' = IF document[u] = 0 THEN deleting ELSE deleting \cup {document[u]}
        /\ submission' = [submission EXCEPT ![h] = s]
        /\ UNCHANGED <<status, document, objects, uploads, abandoned, notices, texts>>
    BY <1>6, <1>t DEF K!Accept, K!Has, K!rows, K!warning
  <2>2. /\ s \in K!Submissions(uploads) /\ s.step = "writing" /\ s.key = submission[h].key
        /\ s.user = submission[h].user
    BY <1>t DEF K!Submissions
  <2> HIDE DEF s
  <2>3. /\ submission' \in [Handlers -> K!Submissions(uploads)] /\ submission'[h] = s
        /\ \A g \in Handlers \ {h} : submission'[g] = submission[g]
    BY <1>t, <2>1, <2>2, OneHandlerMoves
  <2>4. u \in Applicants /\ submission[h].step # "idle"
    BY <1>0, <2>1 DEF K!DocumentsAreHandled, K!Has
  <2> HIDE DEF u
  <2>5. /\ deleting \subseteq deleting' /\ deleting' \subseteq 1..uploads
        /\ \A k \in deleting' \ deleting : k = document[u] /\ k # 0
    <3>1. document[u] \in 0..uploads
      BY <1>t, <2>4
    <3>2. CASE document[u] = 0
      BY <1>t, <2>1, <3>2
    <3>3. CASE document[u] # 0
      <4>1. deleting' = deleting \cup {document[u]}
        BY <2>1, <3>3
      <4>2. document[u] \in 1..uploads
        BY <1>t, <3>1, <3>3
      <4>3. deleting \subseteq 1..uploads
        BY <1>t
      <4> QED
        BY <3>3, <4>1, <4>2, <4>3
    <3>4. QED
      BY <3>2, <3>3
  <2>6. K!Typed'
    BY <1>t, <2>1, <2>3, <2>5 DEF K!Typed
  <2>7. K!DocumentsAreHandled'
    <3>1. \A g \in Handlers : /\ submission'[g].key = submission[g].key
                              /\ submission'[g].user = submission[g].user
                              /\ K!Has(g)' <=> K!Has(g)
                              /\ submission'[g].step = "idle" => submission[g].step = "idle"
      BY <2>1, <2>2, <2>3 DEF K!Has
    <3>2. \A g \in Handlers : K!Has(g) => submission[g].key \notin deleting'
      BY <1>0, <2>4, <2>5 DEF K!DocumentsAreHandled
    <3>3. QED
      BY <1>0, <2>1, <2>4, <3>1, <3>2 DEF K!DocumentsAreHandled
  <2>8. K!DocumentsAreOwn' /\ K!TextsAreNoticed'
    BY <1>0, <2>1 DEF K!DocumentsAreOwn, K!TextsAreNoticed
  <2>9. K!DocumentOnFile'
    BY <1>0, <2>1, <2>4, <2>5 DEF K!DocumentOnFile, K!DocumentsAreOwn
  <2>10. K!NoForgottenDocument'
    BY <1>0, <2>1, <2>2, <2>3, <2>5 DEF K!NoForgottenDocument
  <2>11. QED
    BY <2>6, <2>7, <2>8, <2>9, <2>10 DEF K!IInv
<1>7. ASSUME NEW h \in Handlers, K!Write(h) PROVE K!IInv'
  <2> DEFINE u == submission[h].user
             k == submission[h].key
  <2>1. /\ K!Has(h) /\ status' = [status EXCEPT ![u] = "pending"]
        /\ document' = [document EXCEPT ![u] = k]
        /\ abandoned' = abandoned \cup ({document[u]} \ (deleting \cup {0}))
        /\ submission' = [submission EXCEPT ![h] = K!NoSubmission]
        /\ UNCHANGED <<objects, deleting, uploads, notices, texts>>
    BY <1>7 DEF K!Write, K!Has, K!End, K!warning
  <2>2. /\ submission' \in [Handlers -> K!Submissions(uploads)] /\ submission'[h] = K!NoSubmission
        /\ \A g \in Handlers \ {h} : submission'[g] = submission[g]
    BY <1>n, <1>t, <2>1, OneHandlerMoves
  <2>3. /\ u \in Applicants /\ k \in objects \ deleting /\ k \in 1..uploads
        /\ \A v \in Applicants : document[v] # k
        /\ \A g \in Handlers \ {h} : submission[g].key # k
    BY <1>0, <1>t, <2>1 DEF K!DocumentsAreHandled, K!Has
  <2>4. submission[h].key = k
    OBVIOUS
  <2> HIDE DEF u, k
  <2>5. /\ document' \in [Applicants -> 0..uploads] /\ document'[u] = k
        /\ \A v \in Applicants \ {u} : document'[v] = document[v]
        /\ status' \in [Applicants -> {"none", "pending", "verified", "rejected"}]
        /\ \A v \in Applicants \ {u} : status'[v] = status[v]
    BY <1>t, <2>1, <2>3
  <2>6. K!Typed'
    BY <1>t, <2>1, <2>2, <2>5 DEF K!Typed
  <2>7. K!DocumentsAreHandled'
    <3>2. \A g \in Handlers : K!Has(g) /\ g # h => \A v \in Applicants : document'[v] # submission[g].key
      BY <1>0, <2>3, <2>5 DEF K!DocumentsAreHandled
    <3>3. \A g \in Handlers : K!Has(g) => submission[g].key \in objects' \ deleting'
      BY <1>0, <2>1 DEF K!DocumentsAreHandled
    <3>4. 0 \notin objects
      BY <1>t
    <3>5. QED
      BY <1>0, <2>2, <3>2, <3>3, <3>4, UnheldIsHandled
  <2>8. K!DocumentsAreOwn' /\ K!TextsAreNoticed'
    BY <1>0, <2>1, <2>3, <2>5 DEF K!DocumentsAreOwn, K!TextsAreNoticed
  <2>9. K!DocumentOnFile'
    BY <1>0, <2>1, <2>3, <2>5 DEF K!DocumentOnFile
  <2>10. K!NoForgottenDocument'
    <3>1. ASSUME NEW j \in objects' \ abandoned', j \notin deleting'
          PROVE  (\E v \in Applicants : document'[v] = j) \/ \E g \in Handlers : submission'[g].key = j
      <4>1. j \in objects \ abandoned /\ j \notin deleting /\ j # 0 /\ j # document[u]
        BY <1>t, <2>1, <3>1
      <4>2. (\E v \in Applicants : document[v] = j) \/ \E g \in Handlers : submission[g].key = j
        BY <1>0, <4>1 DEF K!NoForgottenDocument
      <4>3. QED
        BY <2>2, <2>3, <2>4, <2>5, <4>1, <4>2
    <3>2. QED
      BY <3>1 DEF K!NoForgottenDocument
  <2>11. QED
    BY <2>6, <2>7, <2>8, <2>9, <2>10 DEF K!IInv
<1>8. ASSUME NEW h \in Handlers, K!Abort(h) PROVE K!IInv'
  <2>1. /\ K!Has(h) /\ abandoned' = abandoned \cup {submission[h].key}
        /\ submission' = [submission EXCEPT ![h] = K!NoSubmission]
        /\ UNCHANGED <<status, document, objects, deleting, uploads, notices, texts>>
    BY <1>8 DEF K!Abort, K!Has, K!End, K!rows, K!warning
  <2>2. /\ submission' \in [Handlers -> K!Submissions(uploads)] /\ submission'[h] = K!NoSubmission
        /\ \A g \in Handlers \ {h} : submission'[g] = submission[g]
    BY <1>n, <1>t, <2>1, OneHandlerMoves
  <2>3. K!Typed'
    BY <1>t, <2>1, <2>2 DEF K!Typed
  <2>4. K!DocumentsAreHandled'
    <3>1. 0 \notin objects
      BY <1>t
    <3>3. \A g \in Handlers : K!Has(g) => /\ submission[g].key \in objects' \ deleting'
                                          /\ \A v \in Applicants : document'[v] # submission[g].key
      BY <1>0, <2>1 DEF K!DocumentsAreHandled
    <3>4. QED
      BY <1>0, <2>2, <3>1, <3>3, UnheldIsHandled
  <2>5. K!DocumentsAreOwn' /\ K!TextsAreNoticed' /\ K!DocumentOnFile'
    BY <1>0, <2>1 DEF K!DocumentsAreOwn, K!TextsAreNoticed, K!DocumentOnFile
  <2>6. K!NoForgottenDocument'
    BY <1>0, <2>1, <2>2 DEF K!NoForgottenDocument
  <2>7. QED
    BY <2>3, <2>4, <2>5, <2>6 DEF K!IInv
<1>9. ASSUME NEW k \in K!Keys, K!Delete(k) PROVE K!IInv'
  <2>1. /\ k \in deleting /\ deleting' = deleting \ {k}
        /\ \/ objects' = objects \ {k} /\ abandoned' = abandoned
           \/ abandoned' = abandoned \cup {k} /\ objects' = objects
        /\ UNCHANGED <<status, document, submission, uploads, notices, texts>>
    BY <1>9 DEF K!Delete, K!rows, K!warning
  <2>2. K!Typed'
    BY <1>t, <2>1 DEF K!Typed
  <2>3. K!DocumentsAreHandled'
    BY <1>0, <2>1 DEF K!DocumentsAreHandled, K!Has
  <2>4. K!DocumentsAreOwn' /\ K!TextsAreNoticed'
    BY <1>0, <2>1 DEF K!DocumentsAreOwn, K!TextsAreNoticed
  <2>5. K!DocumentOnFile'
    BY <1>0, <2>1 DEF K!DocumentOnFile
  <2>6. K!NoForgottenDocument'
    BY <1>0, <2>1 DEF K!NoForgottenDocument
  <2>7. QED
    BY <2>2, <2>3, <2>4, <2>5, <2>6 DEF K!IInv
<1>10. ASSUME NEW u \in Applicants, K!Review(u) PROVE K!IInv'
  <2>1. PICK s \in {"verified", "rejected"} : status' = [status EXCEPT ![u] = s]
    BY <1>10 DEF K!Review
  <2>2. status[u] = "pending"
        /\ UNCHANGED <<document, objects, deleting, submission, uploads, abandoned, notices, texts>>
    BY <1>10 DEF K!Review, K!store, K!warning
  <2>3. K!Typed'
    BY <1>t, <2>1, <2>2 DEF K!Typed
  <2>4. K!DocumentsAreHandled'
    BY <1>0, <2>2 DEF K!DocumentsAreHandled, K!Has
  <2>5. K!DocumentsAreOwn' /\ K!TextsAreNoticed' /\ K!NoForgottenDocument'
    BY <1>0, <2>2 DEF K!DocumentsAreOwn, K!TextsAreNoticed, K!NoForgottenDocument
  <2>6. K!DocumentOnFile'
    BY <1>0, <1>t, <2>1, <2>2 DEF K!DocumentOnFile
  <2>7. QED
    BY <2>3, <2>4, <2>5, <2>6 DEF K!IInv
<1>11. ASSUME NEW r \in Replicas, K!StartScan(r) \/ K!StopScan(r) PROVE K!IInv'
  BY <1>1, <1>11 DEF K!StartScan, K!StopScan, K!rows, K!store
<1>12. ASSUME NEW r \in Replicas, NEW u \in Applicants, K!Warn(r, u) PROVE K!IInv'
  <2>1. texts' \in [Applicants -> [K!Days -> 0..1]] /\ K!TextsAreNoticed'
    BY <1>0, <1>12, WarningKeeps
  <2>2. UNCHANGED <<status, document, objects, deleting, submission, uploads, abandoned>>
    BY <1>12 DEF K!Warn, K!rows, K!store
  <2>3. K!Typed'
    BY <1>t, <2>1, <2>2 DEF K!Typed
  <2>4. K!DocumentsAreHandled'
    BY <1>0, <2>2 DEF K!DocumentsAreHandled, K!Has
  <2>5. K!DocumentsAreOwn' /\ K!DocumentOnFile' /\ K!NoForgottenDocument'
    BY <1>0, <2>2 DEF K!DocumentsAreOwn, K!DocumentOnFile, K!NoForgottenDocument
  <2>6. QED
    BY <2>1, <2>3, <2>4, <2>5 DEF K!IInv
<1>13. ASSUME K!NextDay PROVE K!IInv'
  BY <1>1, <1>13 DEF K!NextDay, K!rows, K!store
<1>14. ASSUME UNCHANGED K!vars PROVE K!IInv'
  BY <1>1, <1>14 DEF K!vars, K!rows, K!store, K!warning
<1>15. QED
  BY <1>2, <1>3, <1>4, <1>5, <1>6, <1>7, <1>8, <1>9, <1>10, <1>11, <1>12, <1>13, <1>14 DEF K!Next

\* Kyc: its invariant holds its properties.
LEMMA KycIsSafe == K!IInv => K!DocumentOnFile /\ K!NoForgottenDocument /\ K!WarnedOnceADay
<1>1. ASSUME K!IInv, NEW u \in Applicants, NEW d \in K!Days PROVE texts[u][d] <= 1
  <2>1. texts \in [Applicants -> [K!Days -> 0..1]]
    BY <1>1 DEF K!IInv, K!Typed
  <2>2. QED
    BY <2>1
<1>2. QED
  BY <1>1 DEF K!IInv, K!WarnedOnceADay

-----------------------------------------------------------------------------
(* The KYC form.                                                           *)

\* The KYC form: its invariant holds at first.
LEMMA FormInit == F!Parameters /\ F!Init => F!IInv
<1> SUFFICES ASSUME F!Parameters, F!Init PROVE F!IInv
  OBVIOUS
<1>1. /\ view = F!Blank /\ aside = {} /\ asked = [c \in Calls |-> F!NoSubmission]
      /\ record = [status |-> "none", document |-> None]
  BY DEF F!Init
<1>2. F!Blank \in F!Pages /\ F!NoSubmission \in F!Submissions
  BY DEF F!Blank, F!Pages, F!NoSubmission, F!Submissions, F!Files
<1>3. F!TypeOK
  BY <1>1, <1>2 DEF F!TypeOK, F!Files
<1>4. F!SentIsValid
  BY <1>1 DEF F!SentIsValid, F!NoSubmission
<1>5. F!StepsAreFilledIn /\ F!DoneIsShown /\ F!PendingIsTrue /\ F!ProgressIsOfAnUpload
  BY <1>1 DEF F!StepsAreFilledIn, F!DoneIsShown, F!PendingIsTrue, F!ProgressIsOfAnUpload, F!Blank
<1>6. ~F!Loading /\ ~view.done
  BY <1>1 DEF F!Loading, F!Blank
<1>7. F!AwaitedIsOfDocument /\ F!OneIsAtWork /\ F!AcceptedIsUnderReview
  BY <1>6 DEF F!AwaitedIsOfDocument, F!OneIsAtWork, F!AcceptedIsUnderReview
<1>8. F!PreviewIsOfDocument
  BY <1>1 DEF F!PreviewIsOfDocument, F!Blank, F!Parameters
<1>9. QED
  BY <1>3, <1>4, <1>5, <1>7, <1>8 DEF F!IInv

\* The form is filled in: no upload is under way or done, and none of its fields is unchecked.
LEMMA FillingKeeps ==
  ASSUME F!IInv, view' \in F!Pages, UNCHANGED <<asked, record>>,
         view'.call = view.call, view'.done = view.done, view'.submitted = view.submitted,
         view'.overlapped = view.overlapped, view'.reviewed = view.reviewed,
         view'.percent \in {view.percent, "undefined"}, view'.leaving = view.leaving,
         F!StepsAreFilledIn', F!PreviewIsOfDocument',
         view'.document = view.document \/ (~F!Loading /\ ~view.done)
  PROVE  F!IInv'
<1>1. F!TypeOK' /\ F!SentIsValid'
  BY DEF F!IInv, F!TypeOK, F!SentIsValid
<1>2. F!Loading' <=> F!Loading
  BY DEF F!Loading
<1>3. F!DoneIsShown' /\ F!ProgressIsOfAnUpload'
  BY <1>2 DEF F!IInv, F!DoneIsShown, F!ProgressIsOfAnUpload
<1>4. F!AtWork' = F!AtWork
  BY DEF F!AtWork
<1>5. F!AwaitedIsOfDocument'
  BY <1>2 DEF F!IInv, F!AwaitedIsOfDocument
<1>6. F!OneIsAtWork'
  BY <1>2, <1>4 DEF F!IInv, F!OneIsAtWork
<1>7. F!AcceptedIsUnderReview'
  BY <1>2 DEF F!IInv, F!AcceptedIsUnderReview
<1>8. F!PendingIsTrue'
  BY DEF F!IInv, F!PendingIsTrue
<1>9. QED
  BY <1>1, <1>3, <1>5, <1>6, <1>7, <1>8 DEF F!IInv

\* An upload moves: the fields, the step and the preview stay.
LEMMA UploadKeeps ==
  ASSUME F!IInv, view' \in F!Pages, view'.step = view.step, view'.name = view.name,
         view'.birth = view.birth, view'.nin = view.nin, view'.document = view.document,
         view'.preview = view.preview, aside' = aside
  PROVE  F!StepsAreFilledIn' /\ F!PreviewIsOfDocument'
<1>1. F!StepsAreFilledIn'
  BY DEF F!IInv, F!StepsAreFilledIn, F!ValidateStep1, F!ValidateStep2
<1>2. F!PreviewIsOfDocument'
  BY DEF F!IInv, F!PreviewIsOfDocument
<1>3. QED
  BY <1>1, <1>2

\* The server, while the page waits or not.
LEMMA ServerKeeps ==
  ASSUME F!IInv, NEW c \in Calls, NEW s \in F!Submissions, asked' = [asked EXCEPT ![c] = s],
         UNCHANGED <<view, aside>>, s.valid, record'.document \in F!Files,
         record' \in [status : {"none", "pending", "verified", "rejected"}, document : F!Files],
         s.at \in {"sent", "writing"} => asked[c].at \in {"sent", "writing"},
         view.call = c => s.at # "none" /\ s.document = asked[c].document,
         \/ record' = record /\ s.at # "ok"
         \/ record' = record /\ view.call # c
         \/ /\ asked[c].at \in {"sent", "writing"} /\ record'.status = "pending"
            /\ record'.document = asked[c].document
  PROVE  F!IInv'
<1>1. asked \in [Calls -> F!Submissions] /\ view \in F!Pages
  BY DEF F!IInv, F!TypeOK
<1>2. /\ asked' \in [Calls -> F!Submissions] /\ asked'[c] = s
      /\ \A d \in Calls \ {c} : asked'[d] = asked[d]
  BY <1>1
<1>3. F!TypeOK' /\ F!StepsAreFilledIn' /\ F!PreviewIsOfDocument'
  BY <1>1, <1>2, UploadKeeps DEF F!IInv, F!TypeOK
<1>4. F!SentIsValid'
  BY <1>2 DEF F!IInv, F!SentIsValid
<1>5. (F!Loading' <=> F!Loading) /\ F!DoneIsShown' /\ F!ProgressIsOfAnUpload'
  BY DEF F!IInv, F!Loading, F!DoneIsShown, F!ProgressIsOfAnUpload
<1>6. F!AwaitedIsOfDocument'
  <2>1. CASE view.call = c
    BY <1>2, <1>5, <2>1 DEF F!IInv, F!AwaitedIsOfDocument
  <2>2. CASE view.call # c
    <3>1. F!Loading => view.call \in Calls \ {c}
      BY <1>1, <2>2 DEF F!Pages, F!Loading
    <3>2. QED
      BY <1>2, <1>5, <3>1 DEF F!IInv, F!AwaitedIsOfDocument
  <2>3. QED
    BY <2>1, <2>2
<1>7. F!AtWork' \subseteq F!AtWork
  BY <1>2 DEF F!AtWork
<1>8. F!OneIsAtWork'
  BY <1>5, <1>7 DEF F!IInv, F!OneIsAtWork
<1>9. CASE record' = record
  <2>1. F!PendingIsTrue'
    BY <1>9 DEF F!IInv, F!PendingIsTrue
  <2>2. F!AcceptedIsUnderReview'
    <3>1. SUFFICES ASSUME F!Loading, ~view.done, ~view.overlapped, asked'[view.call].at = "ok"
                   PROVE  /\ record.document = view.document
                          /\ record.status = "pending" \/ view.reviewed
      BY <1>5, <1>9 DEF F!AcceptedIsUnderReview
    <3>2. view.call \in Calls
      BY <1>1, <3>1 DEF F!Pages, F!Loading
    <3>3. CASE view.call # c
      BY <1>2, <3>1, <3>2, <3>3 DEF F!IInv, F!AcceptedIsUnderReview
    <3>4. CASE view.call = c
      <4>1. s.at = "ok"
        BY <1>2, <3>1, <3>4
      <4>2. asked[c].at \in {"sent", "writing"} /\ record'.status = "pending"
            /\ record'.document = asked[c].document
        BY <3>4, <4>1
      <4>3. asked[c].document = view.document
        BY <3>1, <3>4 DEF F!IInv, F!AwaitedIsOfDocument
      <4>4. QED
        BY <1>9, <4>2, <4>3
    <3>5. QED
      BY <3>3, <3>4
  <2>3. QED
    BY <1>3, <1>4, <1>5, <1>6, <1>8, <2>1, <2>2 DEF F!IInv
<1>10. CASE record' # record
  <2>1. /\ c \in F!AtWork /\ record'.status = "pending" /\ record'.document = asked[c].document
    BY <1>10 DEF F!AtWork
  <2>2. (F!Loading \/ view.done) /\ ~view.overlapped => c = view.call /\ ~view.done /\ F!Loading
    BY <2>1 DEF F!IInv, F!OneIsAtWork
  <2>3. (F!Loading \/ view.done) /\ ~view.overlapped => record'.document = view.document
    BY <2>1, <2>2 DEF F!IInv, F!AwaitedIsOfDocument
  <2>4. F!PendingIsTrue'
    BY <2>1, <2>2 DEF F!PendingIsTrue
  <2>5. F!AcceptedIsUnderReview'
    BY <1>5, <2>1, <2>3 DEF F!AcceptedIsUnderReview
  <2>6. QED
    BY <1>3, <1>4, <1>5, <1>6, <1>8, <2>4, <2>5 DEF F!IInv
<1>11. QED
  BY <1>9, <1>10

\* What of the form goes on.
LEMMA FormFills ==
  ASSUME F!IInv, F!Parameters,
         \/ F!Edit \/ F!GoToStep2 \/ F!GoToStep3 \/ F!Back
         \/ \E file \in Documents \cup {Unfit, None} : F!HandleDocumentChange(file)
  PROVE  F!IInv'
<1>0. view \in F!Pages /\ F!StepsAreFilledIn /\ F!PreviewIsOfDocument /\ F!DoneIsShown
  BY DEF F!IInv, F!TypeOK
<1>t. /\ view.step \in 1..3 /\ view.name \in BOOLEAN /\ view.birth \in BOOLEAN
      /\ view.nin \in BOOLEAN /\ view.preview \in 0..2 /\ view.done \in BOOLEAN
  BY <1>0 DEF F!Pages
<1>1. CASE F!Edit
  <2> DEFINE n == ~view.name
             b == ~view.birth
             i == ~view.nin
  <2>1. n \in BOOLEAN /\ b \in BOOLEAN /\ i \in BOOLEAN
    BY <1>t
  <2>2. /\ \/ view.step = 1 /\ view' = [view EXCEPT !.name = n]
           \/ view.step = 1 /\ view' = [view EXCEPT !.birth = b]
           \/ view.step = 2 /\ view' = [view EXCEPT !.nin = i]
        /\ UNCHANGED <<aside, asked, record>>
    BY <1>1 DEF F!Edit
  <2> HIDE DEF n, b, i
  <2>3. view' \in F!Pages
    <3>1. [view EXCEPT !.name = n] \in F!Pages
      BY <1>0, <2>1, Zenon DEF F!Pages
    <3>2. [view EXCEPT !.birth = b] \in F!Pages
      BY <1>0, <2>1, Zenon DEF F!Pages
    <3>3. [view EXCEPT !.nin = i] \in F!Pages
      BY <1>0, <2>1, Zenon DEF F!Pages
    <3>4. QED
      BY <2>2, <3>1, <3>2, <3>3
  <2>4. /\ view'.step = view.step /\ view'.document = view.document /\ view'.preview = view.preview
        /\ view'.call = view.call /\ view'.done = view.done /\ view'.submitted = view.submitted
        /\ view'.overlapped = view.overlapped /\ view'.reviewed = view.reviewed
        /\ view'.leaving = view.leaving
        /\ view'.percent = view.percent
    BY <1>0, <2>2 DEF F!Pages
  <2>5. view.step # 1 => view'.name = view.name /\ view'.birth = view.birth
    BY <1>0, <2>2 DEF F!Pages
  <2>6. view.step = 3 => view'.nin = view.nin
    BY <1>0, <2>2 DEF F!Pages
  <2>7. F!StepsAreFilledIn'
    BY <1>0, <2>4, <2>5, <2>6 DEF F!StepsAreFilledIn, F!ValidateStep1, F!ValidateStep2
  <2>8. F!PreviewIsOfDocument'
    BY <1>0, <2>2, <2>4 DEF F!PreviewIsOfDocument
  <2>9. QED
    BY <2>2, <2>3, <2>4, <2>7, <2>8, FillingKeeps
<1>2. ASSUME NEW n \in 1..3, view' = [view EXCEPT !.step = n], UNCHANGED <<aside, asked, record>>,
             n # 1 => F!ValidateStep1(view), n = 3 => F!ValidateStep2(view)
      PROVE  F!IInv'
  <2>1. view' \in F!Pages
    BY <1>0, <1>2, Zenon DEF F!Pages
  <2>2. /\ view'.step = n /\ view'.document = view.document /\ view'.preview = view.preview
        /\ view'.call = view.call /\ view'.done = view.done /\ view'.submitted = view.submitted
        /\ view'.overlapped = view.overlapped /\ view'.reviewed = view.reviewed
        /\ view'.leaving = view.leaving
        /\ view'.percent = view.percent /\ view'.name = view.name /\ view'.birth = view.birth
        /\ view'.nin = view.nin
    BY <1>0, <1>2 DEF F!Pages
  <2>3. F!StepsAreFilledIn' /\ F!PreviewIsOfDocument'
    BY <1>0, <1>2, <2>2 DEF F!StepsAreFilledIn, F!ValidateStep1, F!ValidateStep2, F!PreviewIsOfDocument
  <2>4. QED
    BY <1>2, <2>1, <2>2, <2>3, FillingKeeps
<1>3. CASE F!GoToStep2
  BY <1>2, <1>3 DEF F!GoToStep2
<1>4. CASE F!GoToStep3
  BY <1>0, <1>2, <1>4 DEF F!GoToStep3, F!StepsAreFilledIn
<1>5. CASE F!Back
  <2>1. view' = [view EXCEPT !.step = view.step - 1] /\ view.step > 1
        /\ UNCHANGED <<aside, asked, record>>
    BY <1>5 DEF F!Back
  <2>2. view.step - 1 \in 1..3 /\ view.step - 1 # 3 /\ (view.step - 1 # 1 => view.step # 1)
    BY <1>t, <2>1
  <2>3. view.step - 1 # 1 => F!ValidateStep1(view)
    BY <1>0, <2>1, <2>2 DEF F!StepsAreFilledIn
  <2>4. QED
    BY <1>2, <2>1, <2>2, <2>3
<1>6. ASSUME NEW file \in Documents \cup {Unfit, None}, F!HandleDocumentChange(file) PROVE F!IInv'
  <2> DEFINE url == IF view.preview = 1 THEN 2 ELSE 1
             new == IF F!ValidateDocument(file) THEN url ELSE 0
  <2>1. /\ ~F!Loading /\ ~view.submitted
        /\ view' = [view EXCEPT !.document = file, !.preview = new, !.percent = "undefined",
                                !.done = FALSE]
        /\ aside' = (aside \ {view.preview}) \cup ({new} \ {0})
        /\ UNCHANGED <<asked, record>>
    BY <1>6 DEF F!HandleDocumentChange
  <2>2. new \in 0..2 /\ (new # 0 <=> file \in Documents)
    BY DEF F!ValidateDocument
  <2> HIDE DEF new
  <2>3. file \in F!Files /\ "undefined" \in {"undefined", "some", "null", "full"} /\ FALSE \in BOOLEAN
    BY DEF F!Files
  <2>4. view' \in F!Pages
    BY <1>0, <2>1, <2>2, <2>3, Zenon DEF F!Pages
  <2>5. /\ view'.step = view.step /\ view'.document = file /\ view'.preview = new
        /\ view'.call = view.call /\ ~view'.done /\ view'.submitted = view.submitted
        /\ view'.overlapped = view.overlapped /\ view'.reviewed = view.reviewed
        /\ view'.leaving = view.leaving
        /\ view'.percent = "undefined" /\ view'.name = view.name /\ view'.birth = view.birth
        /\ view'.nin = view.nin
    BY <1>0, <2>1 DEF F!Pages
  <2>6. ~view.done
    BY <1>0, <2>1 DEF F!DoneIsShown
  <2>7. view'.done = view.done
    BY <1>t, <2>4, <2>5, <2>6 DEF F!Pages
  <2>8. F!StepsAreFilledIn'
    BY <1>0, <2>5 DEF F!StepsAreFilledIn, F!ValidateStep1, F!ValidateStep2
  <2>9. F!PreviewIsOfDocument'
    BY <1>0, <2>1, <2>2, <2>5 DEF F!PreviewIsOfDocument
  <2>10. QED
    BY <2>1, <2>4, <2>5, <2>6, <2>7, <2>8, <2>9, FillingKeeps
<1>7. QED
  BY <1>1, <1>3, <1>4, <1>5, <1>6

\* The form is opened again.
LEMMA LoadKeeps ==
  ASSUME F!IInv, F!Parameters, F!Load
  PROVE  F!IInv'
<1> DEFINE o == F!AtWork # {}
<1>1. view' = [F!Blank EXCEPT !.overlapped = o] /\ aside' = {} /\ UNCHANGED <<asked, record>>
  BY DEF F!Load
<1>2. o \in BOOLEAN /\ F!Blank \in F!Pages
  BY DEF F!Blank, F!Pages, F!Files
<1> HIDE DEF o
<1>3. view' \in F!Pages
  BY <1>1, <1>2, Zenon DEF F!Pages
<1>4. /\ view'.step = 1 /\ view'.document = None /\ view'.preview = 0 /\ view'.percent = "undefined"
      /\ ~view'.done /\ ~view'.submitted /\ view'.call = None
  BY <1>1 DEF F!Blank
<1>5. F!TypeOK' /\ F!SentIsValid'
  BY <1>1, <1>3 DEF F!IInv, F!TypeOK, F!SentIsValid
<1>6. ~F!Loading'
  BY <1>4 DEF F!Loading
<1>7. F!StepsAreFilledIn' /\ F!DoneIsShown' /\ F!PendingIsTrue' /\ F!ProgressIsOfAnUpload'
  BY <1>4 DEF F!StepsAreFilledIn, F!DoneIsShown, F!PendingIsTrue, F!ProgressIsOfAnUpload
<1>8. F!AwaitedIsOfDocument' /\ F!OneIsAtWork' /\ F!AcceptedIsUnderReview'
  BY <1>4, <1>6 DEF F!AwaitedIsOfDocument, F!OneIsAtWork, F!AcceptedIsUnderReview
<1>9. F!PreviewIsOfDocument'
  BY <1>1, <1>4 DEF F!PreviewIsOfDocument, F!Parameters
<1>10. QED
  BY <1>5, <1>7, <1>8, <1>9 DEF F!IInv

\* A document is handed in.
LEMMA UploadIsSent ==
  ASSUME F!IInv, F!Parameters, NEW c \in Calls, F!Submit(c)
  PROVE  F!IInv'
<1>0. view \in F!Pages /\ asked \in [Calls -> F!Submissions] /\ F!StepsAreFilledIn /\ F!DoneIsShown
  BY DEF F!IInv, F!TypeOK
<1> DEFINE v == F!ValidateStep1(view) /\ F!ValidateStep2(view)
           s == [at |-> "sent", document |-> view.document, valid |-> v]
           o == view.overlapped \/ F!AtWork # {}
<1>1. /\ view.step = 3 /\ ~F!Loading /\ ~view.submitted /\ asked[c] = F!NoSubmission
      /\ asked' = [asked EXCEPT ![c] = s]
      /\ view' = [view EXCEPT !.call = c, !.done = FALSE, !.percent = "some", !.overlapped = o]
      /\ UNCHANGED <<aside, record>>
  BY DEF F!Submit
<1>2. v
  BY <1>0, <1>1 DEF F!StepsAreFilledIn
<1> HIDE DEF v
<1>3. s \in F!Submissions /\ s.at = "sent" /\ s.document = view.document /\ s.valid
  <2>1. view.document \in F!Files /\ v \in BOOLEAN
    BY <1>0, <1>2 DEF F!Pages
  <2>2. QED
    BY <1>2, <2>1 DEF F!Submissions
<1> HIDE DEF s
<1>4. /\ asked' \in [Calls -> F!Submissions] /\ asked'[c] = s
      /\ \A d \in Calls \ {c} : asked'[d] = asked[d]
  BY <1>0, <1>1, <1>3
<1>5. /\ o \in BOOLEAN /\ c \in Calls \cup {None} /\ FALSE \in BOOLEAN
      /\ "some" \in {"undefined", "some", "null", "full"}
  BY <1>0 DEF F!Pages
<1>6. ~o => F!AtWork = {} /\ ~view.overlapped
  OBVIOUS
<1> HIDE DEF o
<1>7. view' \in F!Pages
  BY <1>0, <1>1, <1>5, Zenon DEF F!Pages
<1>8. /\ view'.step = view.step /\ view'.name = view.name /\ view'.birth = view.birth
      /\ view'.nin = view.nin /\ view'.document = view.document /\ view'.preview = view.preview
      /\ view'.call = c /\ ~view'.done /\ view'.submitted = view.submitted /\ view'.overlapped = o
  BY <1>0, <1>1 DEF F!Pages
<1>9. F!StepsAreFilledIn' /\ F!PreviewIsOfDocument'
  BY <1>1, <1>7, <1>8, UploadKeeps
<1>10. F!TypeOK'
  BY <1>1, <1>4, <1>7 DEF F!IInv, F!TypeOK
<1>11. F!SentIsValid'
  BY <1>3, <1>4 DEF F!IInv, F!SentIsValid
<1>12. F!Loading'
  BY <1>8 DEF F!Loading, F!Parameters
<1>13. F!DoneIsShown' /\ F!PendingIsTrue' /\ F!ProgressIsOfAnUpload'
  BY <1>1, <1>8, <1>12 DEF F!DoneIsShown, F!PendingIsTrue, F!ProgressIsOfAnUpload
<1>14. F!AwaitedIsOfDocument' /\ F!AcceptedIsUnderReview'
  BY <1>3, <1>4, <1>8 DEF F!AwaitedIsOfDocument, F!AcceptedIsUnderReview
<1>15. F!OneIsAtWork'
  <2>1. ~o => F!AtWork' \subseteq {c}
    BY <1>4, <1>6 DEF F!AtWork
  <2>2. QED
    BY <1>8, <2>1 DEF F!OneIsAtWork
<1>16. QED
  BY <1>9, <1>10, <1>11, <1>13, <1>14, <1>15 DEF F!IInv

\* What comes back: progress, an answer, none, and the end.
LEMMA AnswerKeeps ==
  ASSUME F!IInv, F!Parameters,
         F!Progress \/ F!ShowPending \/ \E c \in Calls : F!Answered(c) \/ F!Unanswered(c)
  PROVE  F!IInv'
<1>0. /\ view \in F!Pages /\ asked \in [Calls -> F!Submissions] /\ F!DoneIsShown /\ F!OneIsAtWork
      /\ F!AcceptedIsUnderReview /\ F!AwaitedIsOfDocument /\ F!SentIsValid /\ F!PendingIsTrue
  BY DEF F!IInv, F!TypeOK
<1>n. F!NoSubmission \in F!Submissions /\ F!NoSubmission.at = "none" /\ F!NoSubmission.valid
  BY DEF F!NoSubmission, F!Submissions, F!Files
<1>e. /\ \A p \in {"undefined", "some", "null", "full"} : p \in {"undefined", "some", "null", "full"}
      /\ None \in Calls \cup {None} /\ TRUE \in BOOLEAN /\ "full" \in {"undefined", "some", "null",
                                        "full"}
      /\ "undefined" \in {"undefined", "some", "null", "full"}
  OBVIOUS
<1>1. CASE F!Progress
  <2>1. PICK p \in {"some", "null", "full"} : view' = [view EXCEPT !.percent = p]
    BY <1>1 DEF F!Progress
  <2>2. p \in {"undefined", "some", "null", "full"}
    OBVIOUS
  <2>3. view' \in F!Pages
    BY <1>0, <2>1, <2>2, Zenon DEF F!Pages
  <2>4. /\ view'.step = view.step /\ view'.name = view.name /\ view'.birth = view.birth
        /\ view'.nin = view.nin /\ view'.document = view.document /\ view'.preview = view.preview
        /\ view'.call = view.call /\ view'.done = view.done /\ view'.submitted = view.submitted
        /\ view'.overlapped = view.overlapped /\ view'.reviewed = view.reviewed
    BY <1>0, <2>1 DEF F!Pages
  <2>5. F!Loading /\ UNCHANGED <<aside, asked, record>>
    BY <1>1 DEF F!Progress
  <2>6. F!StepsAreFilledIn' /\ F!PreviewIsOfDocument'
    BY <2>3, <2>4, <2>5, UploadKeeps
  <2>7. F!TypeOK' /\ F!SentIsValid'
    BY <2>3, <2>5 DEF F!IInv, F!TypeOK, F!SentIsValid
  <2>8. F!Loading' /\ F!AtWork' = F!AtWork
    BY <2>4, <2>5 DEF F!Loading, F!AtWork
  <2>9. F!DoneIsShown' /\ F!PendingIsTrue' /\ F!ProgressIsOfAnUpload'
    BY <1>0, <2>4, <2>5, <2>8 DEF F!DoneIsShown, F!PendingIsTrue, F!ProgressIsOfAnUpload
  <2>10. F!AwaitedIsOfDocument' /\ F!AcceptedIsUnderReview'
    BY <1>0, <2>4, <2>5, <2>8 DEF F!AwaitedIsOfDocument, F!AcceptedIsUnderReview
  <2>11. F!OneIsAtWork'
    BY <1>0, <2>4, <2>5, <2>8 DEF F!OneIsAtWork
  <2>12. QED
    BY <2>6, <2>7, <2>9, <2>10, <2>11 DEF F!IInv
<1>2. CASE F!ShowPending
  <2>1. /\ view' = [view EXCEPT !.submitted = TRUE, !.call = None] /\ view.done
        /\ UNCHANGED <<aside, asked, record>>
    BY <1>2 DEF F!ShowPending
  <2>2. view' \in F!Pages
    BY <1>0, <1>e, <2>1, Zenon DEF F!Pages
  <2>3. /\ view'.step = view.step /\ view'.name = view.name /\ view'.birth = view.birth
        /\ view'.nin = view.nin /\ view'.document = view.document /\ view'.preview = view.preview
        /\ view'.call = None /\ view'.done /\ view'.submitted
        /\ view'.overlapped = view.overlapped /\ view'.reviewed = view.reviewed
    BY <1>0, <2>1 DEF F!Pages
  <2>4. F!StepsAreFilledIn' /\ F!PreviewIsOfDocument'
    BY <2>1, <2>2, <2>3, UploadKeeps
  <2>5. F!TypeOK' /\ F!SentIsValid'
    BY <2>1, <2>2 DEF F!IInv, F!TypeOK, F!SentIsValid
  <2>6. ~F!Loading' /\ F!AtWork' = F!AtWork
    BY <2>1, <2>3 DEF F!Loading, F!AtWork
  <2>7. F!DoneIsShown' /\ F!PendingIsTrue' /\ F!ProgressIsOfAnUpload'
    BY <1>0, <2>1, <2>3 DEF F!DoneIsShown, F!PendingIsTrue, F!ProgressIsOfAnUpload
  <2>8. F!AwaitedIsOfDocument' /\ F!AcceptedIsUnderReview'
    BY <2>6 DEF F!AwaitedIsOfDocument, F!AcceptedIsUnderReview
  <2>9. F!OneIsAtWork'
    BY <1>0, <2>1, <2>3, <2>6 DEF F!OneIsAtWork
  <2>10. QED
    BY <2>4, <2>5, <2>7, <2>8, <2>9 DEF F!IInv
<1>3. ASSUME NEW c \in Calls, view.call = c, ~view.done, UNCHANGED <<aside, record>>,
             \/ asked' = [asked EXCEPT ![c] = F!NoSubmission]
             \/ asked' = asked
      PROVE  /\ asked' \in [Calls -> F!Submissions] /\ F!SentIsValid' /\ F!AtWork' \subseteq F!AtWork
             /\ \A d \in Calls \ {c} : asked'[d] = asked[d]
  <2>1. \/ asked'[c] = F!NoSubmission
        \/ asked'[c] = asked[c]
    BY <1>0, <1>3
  <2>2. /\ asked' \in [Calls -> F!Submissions]
        /\ \A d \in Calls \ {c} : asked'[d] = asked[d]
    BY <1>0, <1>n, <1>3
  <2>3. F!SentIsValid'
    BY <1>0, <1>n, <2>1, <2>2 DEF F!SentIsValid
  <2>4. F!AtWork' \subseteq F!AtWork
    BY <1>n, <2>1, <2>2 DEF F!AtWork
  <2>5. QED
    BY <2>2, <2>3, <2>4
<1>4. ASSUME NEW c \in Calls, view.call = c, ~view.done, UNCHANGED <<aside, record>>,
             \/ view' = [view EXCEPT !.call = None, !.percent = "undefined"]
             \/ view' = [view EXCEPT !.call = None, !.leaving = TRUE],
             \/ asked' = [asked EXCEPT ![c] = F!NoSubmission]
             \/ asked' = asked
      PROVE  F!IInv'
  <2>1. /\ asked' \in [Calls -> F!Submissions] /\ F!SentIsValid'
    BY <1>3, <1>4
  <2>2. view' \in F!Pages
    <3>1. [view EXCEPT !.call = None, !.percent = "undefined"] \in F!Pages
      BY <1>0, <1>e, Zenon DEF F!Pages
    <3>2. [view EXCEPT !.call = None, !.leaving = TRUE] \in F!Pages
      BY <1>0, <1>e, Zenon DEF F!Pages
    <3>3. QED
      BY <1>4, <3>1, <3>2
  <2>3. /\ view'.step = view.step /\ view'.name = view.name /\ view'.birth = view.birth
        /\ view'.nin = view.nin /\ view'.document = view.document /\ view'.preview = view.preview
        /\ view'.call = None /\ view'.done = view.done /\ view'.submitted = view.submitted
        /\ view'.percent = "undefined" \/ view'.leaving
    BY <1>0, <1>4 DEF F!Pages
  <2>4. F!StepsAreFilledIn' /\ F!PreviewIsOfDocument'
    BY <1>4, <2>2, <2>3, UploadKeeps
  <2>5. F!TypeOK'
    BY <1>4, <2>1, <2>2 DEF F!IInv, F!TypeOK
  <2>6. ~F!Loading' /\ ~view'.done
    BY <1>4, <2>3 DEF F!Loading
  <2>7. F!DoneIsShown' /\ F!PendingIsTrue' /\ F!ProgressIsOfAnUpload'
    BY <1>0, <2>3, <2>6 DEF F!DoneIsShown, F!PendingIsTrue, F!ProgressIsOfAnUpload
  <2>8. F!AwaitedIsOfDocument' /\ F!AcceptedIsUnderReview' /\ F!OneIsAtWork'
    BY <2>6 DEF F!AwaitedIsOfDocument, F!AcceptedIsUnderReview, F!OneIsAtWork
  <2>9. QED
    BY <2>1, <2>4, <2>5, <2>7, <2>8 DEF F!IInv
<1>5. ASSUME NEW c \in Calls, view.call = c, ~view.done, UNCHANGED <<aside, record>>,
             asked[c].at = "ok", view' = [view EXCEPT !.done = TRUE, !.percent = "full"],
             asked' = [asked EXCEPT ![c] = F!NoSubmission]
      PROVE  F!IInv'
  <2>1. /\ asked' \in [Calls -> F!Submissions] /\ F!SentIsValid' /\ F!AtWork' \subseteq F!AtWork
        /\ asked'[c] = F!NoSubmission
    BY <1>0, <1>3, <1>5
  <2>2. view' \in F!Pages
    BY <1>0, <1>e, <1>5, Zenon DEF F!Pages
  <2>3. /\ view'.step = view.step /\ view'.name = view.name /\ view'.birth = view.birth
        /\ view'.nin = view.nin /\ view'.document = view.document /\ view'.preview = view.preview
        /\ view'.call = c /\ view'.done /\ view'.submitted = view.submitted
        /\ view'.overlapped = view.overlapped /\ view'.reviewed = view.reviewed
    BY <1>0, <1>5 DEF F!Pages
  <2>4. F!StepsAreFilledIn' /\ F!PreviewIsOfDocument'
    BY <1>5, <2>2, <2>3, UploadKeeps
  <2>5. F!TypeOK'
    BY <1>5, <2>1, <2>2 DEF F!IInv, F!TypeOK
  <2>6. F!Loading /\ F!Loading'
    BY <1>5, <2>3 DEF F!Loading, F!Parameters
  <2>7. F!DoneIsShown' /\ F!ProgressIsOfAnUpload' /\ F!AwaitedIsOfDocument' /\ F!AcceptedIsUnderReview'
    BY <2>3, <2>6 DEF F!DoneIsShown, F!ProgressIsOfAnUpload, F!AwaitedIsOfDocument,
           F!AcceptedIsUnderReview
  <2>8. F!PendingIsTrue'
    BY <1>0, <1>5, <2>3, <2>6 DEF F!PendingIsTrue, F!AcceptedIsUnderReview
  <2>9. F!OneIsAtWork'
    <3>1. c \notin F!AtWork'
      BY <1>n, <2>1 DEF F!AtWork
    <3>2. ~view.overlapped => F!AtWork \subseteq {c}
      BY <1>0, <1>5, <2>6 DEF F!OneIsAtWork
    <3>3. QED
      BY <2>1, <2>3, <3>1, <3>2 DEF F!OneIsAtWork
  <2>10. QED
    BY <2>1, <2>4, <2>5, <2>7, <2>8, <2>9 DEF F!IInv
<1>6. ASSUME NEW c \in Calls, F!Answered(c) PROVE F!IInv'
  <2>1. CASE asked[c].at = "ok" /\ view' = [view EXCEPT !.done = TRUE, !.percent = "full"]
    BY <1>5, <1>6, <2>1 DEF F!Answered
  <2>2. CASE \/ view' = [view EXCEPT !.call = None, !.percent = "undefined"]
             \/ view' = [view EXCEPT !.call = None, !.leaving = TRUE]
    BY <1>4, <1>6, <2>2 DEF F!Answered
  <2>3. QED
    BY <1>6, <2>1, <2>2 DEF F!Answered
<1>7. ASSUME NEW c \in Calls, F!Unanswered(c) PROVE F!IInv'
  BY <1>4, <1>7 DEF F!Unanswered
<1>8. QED
  BY <1>1, <1>2, <1>6, <1>7

\* The KYC form: a step keeps its invariant.
LEMMA FormStep == F!Parameters /\ F!IInv /\ [F!Next]_F!vars => F!IInv'
<1> SUFFICES ASSUME F!Parameters, F!IInv, [F!Next]_F!vars PROVE F!IInv'
  OBVIOUS
<1>0. /\ view \in F!Pages /\ asked \in [Calls -> F!Submissions] /\ F!SentIsValid
      /\ record \in [status : {"none", "pending", "verified", "rejected"}, document : F!Files]
  BY DEF F!IInv, F!TypeOK
<1>1. CASE UNCHANGED F!vars
  <2>1. UNCHANGED <<view, aside, asked, record>>
    BY <1>1 DEF F!vars
  <2>2. F!StepsAreFilledIn' /\ F!PreviewIsOfDocument'
    BY <1>0, <2>1, UploadKeeps
  <2>3. QED
    BY <1>0, <2>1, <2>2, FillingKeeps
<1>2. CASE F!Load
  BY <1>2, LoadKeeps
<1>3. CASE \/ F!Edit \/ F!GoToStep2 \/ F!GoToStep3 \/ F!Back
           \/ \E file \in Documents \cup {Unfit, None} : F!HandleDocumentChange(file)
  BY <1>3, FormFills
<1>4. ASSUME NEW c \in Calls, F!Submit(c) PROVE F!IInv'
  BY <1>4, UploadIsSent
<1>5. CASE F!Progress \/ F!ShowPending \/ \E c \in Calls : F!Answered(c) \/ F!Unanswered(c)
  BY <1>5, AnswerKeeps
<1>6. ASSUME NEW c \in Calls, NEW a \in {"writing", "error", "ok"}, UNCHANGED <<view, aside>>,
             asked' = [asked EXCEPT ![c].at = a],
             asked[c].at \in {"sent", "writing"},
             \/ record' = record /\ a # "ok"
             \/ record' = [status |-> "pending", document |-> asked[c].document]
      PROVE  F!IInv'
  <2> DEFINE s == [asked[c] EXCEPT !.at = a]
  <2>1. asked' = [asked EXCEPT ![c] = s]
    BY <1>0, <1>6
  <2>2. a \in {"none", "sent", "writing", "ok", "error"}
    OBVIOUS
  <2>3. s \in F!Submissions
    BY <1>0, <2>2, Zenon DEF F!Submissions
  <2>4. /\ s.at = a /\ s.document = asked[c].document /\ s.valid = asked[c].valid
        /\ asked[c].document \in F!Files
    BY <1>0 DEF F!Submissions
  <2>5. asked[c].valid
    BY <1>0 DEF F!SentIsValid
  <2> HIDE DEF s
  <2>6. /\ record' \in [status : {"none", "pending", "verified", "rejected"}, document : F!Files]
        /\ record'.document \in F!Files
        /\ \/ record' = record /\ a # "ok"
           \/ record'.status = "pending" /\ record'.document = asked[c].document
    BY <1>0, <1>6, <2>4
  <2>7. QED
    BY <1>6, <2>1, <2>3, <2>4, <2>5, <2>6, ServerKeeps
<1>7. ASSUME NEW c \in Calls, F!Check(c) PROVE F!IInv'
  BY <1>6, <1>7 DEF F!Check
<1>8. ASSUME NEW c \in Calls, F!Write(c) PROVE F!IInv'
  BY <1>6, <1>8 DEF F!Write
<1>9. ASSUME NEW c \in Calls, F!Unheard(c) PROVE F!IInv'
  <2>1. F!NoSubmission \in F!Submissions /\ F!NoSubmission.at = "none" /\ F!NoSubmission.valid
    BY DEF F!NoSubmission, F!Submissions, F!Files
  <2>2. /\ view.call # c /\ asked' = [asked EXCEPT ![c] = F!NoSubmission]
        /\ UNCHANGED <<view, aside>> /\ record' = record
    BY <1>9 DEF F!Unheard
  <2>3. record'.document \in F!Files
        /\ record' \in [status : {"none", "pending", "verified", "rejected"}, document : F!Files]
    BY <1>0, <2>2
  <2>4. QED
    BY <2>1, <2>2, <2>3, ServerKeeps
<1>10. CASE F!Review
  <2>1. PICK s \in {"verified", "rejected"} : record' = [record EXCEPT !.status = s]
    BY <1>10 DEF F!Review
  <2>2. view' = [view EXCEPT !.reviewed = TRUE] /\ UNCHANGED <<aside, asked>>
    BY <1>10 DEF F!Review
  <2>3. TRUE \in BOOLEAN /\ view' \in F!Pages
    BY <1>0, <2>2, Zenon DEF F!Pages
  <2>4. /\ view'.step = view.step /\ view'.name = view.name /\ view'.birth = view.birth
        /\ view'.nin = view.nin /\ view'.document = view.document /\ view'.preview = view.preview
        /\ view'.call = view.call /\ view'.done = view.done /\ view'.submitted = view.submitted
        /\ view'.overlapped = view.overlapped /\ view'.reviewed /\ view'.percent = view.percent
        /\ view'.leaving = view.leaving
    BY <1>0, <2>2 DEF F!Pages
  <2>5. record' \in [status : {"none", "pending", "verified", "rejected"}, document : F!Files]
        /\ record'.document = record.document
    BY <1>0, <2>1
  <2>6. F!StepsAreFilledIn' /\ F!PreviewIsOfDocument'
    BY <2>2, <2>3, <2>4, UploadKeeps
  <2>7. F!TypeOK' /\ F!SentIsValid'
    BY <1>0, <2>2, <2>3, <2>5 DEF F!TypeOK, F!SentIsValid
  <2>8. (F!Loading' <=> F!Loading) /\ F!AtWork' = F!AtWork
    BY <2>2, <2>4 DEF F!Loading, F!AtWork
  <2>9. F!DoneIsShown' /\ F!ProgressIsOfAnUpload'
    BY <2>4, <2>8 DEF F!IInv, F!DoneIsShown, F!ProgressIsOfAnUpload
  <2>10. F!PendingIsTrue'
    BY <2>4, <2>5 DEF F!IInv, F!PendingIsTrue
  <2>11. F!AwaitedIsOfDocument' /\ F!AcceptedIsUnderReview'
    BY <2>2, <2>4, <2>5, <2>8 DEF F!IInv, F!AwaitedIsOfDocument, F!AcceptedIsUnderReview
  <2>12. F!OneIsAtWork'
    BY <2>2, <2>4, <2>8 DEF F!IInv, F!OneIsAtWork
  <2>13. QED
    BY <2>6, <2>7, <2>9, <2>10, <2>11, <2>12 DEF F!IInv
<1>11. QED
  BY <1>1, <1>2, <1>3, <1>4, <1>5, <1>7, <1>8, <1>9, <1>10 DEF F!Next

\* The KYC form: its invariant holds its properties.
LEMMA FormIsSafe ==
  F!IInv => F!SentIsValid /\ F!PendingIsTrue /\ F!PreviewIsOfDocument /\ F!ProgressIsOfAnUpload
  BY DEF F!IInv

-----------------------------------------------------------------------------
(* Deposits.                                                               *)

\* A job goes on, or back, or ends.
LEMMA JobGoes ==
  ASSUME NEW b, jobs \in Seq(D(b)!Jobs), NEW j \in 1..Len(jobs),
         NEW where \in {"queued", "applying", "marking", "failing", "ended"}, D(b)!Goto(j, where)
  PROVE  /\ jobs' \in Seq(D(b)!Jobs) /\ Len(jobs') = Len(jobs)
         /\ jobs'[j].at = where /\ jobs'[j].row = jobs[j].row
         /\ \A i \in 1..Len(jobs) : i # j => jobs'[i] = jobs[i]
<1> DEFINE e == [jobs[j] EXCEPT !.at = where]
<1>1. jobs[j] \in D(b)!Jobs /\ jobs' = [jobs EXCEPT ![j] = e]
  BY DEF D!Goto
<1>2. e \in D(b)!Jobs
  BY <1>1, Zenon DEF D!Jobs
<1>3. e.at = where /\ e.row = jobs[j].row
  BY <1>1 DEF D!Jobs
<1> HIDE DEF e
<1>4. QED
  BY <1>1, <1>2, <1>3, EntryIsPut

\* An event gets another status.
LEMMA EventIsMarked ==
  ASSUME NEW b, events \in Seq(D(b)!Events), NEW e \in 1..Len(events),
         NEW s \in {"pending", "processed", "failed"}, events' = [events EXCEPT ![e].status = s]
  PROVE  /\ events' \in Seq(D(b)!Events) /\ Len(events') = Len(events) /\ events'[e].status = s
         /\ \A i \in 1..Len(events) : events'[i].of = events[i].of
         /\ \A i \in 1..Len(events) : i # e => events'[i] = events[i]
<1> DEFINE v == [events[e] EXCEPT !.status = s]
<1>1. events[e] \in D(b)!Events /\ events' = [events EXCEPT ![e] = v]
  OBVIOUS
<1>2. v \in D(b)!Events
  BY <1>1, Zenon DEF D!Events
<1>3. v.status = s /\ v.of = events[e].of
  BY <1>1 DEF D!Events
<1> HIDE DEF v
<1>4. /\ events' \in Seq(D(b)!Events) /\ Len(events') = Len(events) /\ events'[e] = v
      /\ \A i \in 1..Len(events) : i # e => events'[i] = events[i]
  BY <1>1, <1>2, EntryIsPut
<1>5. \A i \in 1..Len(events) : events'[i].of = events[i].of
  BY <1>3, <1>4
<1>6. QED
  BY <1>3, <1>4, <1>5

\* What the invariant says of the sequences.
LEMMA WhatIsTyped ==
  ASSUME NEW b, D(b)!IInv
  PROVE  /\ number \in [Payers -> Numbers] /\ account \in [Payers -> Nat]
         /\ customer \in [Payers -> Numbers \cup {None}] /\ owner \in Seq(Payers)
         /\ provision \in [Workers -> D(b)!Provisions] /\ backlog \subseteq [for : Payers, tries : Nat]
         /\ payments \in Seq(D(b)!Payments) /\ Len(payments) \in Nat /\ Len(payments) <= MaxPayments
         /\ events \in Seq(D(b)!Events) /\ Len(events) \in Nat /\ jobs \in Seq(D(b)!Jobs)
             /\ Len(jobs) \in Nat
         /\ \A e \in 1..Len(events) : /\ events[e] \in D(b)!Events /\ events[e].of \in 1..Len(payments)
         /\ \A j \in 1..Len(jobs) : /\ jobs[j] \in D(b)!Jobs /\ jobs[j].row \in 1..Len(events)
                                    /\ D(b)!EventOf(j).of \in 1..Len(payments)
         /\ settled \in [D(b)!References -> {"none", "unmatched", "processed"}]
         /\ credits \subseteq [of : 1..Len(payments), to : Payers, nth : {1}, held : BOOLEAN]
         /\ replays \subseteq 1..Len(events)
         /\ \A w \in Workers : provision[w] \in D(b)!Provisions
         /\ \A r \in 1..Len(payments) : payments[r] \in D(b)!Payments
<1>1. D(b)!TypedAccounts /\ D(b)!TypedEvents
  BY DEF D!IInv
<1>2. /\ payments \in Seq(D(b)!Payments) /\ events \in Seq(D(b)!Events) /\ jobs \in Seq(D(b)!Jobs)
      /\ \A e \in 1..Len(events) : events[e].of \in 1..Len(payments)
      /\ \A j \in 1..Len(jobs) : jobs[j].row \in 1..Len(events)
  BY <1>1 DEF D!TypedEvents
<1>3. Len(payments) \in Nat /\ Len(events) \in Nat /\ Len(jobs) \in Nat
  BY <1>2
<1>4. \A e \in 1..Len(events) : events[e] \in D(b)!Events
  BY <1>2
<1>5. \A j \in 1..Len(jobs) : jobs[j] \in D(b)!Jobs
  BY <1>2
<1>6. \A r \in 1..Len(payments) : payments[r] \in D(b)!Payments
  BY <1>2
<1>7. \A j \in 1..Len(jobs) : D(b)!EventOf(j).of \in 1..Len(payments)
  BY <1>2 DEF D!EventOf
<1>8. provision \in [Workers -> D(b)!Provisions]
  BY <1>1 DEF D!TypedAccounts
<1>9. \A w \in Workers : provision[w] \in D(b)!Provisions
  BY <1>8
<1>10. QED
  BY <1>1, <1>2, <1>3, <1>4, <1>5, <1>6, <1>7, <1>9 DEF D!TypedAccounts, D!TypedEvents

\* Deposits: its invariant holds at first.
LEMMA DepositsInit == ASSUME NEW b, D(b)!Parameters, D(b)!Init PROVE D(b)!IInv
<1>1. /\ number = FirstNumber /\ account = [u \in Payers |-> 0]
      /\ customer = [u \in Payers |-> None] /\ owner = << >>
      /\ provision = [w \in Workers |-> D(b)!Nothing] /\ backlog = {}
      /\ payments = << >> /\ events = << >> /\ jobs = << >> /\ replays = {}
      /\ settled = [r \in D(b)!References |-> "none"] /\ credits = {}
  BY DEF D!Init
<1>2. D(b)!Nothing \in D(b)!Provisions /\ D(b)!Nothing.at = "idle"
  BY DEF D!Nothing, D!Provisions
<1>3. /\ << >> \in Seq(Payers) /\ << >> \in Seq(D(b)!Payments) /\ << >> \in Seq(D(b)!Events)
      /\ << >> \in Seq(D(b)!Jobs) /\ Len(<< >>) = 0
  OBVIOUS
<1>4. D(b)!TypedAccounts
  BY <1>1, <1>2, <1>3 DEF D!TypedAccounts, D!Parameters
<1>5. D(b)!TypedEvents
  BY <1>1, <1>3 DEF D!TypedEvents, D!Parameters
<1>6. D(b)!AccountsAreOwn
  BY <1>1, <1>2 DEF D!AccountsAreOwn, D!Parameters
<1>7. D(b)!NumbersAreKnown /\ D(b)!CreditedOnce /\ D(b)!CreditedToThePayer
  BY <1>1 DEF D!NumbersAreKnown, D!CreditedOnce, D!CreditedToThePayer
<1>8. D(b)!PaymentsAreOfPayers /\ D(b)!CreditsAreSettled /\ D(b)!ProcessedIsSettled
  BY <1>1, <1>3 DEF D!PaymentsAreOfPayers, D!CreditsAreSettled, D!ProcessedIsSettled
<1>9. QED
  BY <1>4, <1>5, <1>6, <1>7, <1>8 DEF D!IInv

\* Accounts and numbers move: what was paid stays of its payer.
LEMMA AccountsMove ==
  ASSUME NEW b, D(b)!IInv, UNCHANGED <<payments, events, jobs, replays, settled, credits>>,
         D(b)!TypedAccounts', D(b)!AccountsAreOwn', D(b)!NumbersAreKnown', passedOn \subseteq passedOn',
         \A u \in Payers : number'[u] = number[u] \/ number[u] \in passedOn',
         Len(owner) <= Len(owner'), \A a \in 1..Len(owner) : owner'[a] = owner[a]
  PROVE  D(b)!IInv'
<1>1. D(b)!TypedEvents' /\ D(b)!CreditedOnce'
  BY DEF D!IInv, D!TypedEvents, D!CreditedOnce
<1>2. D(b)!CreditsAreSettled' /\ D(b)!ProcessedIsSettled'
  BY DEF D!IInv, D!CreditsAreSettled, D!ProcessedIsSettled, D!EventOf
<1>3. D(b)!CreditedToThePayer'
  BY DEF D!IInv, D!CreditedToThePayer
<1>4. D(b)!PaymentsAreOfPayers'
  <2>1. SUFFICES ASSUME NEW r \in 1..Len(payments)
                 PROVE  /\ payments[r].id \in {payments[r].payer, None}
                        /\ payments[r].into # 0 => /\ payments[r].into \in 1..Len(owner')
                                                   /\ owner'[payments[r].into] = payments[r].payer
                        /\ payments[r].to # None =>
                             payments[r].to \in passedOn' \cup {number'[payments[r].payer]}
    BY DEF D!PaymentsAreOfPayers
  <2>2. /\ payments[r].id \in {payments[r].payer, None}
        /\ payments[r].into # 0 => /\ payments[r].into \in 1..Len(owner)
                                   /\ owner[payments[r].into] = payments[r].payer
        /\ payments[r].to # None =>
             payments[r].to \in passedOn \cup {number[payments[r].payer]}
    BY DEF D!IInv, D!PaymentsAreOfPayers
  <2>3. payments[r].payer \in Payers
    BY WhatIsTyped DEF D!Payments
  <2>4. Len(owner) \in Nat /\ Len(owner') \in Nat
    BY DEF D!IInv, D!TypedAccounts
  <2>5. QED
    BY <2>2, <2>3, <2>4
<1>5. QED
  BY <1>1, <1>2, <1>3, <1>4 DEF D!IInv

\* A worker moves.
LEMMA WorkerMoves ==
  ASSUME NEW b, D(b)!IInv, UNCHANGED <<payments, events, jobs, replays, settled, credits, passedOn,
         number>>,
         NEW w \in Workers, NEW p \in D(b)!Provisions, provision' = [provision EXCEPT ![w] = p],
         p.at # "idle" => p.for \in Payers, backlog' \subseteq [for : Payers, tries : Nat],
         owner' \in Seq(Payers), Len(owner) <= Len(owner'),
         \A a \in 1..Len(owner) : owner'[a] = owner[a],
         p.at = "storing" => p.opened \in 1..Len(owner') /\ owner'[p.opened] = p.for,
         account' \in [Payers -> Nat],
         \A u \in Payers :
           account'[u] = account[u] \/ (account'[u] \in 1..Len(owner) /\ owner[account'[u]] = u),
         customer' \in [Payers -> Numbers \cup {None}],
         \A u \in Payers : customer'[u] = customer[u] \/ customer'[u] = number[u]
  PROVE  D(b)!IInv'
<1>1. /\ provision \in [Workers -> D(b)!Provisions] /\ owner \in Seq(Payers)
          /\ number \in [Payers -> Numbers]
      /\ D(b)!AccountsAreOwn /\ D(b)!NumbersAreKnown
  BY WhatIsTyped DEF D!IInv
<1>2. /\ provision' \in [Workers -> D(b)!Provisions] /\ provision'[w] = p
      /\ \A v \in Workers \ {w} : provision'[v] = provision[v]
  BY <1>1
<1>3. D(b)!TypedAccounts'
  BY <1>1, <1>2 DEF D!TypedAccounts
<1>4. Len(owner) \in Nat /\ Len(owner') \in Nat
  BY <1>1
<1>5. D(b)!AccountsAreOwn'
  <2>1. \A u, v \in Payers : number'[u] = number'[v] => u = v
    BY <1>1 DEF D!AccountsAreOwn
  <2>2. ASSUME NEW u \in Payers, account'[u] # 0
        PROVE  account'[u] \in 1..Len(owner') /\ owner'[account'[u]] = u
    <3>1. CASE account'[u] = account[u]
      <4>1. account[u] \in 1..Len(owner) /\ owner[account[u]] = u
        BY <1>1, <2>2, <3>1 DEF D!AccountsAreOwn
      <4>2. QED
        BY <1>4, <3>1, <4>1
    <3>2. CASE account'[u] \in 1..Len(owner) /\ owner[account'[u]] = u
      BY <1>4, <3>2
    <3>3. QED
      BY <2>2, <3>1, <3>2
  <2>3. ASSUME NEW v \in Workers
        PROVE  /\ provision'[v].at # "idle" => provision'[v].for \in Payers
               /\ provision'[v].at = "storing" =>
                    /\ provision'[v].opened \in 1..Len(owner')
                    /\ owner'[provision'[v].opened] = provision'[v].for
    <3>1. CASE v = w
      BY <1>2, <3>1
    <3>2. CASE v # w
      BY <1>1, <1>2, <1>4, <3>2 DEF D!AccountsAreOwn
    <3>3. QED
      BY <3>1, <3>2
  <2>4. QED
    BY <2>1, <2>2, <2>3 DEF D!AccountsAreOwn
<1>6. D(b)!NumbersAreKnown'
  BY <1>1 DEF D!NumbersAreKnown
<1>7. QED
  BY <1>3, <1>4, <1>5, <1>6, AccountsMove

\* A number changes hands.
LEMMA ChangeNumberKeeps ==
  ASSUME NEW b, D(b)!IInv, NEW u \in Payers, NEW p \in Numbers, D(b)!ChangeNumber(u, p)
  PROVE  D(b)!IInv'
<1>1. /\ \A v \in Payers : number[v] # p
      /\ number' = [number EXCEPT ![u] = p] /\ passedOn' = passedOn \cup {number[u]}
      /\ UNCHANGED <<account, customer, owner, provision, backlog, payments, events, jobs, replays,
                     settled, credits>>
  BY DEF D!ChangeNumber, D!inbox, D!ledger
<1>2. number \in [Payers -> Numbers] /\ D(b)!AccountsAreOwn /\ D(b)!NumbersAreKnown /\ D(b)!TypedAccounts
  BY WhatIsTyped DEF D!IInv
<1>3. /\ number' \in [Payers -> Numbers] /\ number'[u] = p
      /\ \A v \in Payers \ {u} : number'[v] = number[v]
  BY <1>1, <1>2
<1>4. D(b)!TypedAccounts'
  BY <1>1, <1>2, <1>3 DEF D!TypedAccounts
<1>5. D(b)!AccountsAreOwn'
  BY <1>1, <1>2, <1>3 DEF D!AccountsAreOwn
<1>6. D(b)!NumbersAreKnown'
  BY <1>1, <1>2, <1>3 DEF D!NumbersAreKnown
<1>7. Len(owner) <= Len(owner')
  BY <1>1, <1>2 DEF D!TypedAccounts
<1>8. QED
  BY <1>1, <1>3, <1>4, <1>5, <1>6, <1>7, AccountsMove

\* An account is provided, from the look for a customer to the row.
LEMMA ProvisionKeeps ==
  ASSUME NEW b, D(b)!IInv, NEW w \in Workers,
         \/ \E u \in Payers : D(b)!ProvisionInline(w, u) \/ D(b)!ProvisionJob(w, u)
         \/ D(b)!EnsureCustomer(w) \/ D(b)!OpenAccount(w) \/ D(b)!StoreAccount(w)
                                       \/ D(b)!ProvisionFails(w)
  PROVE  D(b)!IInv'
<1>0. /\ number \in [Payers -> Numbers] /\ account \in [Payers -> Nat]
      /\ customer \in [Payers -> Numbers \cup {None}] /\ owner \in Seq(Payers)
      /\ Len(owner) \in Nat /\ backlog \subseteq [for : Payers, tries : Nat]
      /\ provision[w] \in D(b)!Provisions /\ provision \in [Workers -> D(b)!Provisions]
      /\ D(b)!AccountsAreOwn /\ D(b)!NumbersAreKnown
  BY WhatIsTyped DEF D!IInv
<1>i. /\ UNCHANGED <<payments, events, jobs, replays, settled, credits, passedOn, number>>
  BY DEF D!ProvisionInline, D!ProvisionJob, D!EnsureCustomer, D!OpenAccount, D!StoreAccount,
         D!ProvisionFails,
         D!inbox, D!ledger
<1>n. D(b)!Nothing \in D(b)!Provisions /\ D(b)!Nothing.at = "idle"
  BY DEF D!Nothing, D!Provisions
<1>s. /\ provision[w].at # "idle" => provision[w].for \in Payers
      /\ provision[w].at = "storing" => /\ provision[w].opened \in 1..Len(owner)
                                        /\ owner[provision[w].opened] = provision[w].for
      /\ provision[w].tries \in Nat /\ provision[w].for \in Payers \cup {None}
  BY <1>0 DEF D!AccountsAreOwn, D!Provisions
<1>1. ASSUME NEW u \in Payers, D(b)!ProvisionInline(w, u) PROVE D(b)!IInv'
  <2> DEFINE p == [D(b)!Nothing EXCEPT !.at = "customer", !.for = u]
  <2>1. /\ provision' = [provision EXCEPT ![w] = p] /\ UNCHANGED <<account, customer, owner, backlog>>
    BY <1>1 DEF D!ProvisionInline
  <2>2. "customer" \in {"idle", "customer", "opening", "storing"} /\ u \in Payers \cup {None}
    OBVIOUS
  <2>3. p \in D(b)!Provisions
    BY <1>n, <2>2, Zenon DEF D!Provisions
  <2>4. p.at = "customer" /\ p.for = u
    BY <1>n DEF D!Provisions
  <2> HIDE DEF p
  <2>5. /\ customer' \in [Payers -> Numbers \cup {None}] /\ owner' \in Seq(Payers)
        /\ account' \in [Payers -> Nat] /\ Len(owner) <= Len(owner')
        /\ backlog' \subseteq [for : Payers, tries : Nat]
    BY <1>0, <2>1
  <2>6. /\ \A v \in Payers : customer'[v] = customer[v] \/ customer'[v] = number[v]
        /\ \A v \in Payers :
             account'[v] = account[v] \/ (account'[v] \in 1..Len(owner) /\ owner[account'[v]] = v)
        /\ \A i \in 1..Len(owner) : owner'[i] = owner[i]
    BY <2>1
  <2>7. /\ p.at # "idle" => p.for \in Payers
        /\ p.at = "storing" => p.opened \in 1..Len(owner') /\ owner'[p.opened] = p.for
    BY <2>4
  <2>8. QED
    BY <1>i, <2>1, <2>3, <2>5, <2>6, <2>7, WorkerMoves
<1>2. ASSUME NEW u \in Payers, D(b)!ProvisionJob(w, u) PROVE D(b)!IInv'
  <2>1. PICK k \in backlog :
          /\ k.for = u /\ backlog' = backlog \ {k}
          /\ provision' = [provision EXCEPT ![w] =
               [at |-> "customer", for |-> u, tries |-> k.tries + 1, opened |-> 0]]
    BY <1>2 DEF D!ProvisionJob
  <2> DEFINE p == [at |-> "customer", for |-> u, tries |-> k.tries + 1, opened |-> 0]
  <2>2. UNCHANGED <<account, customer, owner>>
    BY <1>2 DEF D!ProvisionJob
  <2>3. k.tries + 1 \in Nat /\ backlog' \subseteq [for : Payers, tries : Nat]
    BY <1>0, <2>1
  <2>4. p \in D(b)!Provisions /\ p.at = "customer" /\ p.for = u
    BY <2>3 DEF D!Provisions
  <2>5. provision' = [provision EXCEPT ![w] = p]
    BY <2>1
  <2> HIDE DEF p
  <2>6. /\ customer' \in [Payers -> Numbers \cup {None}] /\ owner' \in Seq(Payers)
        /\ account' \in [Payers -> Nat] /\ Len(owner) <= Len(owner')
        /\ backlog' \subseteq [for : Payers, tries : Nat]
    BY <1>0, <2>2, <2>3
  <2>7. /\ \A v \in Payers : customer'[v] = customer[v] \/ customer'[v] = number[v]
        /\ \A v \in Payers :
             account'[v] = account[v] \/ (account'[v] \in 1..Len(owner) /\ owner[account'[v]] = v)
        /\ \A i \in 1..Len(owner) : owner'[i] = owner[i]
    BY <2>2
  <2>8. /\ p.at # "idle" => p.for \in Payers
        /\ p.at = "storing" => p.opened \in 1..Len(owner') /\ owner'[p.opened] = p.for
    BY <2>4
  <2>9. QED
    BY <1>i, <2>4, <2>5, <2>6, <2>7, <2>8, WorkerMoves
<1>3. CASE D(b)!EnsureCustomer(w)
  <2> DEFINE u == provision[w].for
             p == [provision[w] EXCEPT !.at = "opening"]
  <2>1. /\ provision[w].at = "customer"
        /\ customer' = IF customer[u] = None THEN [customer EXCEPT ![u] = number[u]] ELSE customer
        /\ provision' = [provision EXCEPT ![w] = p]
        /\ UNCHANGED <<account, owner, backlog>>
    BY <1>0, <1>3 DEF D!EnsureCustomer
  <2>2. "opening" \in {"idle", "customer", "opening", "storing"} /\ u \in Payers
    BY <1>s, <2>1
  <2>3. p \in D(b)!Provisions
    BY <1>0, <2>2, Zenon DEF D!Provisions
  <2>4. p.at = "opening" /\ p.for = u
    BY <1>0 DEF D!Provisions
  <2> HIDE DEF p, u
  <2>5. /\ customer' \in [Payers -> Numbers \cup {None}]
        /\ \A v \in Payers : customer'[v] = customer[v] \/ customer'[v] = number[v]
    BY <1>0, <2>1, <2>2
  <2>6. /\ customer' \in [Payers -> Numbers \cup {None}] /\ owner' \in Seq(Payers)
        /\ account' \in [Payers -> Nat] /\ Len(owner) <= Len(owner')
        /\ backlog' \subseteq [for : Payers, tries : Nat]
    BY <1>0, <2>1, <2>5
  <2>7. /\ \A v \in Payers : customer'[v] = customer[v] \/ customer'[v] = number[v]
        /\ \A v \in Payers :
             account'[v] = account[v] \/ (account'[v] \in 1..Len(owner) /\ owner[account'[v]] = v)
        /\ \A i \in 1..Len(owner) : owner'[i] = owner[i]
    BY <2>1, <2>5
  <2>8. /\ p.at # "idle" => p.for \in Payers
        /\ p.at = "storing" => p.opened \in 1..Len(owner') /\ owner'[p.opened] = p.for
    BY <2>2, <2>4
  <2>9. QED
    BY <1>i, <2>1, <2>3, <2>6, <2>7, <2>8, WorkerMoves
<1>4. CASE D(b)!OpenAccount(w)
  <2> DEFINE u == provision[w].for
  <2>1. provision[w].at = "opening" /\ UNCHANGED <<account, customer, backlog>>
    BY <1>4 DEF D!OpenAccount
  <2>2. u \in Payers
    BY <1>s, <2>1
  <2>3. "storing" \in {"idle", "customer", "opening", "storing"}
    OBVIOUS
  <2>4. ASSUME NEW a \in 1..Len(owner'), owner' \in Seq(Payers), owner'[a] = u,
               Len(owner) <= Len(owner'), \A i \in 1..Len(owner) : owner'[i] = owner[i],
               provision' = [provision EXCEPT ![w].at = "storing", ![w].opened = a]
        PROVE  D(b)!IInv'
    <3> DEFINE p == [provision[w] EXCEPT !.at = "storing", !.opened = a]
    <3>1. provision' = [provision EXCEPT ![w] = p]
      BY <1>0, <2>4
    <3>2. a \in Nat
      BY <2>4
    <3>3. p \in D(b)!Provisions
      BY <1>0, <2>3, <3>2, Zenon DEF D!Provisions
    <3>4. p.at = "storing" /\ p.for = u /\ p.opened = a
      BY <1>0 DEF D!Provisions
    <3> HIDE DEF p, u
    <3>5. /\ customer' \in [Payers -> Numbers \cup {None}] /\ owner' \in Seq(Payers)
          /\ account' \in [Payers -> Nat] /\ Len(owner) <= Len(owner')
          /\ backlog' \subseteq [for : Payers, tries : Nat]
      BY <1>0, <2>1, <2>4
    <3>6. /\ \A v \in Payers : customer'[v] = customer[v] \/ customer'[v] = number[v]
          /\ \A v \in Payers :
               account'[v] = account[v] \/ (account'[v] \in 1..Len(owner) /\ owner[account'[v]] = v)
          /\ \A i \in 1..Len(owner) : owner'[i] = owner[i]
      BY <2>1, <2>4
    <3>7. /\ p.at # "idle" => p.for \in Payers
          /\ p.at = "storing" => p.opened \in 1..Len(owner') /\ owner'[p.opened] = p.for
      BY <2>2, <2>4, <3>4
    <3>8. QED
      BY <1>i, <2>1, <2>4, <3>1, <3>3, <3>5, <3>6, <3>7, WorkerMoves
  <2>5. CASE /\ owner' = Append(owner, u)
             /\ provision' = [provision EXCEPT ![w].at = "storing", ![w].opened = Len(owner) + 1]
    <3> HIDE DEF u
    <3>1. /\ owner' \in Seq(Payers) /\ Len(owner') = Len(owner) + 1 /\ owner'[Len(owner')] = u
          /\ \A i \in 1..Len(owner) : owner'[i] = owner[i]
      BY <1>0, <2>2, <2>5, EntryIsAdded
    <3>2. Len(owner) + 1 \in 1..Len(owner') /\ Len(owner) <= Len(owner')
      BY <1>0, <3>1
    <3>3. QED
      BY <2>4, <2>5, <3>1, <3>2
  <2>6. CASE \E a \in 1..Len(owner) :
               /\ owner[a] = u
               /\ provision' = [provision EXCEPT ![w].at = "storing", ![w].opened = a]
               /\ UNCHANGED owner
    <3>1. PICK a \in 1..Len(owner) :
               /\ owner[a] = u
               /\ provision' = [provision EXCEPT ![w].at = "storing", ![w].opened = a]
               /\ owner' = owner
      BY <2>6
    <3>2. a \in 1..Len(owner') /\ owner' \in Seq(Payers) /\ Len(owner) <= Len(owner')
          /\ \A i \in 1..Len(owner) : owner'[i] = owner[i]
      BY <1>0, <3>1
    <3>3. QED
      BY <2>4, <3>1, <3>2
  <2>7. QED
    BY <1>4, <2>5, <2>6 DEF D!OpenAccount
<1>5. CASE D(b)!StoreAccount(w)
  <2> DEFINE u == provision[w].for
             a == provision[w].opened
  <2>1. /\ provision[w].at = "storing" /\ account' = [account EXCEPT ![u] = a]
        /\ provision' = [provision EXCEPT ![w] = D(b)!Nothing] /\ UNCHANGED <<customer, owner, backlog>>
    BY <1>5 DEF D!StoreAccount
  <2>2. u \in Payers /\ a \in 1..Len(owner) /\ owner[a] = u
    BY <1>s, <2>1
  <2> HIDE DEF u, a
  <2>3. /\ account' \in [Payers -> Nat] /\ account'[u] = a
        /\ \A v \in Payers \ {u} : account'[v] = account[v]
    BY <1>0, <2>1, <2>2
  <2>4. \A v \in Payers :
          account'[v] = account[v] \/ (account'[v] \in 1..Len(owner) /\ owner[account'[v]] = v)
    BY <2>2, <2>3 DEF u, a
  <2>5. /\ customer' \in [Payers -> Numbers \cup {None}] /\ owner' \in Seq(Payers)
        /\ backlog' \subseteq [for : Payers, tries : Nat] /\ Len(owner) <= Len(owner')
    BY <1>0, <2>1
  <2>6. /\ \A v \in Payers : customer'[v] = customer[v] \/ customer'[v] = number[v]
        /\ \A i \in 1..Len(owner) : owner'[i] = owner[i]
    BY <2>1
  <2>7. /\ D(b)!Nothing.at # "idle" => D(b)!Nothing.for \in Payers
        /\ D(b)!Nothing.at = "storing" =>
             D(b)!Nothing.opened \in 1..Len(owner') /\ owner'[D(b)!Nothing.opened] = D(b)!Nothing.for
    BY <1>n
  <2>8. QED
    BY <1>i, <1>n, <2>1, <2>3, <2>4, <2>5, <2>6, <2>7, WorkerMoves
<1>6. CASE D(b)!ProvisionFails(w)
  <2> DEFINE p == provision[w]
  <2>1. /\ p.at # "idle" /\ provision' = [provision EXCEPT ![w] = D(b)!Nothing]
        /\ backlog' = IF p.tries < MaxTries THEN backlog \cup {[for |-> p.for, tries |-> p.tries]}
                                            ELSE backlog
        /\ UNCHANGED <<account, customer, owner>>
    BY <1>6 DEF D!ProvisionFails
  <2>2. p.for \in Payers /\ p.tries \in Nat
    BY <1>s, <2>1
  <2>3. backlog' \subseteq [for : Payers, tries : Nat]
    BY <1>0, <2>1, <2>2
  <2>4. /\ customer' \in [Payers -> Numbers \cup {None}] /\ owner' \in Seq(Payers)
        /\ account' \in [Payers -> Nat] /\ Len(owner) <= Len(owner')
    BY <1>0, <2>1
  <2>5. /\ \A v \in Payers : customer'[v] = customer[v] \/ customer'[v] = number[v]
        /\ \A v \in Payers :
             account'[v] = account[v] \/ (account'[v] \in 1..Len(owner) /\ owner[account'[v]] = v)
        /\ \A i \in 1..Len(owner) : owner'[i] = owner[i]
    BY <2>1
  <2>6. /\ D(b)!Nothing.at # "idle" => D(b)!Nothing.for \in Payers
        /\ D(b)!Nothing.at = "storing" =>
             D(b)!Nothing.opened \in 1..Len(owner') /\ owner'[D(b)!Nothing.opened] = D(b)!Nothing.for
    BY <1>n
  <2>7. QED
    BY <1>i, <1>n, <2>1, <2>3, <2>4, <2>5, <2>6, WorkerMoves
<1>7. QED
  BY <1>1, <1>2, <1>3, <1>4, <1>5, <1>6

\* A payment is made: its event says of the payer what Paystack knows.
LEMMA PayKeeps ==
  ASSUME NEW b, D(b)!Parameters, D(b)!IInv, NEW u \in Payers, D(b)!Pay(u)
  PROVE  D(b)!IInv'
<1>0. /\ payments \in Seq(D(b)!Payments) /\ Len(payments) \in Nat /\ D(b)!NumbersAreKnown
      /\ customer \in [Payers -> Numbers \cup {None}] /\ owner \in Seq(Payers)
      /\ number \in [Payers -> Numbers] /\ D(b)!PaymentsAreOfPayers
  BY WhatIsTyped DEF D!IInv
<1>1. PICK id \in {u, None}, to \in {customer[u], None}, a \in 0..Len(owner) :
        /\ a # 0 => owner[a] = u /\ id = None /\ to = None
        /\ payments' = Append(payments, [payer |-> u, id |-> id, to |-> to, into |-> a])
  BY DEF D!Pay
<1>2. /\ Len(payments) < MaxPayments
      /\ UNCHANGED <<number, account, customer, owner, provision, backlog, passedOn, events, jobs,
                     replays, settled, credits>>
  BY DEF D!Pay, D!accounts, D!ledger
<1> DEFINE p == [payer |-> u, id |-> id, to |-> to, into |-> a]
           n == Len(payments')
<1>3. /\ p \in D(b)!Payments /\ p.payer = u /\ p.id = id /\ p.to = to /\ p.into = a
  BY <1>0 DEF D!Payments
<1>4. payments' = Append(payments, p)
  BY <1>1
<1> HIDE DEF p
<1>5. /\ payments' \in Seq(D(b)!Payments) /\ n = Len(payments) + 1 /\ payments'[n] = p
      /\ \A r \in 1..Len(payments) : payments'[r] = payments[r]
      /\ 1..n = 1..Len(payments) \cup {n}
  BY <1>0, <1>3, <1>4, EntryIsAdded
<1> HIDE DEF n
<1>6. Len(payments') = n
  BY DEF n
<1>7. D(b)!TypedEvents'
  <2>1. n <= MaxPayments
    BY <1>0, <1>2, <1>5 DEF D!Parameters
  <2>2. credits' \subseteq [of : 1..n, to : Payers, nth : {1}, held : BOOLEAN]
    BY <1>2, <1>5 DEF D!IInv, D!TypedEvents
  <2>3. QED
    BY <1>2, <1>5, <1>6, <2>1, <2>2 DEF D!IInv, D!TypedEvents
<1>8. D(b)!TypedAccounts' /\ D(b)!AccountsAreOwn'
  BY <1>2 DEF D!IInv, D!TypedAccounts, D!AccountsAreOwn
<1>9. D(b)!NumbersAreKnown' /\ D(b)!CreditedOnce'
  BY <1>2 DEF D!IInv, D!NumbersAreKnown, D!CreditedOnce
<1>10. D(b)!CreditsAreSettled' /\ D(b)!ProcessedIsSettled'
  BY <1>2 DEF D!IInv, D!CreditsAreSettled, D!ProcessedIsSettled, D!EventOf
<1>11. D(b)!CreditedToThePayer'
  <2>1. \A c \in credits : c.of \in 1..Len(payments)
    BY WhatIsTyped
  <2>2. QED
    BY <1>2, <1>5, <2>1 DEF D!IInv, D!CreditedToThePayer
<1>12. D(b)!PaymentsAreOfPayers'
  <2>1. ASSUME NEW r \in 1..n
        PROVE  /\ payments'[r].id \in {payments'[r].payer, None}
               /\ payments'[r].into # 0 => /\ payments'[r].into \in 1..Len(owner)
                                           /\ owner[payments'[r].into] = payments'[r].payer
               /\ payments'[r].to # None =>
                    payments'[r].to \in passedOn \cup {number[payments'[r].payer]}
    <3>1. CASE r \in 1..Len(payments)
      BY <1>0, <1>5, <3>1 DEF D!PaymentsAreOfPayers
    <3>2. CASE r = n
      <4>1. a # 0 => a \in 1..Len(owner) /\ owner[a] = u
        BY <1>0, <1>1
      <4>2. to # None => to \in passedOn \cup {number[u]}
        BY <1>0 DEF D!NumbersAreKnown
      <4>3. QED
        BY <1>3, <1>5, <3>2, <4>1, <4>2
    <3>3. QED
      BY <1>5, <3>1, <3>2
  <2>2. QED
    BY <1>2, <1>6, <2>1 DEF D!PaymentsAreOfPayers
<1>13. QED
  BY <1>7, <1>8, <1>9, <1>10, <1>11, <1>12 DEF D!IInv

\* Events and jobs move, without a credit.
LEMMA EventsMove ==
  ASSUME NEW b, D(b)!IInv, UNCHANGED <<number, account, customer, owner, backlog, passedOn,
         payments, settled,
                           credits>>,
         provision' = provision \/ provision' = [w \in Workers |-> D(b)!Nothing],
         events' \in Seq(D(b)!Events), Len(events) <= Len(events'), jobs' \in Seq(D(b)!Jobs),
         replays' \subseteq 1..Len(events'),
         \A e \in 1..Len(events') :
           /\ events'[e].of \in 1..Len(payments)
           /\ events'[e].status = "processed" => settled[events'[e].of] # "none",
         \A j \in 1..Len(jobs') :
           /\ jobs'[j].row \in 1..Len(events')
           /\ jobs'[j].at = "marking" => settled[events'[jobs'[j].row].of] # "none"
  PROVE  D(b)!IInv'
<1>1. D(b)!Nothing \in D(b)!Provisions /\ D(b)!Nothing.at = "idle"
  BY DEF D!Nothing, D!Provisions
<1>2. D(b)!TypedAccounts'
  BY <1>1 DEF D!IInv, D!TypedAccounts
<1>3. D(b)!AccountsAreOwn'
  <2>1. CASE provision' = provision
    BY <2>1 DEF D!IInv, D!AccountsAreOwn
  <2>2. CASE provision' = [w \in Workers |-> D(b)!Nothing]
    BY <1>1, <2>2 DEF D!IInv, D!AccountsAreOwn
  <2>3. QED
    BY <2>1, <2>2
<1>4. D(b)!TypedEvents'
  BY DEF D!IInv, D!TypedEvents
<1>5. D(b)!NumbersAreKnown' /\ D(b)!CreditedOnce' /\ D(b)!CreditedToThePayer'
  BY DEF D!IInv, D!NumbersAreKnown, D!CreditedOnce, D!CreditedToThePayer
<1>6. D(b)!PaymentsAreOfPayers'
  BY DEF D!IInv, D!PaymentsAreOfPayers
<1>7. D(b)!CreditsAreSettled' /\ D(b)!ProcessedIsSettled'
  BY DEF D!IInv, D!CreditsAreSettled, D!ProcessedIsSettled, D!EventOf
<1>8. QED
  BY <1>2, <1>3, <1>4, <1>5, <1>6, <1>7 DEF D!IInv

\* An event names its payer, or a number that was the payer's.
LEMMA MatchedIsThePayer ==
  ASSUME NEW b, D(b)!Parameters, D(b)!IInv, NEW r \in 1..Len(payments),
         NEW u \in D(b)!Matched(payments[r]),
         u # payments[r].payer
  PROVE  u \in Payers /\ payments[r].to \in passedOn
<1> DEFINE p == payments[r]
<1>1. /\ p.payer \in Payers /\ number \in [Payers -> Numbers]
      /\ p.id \in {p.payer, None}
      /\ p.into # 0 => p.into \in 1..Len(owner) /\ owner[p.into] = p.payer
      /\ p.to # None => p.to \in passedOn \cup {number[p.payer]}
  BY WhatIsTyped DEF D!IInv, D!PaymentsAreOfPayers, D!Payments
<1>2. u \in Payers
  BY DEF D!Matched
<1>3. CASE p.into # 0
  <2>1. account[u] = p.into
    BY <1>3 DEF D!Matched
  <2>2. owner[p.into] = u
    BY <1>2, <1>3, <2>1 DEF D!IInv, D!AccountsAreOwn
  <2>3. QED
    BY <1>1, <1>3, <2>2
<1>4. CASE p.into = 0
  <2>1. u = p.id \/ number[u] = p.to
    BY <1>4 DEF D!Matched
  <2>2. u # p.id
    BY <1>1, <1>2 DEF D!Parameters
  <2>3. number[u] = p.to /\ p.to # None
    BY <1>1, <1>2, <2>1, <2>2 DEF D!Parameters
  <2>4. number[u] # number[p.payer]
    BY <1>1, <1>2 DEF D!IInv, D!AccountsAreOwn
  <2>5. QED
    BY <1>1, <1>2, <2>3, <2>4
<1>5. QED
  BY <1>3, <1>4

\* A payment is settled once, for good, and credited to who made it.
LEMMA CreditSettles ==
  ASSUME NEW b, D(b)!Parameters, D(b)!IInv, NEW r \in 1..Len(payments), D(b)!Credit(r)
  PROVE  /\ settled' \in [D(b)!References -> {"none", "unmatched", "processed"}] /\ settled'[r] # "none"
         /\ \A i \in 1..Len(payments) : settled[i] # "none" => settled'[i] # "none"
         /\ credits' \subseteq [of : 1..Len(payments), to : Payers, nth : {1}, held : BOOLEAN]
         /\ \A c \in credits' : settled'[c.of] # "none"
         /\ \A c, d \in credits' : c.of = d.of => c = d
         /\ \A c \in credits' : c.to # payments[c.of].payer => payments[c.of].to \in passedOn
<1>0. /\ settled \in [D(b)!References -> {"none", "unmatched", "processed"}]
      /\ credits \subseteq [of : 1..Len(payments), to : Payers, nth : {1}, held : BOOLEAN]
      /\ Len(payments) \in Nat /\ Len(payments) <= MaxPayments
      /\ D(b)!CreditsAreSettled /\ D(b)!CreditedOnce /\ D(b)!CreditedToThePayer
  BY WhatIsTyped DEF D!IInv
<1>1. 1..Len(payments) \subseteq D(b)!References
  BY <1>0 DEF D!References, D!Parameters
<1>2. /\ \A c \in credits : settled[c.of] # "none" /\ c.of \in 1..Len(payments)
      /\ \A c, d \in credits : c.of = d.of => c = d
      /\ \A c \in credits : c.to # payments[c.of].payer => payments[c.of].to \in passedOn
  BY <1>0 DEF D!CreditsAreSettled, D!CreditedOnce, D!CreditedToThePayer
<1>3. CASE settled[r] # "none"
  <2>1. settled' = settled /\ credits' = credits
    BY <1>3 DEF D!Credit, D!ledger
  <2>2. QED
    BY <1>0, <1>2, <1>3, <2>1
<1>4. ASSUME settled[r] = "none", NEW s \in {"unmatched", "processed"},
             settled' = [settled EXCEPT ![r] = s]
      PROVE  /\ settled' \in [D(b)!References -> {"none", "unmatched", "processed"}]
             /\ settled'[r] = s /\ s # "none"
             /\ \A i \in 1..Len(payments) : i # r => settled'[i] = settled[i]
  BY <1>0, <1>1, <1>4
<1>5. CASE settled[r] = "none" /\ D(b)!Matched(payments[r]) = {}
  <2>1. settled' = [settled EXCEPT ![r] = "unmatched"] /\ credits' = credits
    BY <1>5 DEF D!Credit
  <2>2. /\ settled' \in [D(b)!References -> {"none", "unmatched", "processed"}]
        /\ settled'[r] # "none" /\ \A i \in 1..Len(payments) : i # r => settled'[i] = settled[i]
    BY <1>4, <1>5, <2>1
  <2>3. QED
    BY <1>0, <1>2, <2>1, <2>2
<1>6. CASE settled[r] = "none" /\ D(b)!Matched(payments[r]) # {}
  <2>1. PICK u \in D(b)!Matched(payments[r]), held \in BOOLEAN :
          /\ settled' = [settled EXCEPT ![r] = "processed"]
          /\ credits' = credits \cup {[of |-> r, to |-> u, nth |-> 1, held |-> held]}
    BY <1>6 DEF D!Credit
  <2> DEFINE n == [of |-> r, to |-> u, nth |-> 1, held |-> held]
  <2>2. u \in Payers
    BY DEF D!Matched
  <2>3. n \in [of : 1..Len(payments), to : Payers, nth : {1}, held : BOOLEAN] /\ n.of = r /\ n.to = u
    BY <2>2
  <2>4. credits' = credits \cup {n}
    BY <2>1
  <2> HIDE DEF n
  <2>5. /\ settled' \in [D(b)!References -> {"none", "unmatched", "processed"}]
        /\ settled'[r] # "none" /\ \A i \in 1..Len(payments) : i # r => settled'[i] = settled[i]
    BY <1>4, <1>6, <2>1
  <2>6. \A c \in credits : c.of # r
    BY <1>2, <1>6
  <2>7. \A c, d \in credits' : c.of = d.of => c = d
    BY <1>2, <2>3, <2>4, <2>6
  <2>8. u # payments[r].payer => payments[r].to \in passedOn
    BY MatchedIsThePayer
  <2>9. \A c \in credits' : c.to # payments[c.of].payer => payments[c.of].to \in passedOn
    BY <1>2, <2>3, <2>4, <2>8
  <2>10. \A c \in credits' : settled'[c.of] # "none"
    BY <1>2, <2>3, <2>4, <2>5
  <2>11. credits' \subseteq [of : 1..Len(payments), to : Payers, nth : {1}, held : BOOLEAN]
    BY <1>0, <2>3, <2>4
  <2>12. QED
    BY <2>5, <2>7, <2>9, <2>10, <2>11
<1>7. QED
  BY <1>3, <1>5, <1>6

\* A job applies its event.
LEMMA ApplyKeeps ==
  ASSUME NEW b, D(b)!Parameters, D(b)!IInv, NEW j \in 1..Len(jobs), D(b)!Apply(j)
  PROVE  D(b)!IInv'
<1> DEFINE r == D(b)!EventOf(j).of
<1>0. /\ jobs \in Seq(D(b)!Jobs) /\ jobs[j].row \in 1..Len(events) /\ r \in 1..Len(payments)
      /\ \A e \in 1..Len(events) : events[e].of \in 1..Len(payments)
      /\ \A i \in 1..Len(jobs) : jobs[i].row \in 1..Len(events)
  BY WhatIsTyped
<1>1. /\ D(b)!Credit(r)
      /\ UNCHANGED <<number, account, customer, owner, provision, backlog, passedOn, payments, events,
                     replays>>
  BY DEF D!Apply, D!accounts
<1>2. PICK where \in {"marking", "failing"} : D(b)!Goto(j, where)
  BY DEF D!Apply
<1>3. where \in {"queued", "applying", "marking", "failing", "ended"}
  OBVIOUS
<1>4. /\ jobs' \in Seq(D(b)!Jobs) /\ Len(jobs') = Len(jobs)
      /\ jobs'[j].at = where /\ jobs'[j].row = jobs[j].row
      /\ \A i \in 1..Len(jobs) : i # j => jobs'[i] = jobs[i]
  BY <1>0, <1>2, <1>3, JobGoes
<1>5. events[jobs[j].row].of = r
  BY DEF D!EventOf
<1> HIDE DEF r
<1>6. /\ settled' \in [D(b)!References -> {"none", "unmatched", "processed"}] /\ settled'[r] # "none"
      /\ \A i \in 1..Len(payments) : settled[i] # "none" => settled'[i] # "none"
      /\ credits' \subseteq [of : 1..Len(payments), to : Payers, nth : {1}, held : BOOLEAN]
      /\ \A c \in credits' : settled'[c.of] # "none"
      /\ \A c, d \in credits' : c.of = d.of => c = d
      /\ \A c \in credits' : c.to # payments[c.of].payer => payments[c.of].to \in passedOn
  BY <1>0, <1>1, CreditSettles
<1>7. D(b)!TypedAccounts' /\ D(b)!AccountsAreOwn'
  BY <1>1 DEF D!IInv, D!TypedAccounts, D!AccountsAreOwn
<1>8. D(b)!NumbersAreKnown' /\ D(b)!PaymentsAreOfPayers'
  BY <1>1 DEF D!IInv, D!NumbersAreKnown, D!PaymentsAreOfPayers
<1>9. D(b)!TypedEvents'
  <2>1. \A i \in 1..Len(jobs') : jobs'[i].row \in 1..Len(events)
    BY <1>0, <1>4
  <2>2. QED
    BY <1>1, <1>4, <1>6, <2>1 DEF D!IInv, D!TypedEvents
<1>10. D(b)!ProcessedIsSettled'
  BY <1>0, <1>1, <1>6 DEF D!IInv, D!ProcessedIsSettled
<1>11. D(b)!CreditedOnce' /\ D(b)!CreditedToThePayer'
  BY <1>1, <1>6 DEF D!CreditedOnce, D!CreditedToThePayer
<1>12. D(b)!CreditsAreSettled'
  <2>1. ASSUME NEW i \in 1..Len(jobs'), jobs'[i].at = "marking"
        PROVE  settled'[events[jobs'[i].row].of] # "none"
    <3>1. CASE i = j
      BY <1>4, <1>5, <1>6, <3>1
    <3>2. CASE i # j
      <4>1. jobs'[i] = jobs[i] /\ i \in 1..Len(jobs)
        BY <1>4, <3>2
      <4>2. settled[events[jobs[i].row].of] # "none" /\ events[jobs[i].row].of \in 1..Len(payments)
        BY <1>0, <2>1, <4>1 DEF D!IInv, D!CreditsAreSettled, D!EventOf
      <4>3. QED
        BY <1>6, <4>1, <4>2
    <3>3. QED
      BY <3>1, <3>2
  <2>2. QED
    BY <1>1, <1>6, <2>1 DEF D!CreditsAreSettled, D!EventOf
<1>13. QED
  BY <1>7, <1>8, <1>9, <1>10, <1>11, <1>12 DEF D!IInv

\* What Paystack sends, and what becomes of it.
LEMMA InboxKeeps ==
  ASSUME NEW b, D(b)!IInv,
         \/ \E r \in 1..Len(payments) : D(b)!Receive(r)
         \/ \E j \in 1..Len(jobs) : D(b)!StartJob(j) \/ D(b)!ApplyFails(j)
             \/ D(b)!MarkProcessed(j) \/ D(b)!HandleError(j)
         \/ \E e \in 1..Len(events) : D(b)!Replay(e) \/ D(b)!ReplayUpdate(e)
         \/ D(b)!Crash
  PROVE  D(b)!IInv'
<1>0. /\ events \in Seq(D(b)!Events) /\ Len(events) \in Nat /\ jobs \in Seq(D(b)!Jobs)
                                         /\ Len(jobs) \in Nat
      /\ replays \subseteq 1..Len(events)
      /\ \A e \in 1..Len(events) : events[e] \in D(b)!Events /\ events[e].of \in 1..Len(payments)
      /\ \A j \in 1..Len(jobs) : jobs[j] \in D(b)!Jobs /\ jobs[j].row \in 1..Len(events)
  BY WhatIsTyped
<1>a. /\ \A e \in 1..Len(events) : events[e].status = "processed" => settled[events[e].of] # "none"
      /\ \A j \in 1..Len(jobs) :
           jobs[j].at = "marking" => settled[events[jobs[j].row].of] # "none"
  BY DEF D!IInv, D!ProcessedIsSettled, D!CreditsAreSettled, D!EventOf
<1>i. /\ UNCHANGED <<number, account, customer, owner, backlog, passedOn, payments, settled, credits>>
      /\ (provision' = provision \/ provision' = [w \in Workers |-> D(b)!Nothing])
  BY DEF D!Receive, D!StartJob, D!ApplyFails, D!MarkProcessed, D!HandleError, D!Replay,
         D!ReplayUpdate, D!Crash,
         D!accounts, D!ledger
<1>1. ASSUME NEW j \in 1..Len(jobs), NEW where \in {"queued", "applying", "failing", "ended"},
             D(b)!Goto(j, where), events' = events, replays' = replays
      PROVE  D(b)!IInv'
  <2>1. where \in {"queued", "applying", "marking", "failing", "ended"}
    OBVIOUS
  <2>2. /\ jobs' \in Seq(D(b)!Jobs) /\ Len(jobs') = Len(jobs)
        /\ jobs'[j].at = where /\ jobs'[j].row = jobs[j].row
        /\ \A i \in 1..Len(jobs) : i # j => jobs'[i] = jobs[i]
    BY <1>0, <1>1, <2>1, JobGoes
  <2>3. \A i \in 1..Len(jobs') : /\ jobs'[i].row \in 1..Len(events')
                                 /\ jobs'[i].at = "marking" =>
                                      settled[events'[jobs'[i].row].of] # "none"
    BY <1>0, <1>1, <1>a, <2>2
  <2>4. /\ events' \in Seq(D(b)!Events) /\ Len(events) <= Len(events')
            /\ replays' \subseteq 1..Len(events')
        /\ \A e \in 1..Len(events') :
             /\ events'[e].of \in 1..Len(payments)
             /\ events'[e].status = "processed" => settled[events'[e].of] # "none"
    BY <1>0, <1>1, <1>a
  <2>5. QED
    BY <1>i, <2>2, <2>3, <2>4, EventsMove
<1>2. ASSUME NEW j \in 1..Len(jobs), NEW s \in {"processed", "failed"}, D(b)!Goto(j, "ended"),
             D(b)!Mark(s, j),
             s = "processed" => jobs[j].at = "marking", replays' = replays
      PROVE  D(b)!IInv'
  <2> DEFINE e == jobs[j].row
  <2>1. e \in 1..Len(events) /\ events' = [events EXCEPT ![e].status = s]
        /\ s \in {"pending", "processed", "failed"}
    BY <1>0, <1>2 DEF D!Mark
  <2>2. "ended" \in {"queued", "applying", "marking", "failing", "ended"}
    OBVIOUS
  <2>3. /\ jobs' \in Seq(D(b)!Jobs) /\ Len(jobs') = Len(jobs)
        /\ jobs'[j].at = "ended" /\ jobs'[j].row = jobs[j].row
        /\ \A i \in 1..Len(jobs) : i # j => jobs'[i] = jobs[i]
    BY <1>0, <1>2, <2>2, JobGoes
  <2>4. s = "processed" => settled[events[e].of] # "none"
    BY <1>2, <1>a
  <2> HIDE DEF e
  <2>5. /\ events' \in Seq(D(b)!Events) /\ Len(events') = Len(events) /\ events'[e].status = s
        /\ \A i \in 1..Len(events) : events'[i].of = events[i].of
        /\ \A i \in 1..Len(events) : i # e => events'[i] = events[i]
    BY <1>0, <2>1, EventIsMarked
  <2>6. \A i \in 1..Len(events') :
          /\ events'[i].of \in 1..Len(payments)
          /\ events'[i].status = "processed" => settled[events'[i].of] # "none"
    BY <1>0, <1>a, <2>4, <2>5
  <2>7. \A i \in 1..Len(jobs') : /\ jobs'[i].row \in 1..Len(events')
                                 /\ jobs'[i].at = "marking" =>
                                      settled[events'[jobs'[i].row].of] # "none"
    BY <1>0, <1>a, <2>3, <2>5
  <2>8. Len(events) <= Len(events') /\ replays' \subseteq 1..Len(events')
    BY <1>0, <1>2, <2>5
  <2>9. QED
    BY <1>i, <2>3, <2>5, <2>6, <2>7, <2>8, EventsMove
<1>3. ASSUME events' = events, jobs' = jobs, replays' \subseteq 1..Len(events) PROVE D(b)!IInv'
  BY <1>0, <1>3, <1>a, <1>i, EventsMove
<1>4. ASSUME NEW e \in 1..Len(events), NEW v \in D(b)!Jobs, v.row = e, v.at = "queued",
             jobs' = Append(jobs, v), events' = [events EXCEPT ![e].status = "pending"],
             replays' \subseteq 1..Len(events)
      PROVE  D(b)!IInv'
  <2> DEFINE n == Len(jobs')
  <2>1. /\ jobs' \in Seq(D(b)!Jobs) /\ n = Len(jobs) + 1 /\ jobs'[n] = v
        /\ \A i \in 1..Len(jobs) : jobs'[i] = jobs[i]
        /\ 1..n = 1..Len(jobs) \cup {n}
    BY <1>0, <1>4, EntryIsAdded
  <2>2. "pending" \in {"pending", "processed", "failed"}
    OBVIOUS
  <2>3. /\ events' \in Seq(D(b)!Events) /\ Len(events') = Len(events) /\ events'[e].status = "pending"
        /\ \A i \in 1..Len(events) : events'[i].of = events[i].of
        /\ \A i \in 1..Len(events) : i # e => events'[i] = events[i]
    BY <1>0, <1>4, <2>2, EventIsMarked
  <2>4. \A i \in 1..Len(events') :
          /\ events'[i].of \in 1..Len(payments)
          /\ events'[i].status = "processed" => settled[events'[i].of] # "none"
    BY <1>0, <1>a, <2>3
  <2>5. \A i \in 1..n : /\ jobs'[i].row \in 1..Len(events')
                        /\ jobs'[i].at = "marking" => settled[events'[jobs'[i].row].of] # "none"
    BY <1>0, <1>4, <1>a, <2>1, <2>3
  <2>6. Len(events) <= Len(events') /\ replays' \subseteq 1..Len(events')
    BY <1>0, <1>4, <2>3
  <2>7. QED
    BY <1>i, <2>1, <2>3, <2>4, <2>5, <2>6, EventsMove
<1>5. ASSUME NEW r \in 1..Len(payments), D(b)!Receive(r) PROVE D(b)!IInv'
  <2> DEFINE v == [of |-> r, status |-> "pending"]
             k == [row |-> Len(events) + 1, tries |-> 0, at |-> "queued"]
             n == Len(events')
  <2>1. replays' = replays
    BY <1>5 DEF D!Receive
  <2>2. v \in D(b)!Events /\ v.of = r /\ v.status = "pending"
    BY DEF D!Events
  <2>3. k \in D(b)!Jobs /\ k.row = Len(events) + 1 /\ k.at = "queued"
    BY <1>0 DEF D!Jobs
  <2> HIDE DEF v, k
  <2>4. /\ events' = Append(events, v) /\ (jobs' = Append(jobs, k) \/ jobs' = jobs)
    BY <1>5 DEF D!Receive, v, k
  <2>5. /\ events' \in Seq(D(b)!Events) /\ n = Len(events) + 1 /\ events'[n] = v
        /\ \A i \in 1..Len(events) : events'[i] = events[i]
        /\ 1..n = 1..Len(events) \cup {n}
    BY <1>0, <2>2, <2>4, EntryIsAdded
  <2>6. \A i \in 1..n : /\ events'[i].of \in 1..Len(payments)
                        /\ events'[i].status = "processed" => settled[events'[i].of] # "none"
    BY <1>0, <1>a, <2>2, <2>5
  <2>7. CASE jobs' = jobs
    <3>1. \A i \in 1..Len(jobs') : /\ jobs'[i].row \in 1..n
                                   /\ jobs'[i].at = "marking" =>
                                        settled[events'[jobs'[i].row].of] # "none"
      BY <1>0, <1>a, <2>5, <2>7
    <3>2. Len(events) <= n /\ replays' \subseteq 1..n
      BY <1>0, <2>1, <2>5
    <3>3. QED
      BY <1>0, <1>i, <2>5, <2>6, <2>7, <3>1, <3>2, EventsMove
  <2>8. CASE jobs' = Append(jobs, k)
    <3> DEFINE m == Len(jobs')
    <3>1. /\ jobs' \in Seq(D(b)!Jobs) /\ m = Len(jobs) + 1 /\ jobs'[m] = k
          /\ \A i \in 1..Len(jobs) : jobs'[i] = jobs[i]
          /\ 1..m = 1..Len(jobs) \cup {m}
      BY <1>0, <2>3, <2>8, EntryIsAdded
    <3>2. \A i \in 1..m : /\ jobs'[i].row \in 1..n
                          /\ jobs'[i].at = "marking" => settled[events'[jobs'[i].row].of] # "none"
      BY <1>0, <1>a, <2>3, <2>5, <3>1
    <3>3. Len(events) <= n /\ replays' \subseteq 1..n
      BY <1>0, <2>1, <2>5
    <3>4. QED
      BY <1>0, <1>i, <2>5, <2>6, <3>1, <3>2, <3>3, EventsMove
  <2>9. QED
    BY <2>4, <2>7, <2>8
<1>6. ASSUME NEW j \in 1..Len(jobs), D(b)!StartJob(j) PROVE D(b)!IInv'
  <2> DEFINE where == IF D(b)!EventOf(j).status = "processed" THEN "ended" ELSE "applying"
             n == jobs[j].tries + 1
             v == [jobs[j] EXCEPT !.tries = n, !.at = where]
  <2>1. jobs' = [jobs EXCEPT ![j] = v] /\ events' = events /\ replays' = replays
    BY <1>0, <1>6 DEF D!StartJob
  <2>2. /\ where \in {"queued", "applying", "marking", "failing", "ended"} /\ where # "marking"
        /\ n \in Nat /\ jobs[j] \in D(b)!Jobs
    BY <1>0 DEF D!Jobs
  <2> HIDE DEF where, n
  <2>3. v \in D(b)!Jobs
    BY <2>2, Zenon DEF D!Jobs
  <2>4. v.at = where /\ v.row = jobs[j].row
    BY <2>2 DEF D!Jobs
  <2> HIDE DEF v
  <2>5. /\ jobs' \in Seq(D(b)!Jobs) /\ Len(jobs') = Len(jobs) /\ jobs'[j] = v
        /\ \A i \in 1..Len(jobs) : i # j => jobs'[i] = jobs[i]
    BY <1>0, <2>1, <2>3, EntryIsPut
  <2>6. \A i \in 1..Len(jobs') : /\ jobs'[i].row \in 1..Len(events')
                                 /\ jobs'[i].at = "marking" =>
                                      settled[events'[jobs'[i].row].of] # "none"
    BY <1>0, <1>a, <2>1, <2>2, <2>4, <2>5
  <2>7. /\ events' \in Seq(D(b)!Events) /\ Len(events) <= Len(events')
            /\ replays' \subseteq 1..Len(events')
        /\ \A e \in 1..Len(events') :
             /\ events'[e].of \in 1..Len(payments)
             /\ events'[e].status = "processed" => settled[events'[e].of] # "none"
    BY <1>0, <1>a, <2>1
  <2>8. QED
    BY <1>i, <2>5, <2>6, <2>7, EventsMove
<1>7. ASSUME NEW j \in 1..Len(jobs), D(b)!ApplyFails(j) \/ D(b)!MarkProcessed(j)
             \/ D(b)!HandleError(j) PROVE D(b)!IInv'
  <2>1. CASE D(b)!ApplyFails(j)
    BY <1>1, <2>1 DEF D!ApplyFails
  <2>2. CASE D(b)!MarkProcessed(j)
    <3>1. jobs[j].at = "marking" /\ replays' = replays
      BY <2>2 DEF D!MarkProcessed, D!At
    <3>2. CASE D(b)!Mark("processed", j) /\ D(b)!Goto(j, "ended")
      BY <1>2, <3>1, <3>2
    <3>3. CASE D(b)!Goto(j, "failing") /\ events' = events
      BY <1>1, <3>1, <3>3
    <3>4. QED
      BY <2>2, <3>2, <3>3 DEF D!MarkProcessed
  <2>3. CASE D(b)!HandleError(j)
    <3>1. replays' = replays
      BY <2>3 DEF D!HandleError
    <3>2. CASE D(b)!Goto(j, "queued") /\ events' = events
      BY <1>1, <3>1, <3>2
    <3>3. CASE D(b)!Goto(j, "ended") /\ D(b)!Mark("failed", j)
      BY <1>2, <3>1, <3>3
    <3>4. QED
      BY <2>3, <3>2, <3>3 DEF D!HandleError
  <2>4. QED
    BY <1>7, <2>1, <2>2, <2>3
<1>8. ASSUME NEW e \in 1..Len(events), D(b)!Replay(e) PROVE D(b)!IInv'
  BY <1>0, <1>3, <1>8 DEF D!Replay
<1>9. ASSUME NEW e \in 1..Len(events), D(b)!ReplayUpdate(e) PROVE D(b)!IInv'
  <2> DEFINE v == [row |-> e, tries |-> 0, at |-> "queued"]
  <2>1. /\ jobs' = Append(jobs, v) /\ events' = [events EXCEPT ![e].status = "pending"]
        /\ (replays' = replays \ {e} \/ replays' = replays)
    BY <1>9 DEF D!ReplayUpdate
  <2>2. v \in D(b)!Jobs /\ v.row = e /\ v.at = "queued"
    BY DEF D!Jobs
  <2> HIDE DEF v
  <2>3. jobs' = Append(jobs, v) /\ replays' \subseteq 1..Len(events)
        /\ events' = [events EXCEPT ![e].status = "pending"]
    BY <1>0, <1>9 DEF D!ReplayUpdate, v
  <2>4. QED
    BY <1>4, <2>2, <2>3
<1>10. CASE D(b)!Crash
  <2>1. /\ jobs' = [j \in 1..Len(jobs) |-> IF D(b)!At(j, "queued") THEN jobs[j]
                                           ELSE [jobs[j] EXCEPT !.at = "ended"]]
        /\ events' = events /\ replays' = {}
    BY <1>10 DEF D!Crash
  <2> DEFINE k(j) == [jobs[j] EXCEPT !.at = "ended"]
  <2>2. ASSUME NEW j \in 1..Len(jobs)
        PROVE  k(j) \in D(b)!Jobs /\ k(j).row = jobs[j].row /\ k(j).at = "ended"
    <3>1. jobs[j] \in D(b)!Jobs /\ "ended" \in {"queued", "applying", "marking", "failing", "ended"}
      BY <1>0
    <3>2. k(j) \in D(b)!Jobs
      BY <3>1, Zenon DEF D!Jobs
    <3>3. QED
      BY <3>1, <3>2 DEF D!Jobs
  <2>3. jobs' = [j \in 1..Len(jobs) |-> IF D(b)!At(j, "queued") THEN jobs[j] ELSE k(j)]
    BY <2>1
  <2> HIDE DEF k
  <2>4. ASSUME NEW j \in 1..Len(jobs)
        PROVE  /\ jobs'[j] \in D(b)!Jobs /\ jobs'[j].row = jobs[j].row
               /\ jobs'[j].at = "marking" => jobs[j].at = "marking"
    BY <1>0, <2>2, <2>3
  <2>5. jobs' \in Seq(D(b)!Jobs) /\ Len(jobs') = Len(jobs)
    BY <1>0, <2>3, <2>4
  <2>6. \A j \in 1..Len(jobs') : /\ jobs'[j].row \in 1..Len(events')
                                 /\ jobs'[j].at = "marking" =>
                                      settled[events'[jobs'[j].row].of] # "none"
    BY <1>0, <1>a, <2>1, <2>4, <2>5
  <2>7. /\ events' \in Seq(D(b)!Events) /\ Len(events) <= Len(events')
            /\ replays' \subseteq 1..Len(events')
        /\ \A e \in 1..Len(events') :
             /\ events'[e].of \in 1..Len(payments)
             /\ events'[e].status = "processed" => settled[events'[e].of] # "none"
    BY <1>0, <1>a, <2>1
  <2>8. QED
    BY <1>i, <2>5, <2>6, <2>7, EventsMove
<1>11. QED
  BY <1>5, <1>6, <1>7, <1>8, <1>9, <1>10

\* Deposits: a step keeps its invariant.
LEMMA DepositsStep == ASSUME NEW b, D(b)!Parameters, D(b)!IInv, [D(b)!Next]_(D(b)!vars) PROVE D(b)!IInv'
<1>1. CASE UNCHANGED D(b)!vars
  <2>1. UNCHANGED <<number, account, customer, owner, provision, backlog, passedOn, payments, events,
                    jobs, replays, settled, credits>>
    BY <1>1 DEF D!vars, D!accounts, D!inbox, D!ledger
  <2>2. /\ events \in Seq(D(b)!Events) /\ jobs \in Seq(D(b)!Jobs) /\ replays \subseteq 1..Len(events)
        /\ Len(events) \in Nat
        /\ \A e \in 1..Len(events) : events[e].of \in 1..Len(payments)
        /\ \A j \in 1..Len(jobs) : jobs[j].row \in 1..Len(events)
    BY WhatIsTyped
  <2>3. /\ \A e \in 1..Len(events) : events[e].status = "processed" => settled[events[e].of] # "none"
        /\ \A j \in 1..Len(jobs) :
             jobs[j].at = "marking" => settled[events[jobs[j].row].of] # "none"
    BY DEF D!IInv, D!ProcessedIsSettled, D!CreditsAreSettled, D!EventOf
  <2>4. QED
    BY <2>1, <2>2, <2>3, EventsMove
<1>2. ASSUME NEW u \in Payers, NEW p \in Numbers, D(b)!ChangeNumber(u, p) PROVE D(b)!IInv'
  BY <1>2, ChangeNumberKeeps
<1>3. ASSUME NEW w \in Workers,
             \/ \E u \in Payers : D(b)!ProvisionInline(w, u) \/ D(b)!ProvisionJob(w, u)
             \/ D(b)!EnsureCustomer(w) \/ D(b)!OpenAccount(w) \/ D(b)!StoreAccount(w)
                                           \/ D(b)!ProvisionFails(w)
      PROVE  D(b)!IInv'
  BY <1>3, ProvisionKeeps
<1>4. ASSUME NEW u \in Payers, D(b)!Pay(u) PROVE D(b)!IInv'
  BY <1>4, PayKeeps
<1>5. ASSUME NEW j \in 1..Len(jobs), D(b)!Apply(j) PROVE D(b)!IInv'
  BY <1>5, ApplyKeeps
<1>6. CASE \/ \E r \in 1..Len(payments) : D(b)!Receive(r)
           \/ \E j \in 1..Len(jobs) : D(b)!StartJob(j) \/ D(b)!ApplyFails(j)
               \/ D(b)!MarkProcessed(j) \/ D(b)!HandleError(j)
           \/ \E e \in 1..Len(events) : D(b)!Replay(e) \/ D(b)!ReplayUpdate(e)
           \/ D(b)!Crash
  BY <1>6, InboxKeeps
<1>7. QED
  BY <1>1, <1>2, <1>3, <1>4, <1>5, <1>6 DEF D!Next

\* Deposits: its invariant holds its properties.
LEMMA DepositsAreSafe == ASSUME NEW b, D(b)!IInv PROVE D(b)!CreditedOnce
       /\ D(b)!CreditedToThePayer /\ D(b)!ProcessedIsSettled
  BY DEF D!IInv

\* Deposits: the bounds say nothing of how it starts.
LEMMA BoundsAreLater == ASSUME NEW b, NEW c, D(b)!Init PROVE D(c)!Init
  BY DEF D!Init, D!Nothing, D!References

-----------------------------------------------------------------------------
(* The deposit dialog.                                                     *)

\* A new instance of the dialog.
LEMMA FreshDialog ==
  ASSUME NEW m \in Nat, NEW o \in BOOLEAN
  PROVE  /\ Q!Fresh(m, o) \in Q!Dialogs /\ Q!Fresh(m, o).mount = m /\ Q!Fresh(m, o).status = "idle"
         /\ Q!Fresh(m, o).timers = {} /\ Q!Fresh(m, o).open = o
  BY DEF Q!Fresh, Q!Dialogs

\* The deposit dialog: its invariant holds at first.
LEMMA CheckoutInit == Q!Init => Q!IInv
<1> SUFFICES ASSUME Q!Init PROVE Q!IInv
  OBVIOUS
<1>1. /\ aside = [wallet |-> FALSE, loading |-> TRUE] /\ view = Q!Fresh(0, FALSE) /\ record = Q!Shows(0)
      /\ asked = << >>
  BY DEF Q!Init
<1>2. /\ view \in Q!Dialogs /\ view.status = "idle" /\ view.timers = {}
  BY <1>1, FreshDialog
<1>3. << >> \in Seq(Q!Payments) /\ Q!Shows(0) \in [confirmed : Nat, optimistic : Nat, pending : BOOLEAN]
  BY DEF Q!Shows
<1>6. Q!Typed
  BY <1>1, <1>2, <1>3 DEF Q!Typed
<1>4. Q!UnderWayIsShown /\ Q!OnePaymentAtATime
  BY <1>1 DEF Q!UnderWayIsShown, Q!OnePaymentAtATime
<1>5. Q!PollingIsShown /\ Q!ShownIsPaid
  BY <1>1, <1>2 DEF Q!PollingIsShown, Q!ShownIsPaid, Q!Shows
<1>7. QED
  BY <1>4, <1>5, <1>6 DEF Q!IInv

\* What the invariant says of the entries of payments.
LEMMA WhatIsUnderWay ==
  ASSUME Q!IInv
  PROVE  /\ asked \in Seq(Q!Payments) /\ DOMAIN asked = 1..Len(asked)
         /\ aside \in [wallet : BOOLEAN, loading : BOOLEAN] /\ view \in Q!Dialogs
         /\ record \in [confirmed : Nat, optimistic : Nat, pending : BOOLEAN]
         /\ view.mount \in Nat /\ view.open \in BOOLEAN /\ aside.loading \in BOOLEAN
         /\ \A i \in 1..Len(asked) : asked[i] \in Q!Payments /\ asked[i].amount \in Amounts
<1>1. Q!Typed
  BY DEF Q!IInv
<1>2. asked \in Seq(Q!Payments) /\ DOMAIN asked = 1..Len(asked)
  BY <1>1 DEF Q!Typed
<1>3. \A i \in 1..Len(asked) : asked[i] \in Q!Payments
  BY <1>2
<1>4. QED
  BY <1>1, <1>2, <1>3 DEF Q!Typed, Q!Dialogs, Q!Payments

\* The page and its dialog move while nothing is under way, or the dialog stays as it is.
LEMMA PageKeeps ==
  ASSUME Q!IInv, asked' = asked, aside' \in [wallet : BOOLEAN, loading : BOOLEAN],
         view' \in Q!Dialogs, record' \in [confirmed : Nat, optimistic : Nat, pending : BOOLEAN],
         record' = record \/ record'.optimistic = record'.confirmed,
         \/ view' = view /\ (aside'.loading => aside.loading)
         \/ /\ view.status \notin {"initializing", "awaiting_payment"}
            /\ \/ view'.status = "idle" /\ view'.timers = {}
               \/ /\ view.status = "confirming" /\ view'.status = "success"
                  /\ view'.timers = {} /\ view'.mount = view.mount
         \/ /\ view'.mount = view.mount /\ view'.open
            /\ view'.status = view.status /\ view'.timers = view.timers
            /\ aside'.loading = aside.loading
  PROVE  Q!IInv'
<1>0. /\ asked \in Seq(Q!Payments) /\ DOMAIN asked = 1..Len(asked)
      /\ Q!UnderWayIsShown /\ Q!OnePaymentAtATime /\ Q!PollingIsShown /\ Q!ShownIsPaid
      /\ aside \in [wallet : BOOLEAN, loading : BOOLEAN]
  BY WhatIsUnderWay DEF Q!IInv
<1>1. Q!Typed'
  BY <1>0 DEF Q!Typed
<1>2. Q!ShownIsPaid'
  BY <1>0 DEF Q!ShownIsPaid
<1>3. \A i \in DOMAIN asked : Q!UnderWay(i)' <=> Q!UnderWay(i)
  BY DEF Q!UnderWay
<1>4. Q!UnderWayIsShown'
  <2>1. SUFFICES ASSUME NEW i \in DOMAIN asked, Q!UnderWay(i)
                 PROVE  /\ asked[i].mount = view'.mount /\ view'.open /\ ~aside'.loading
                        /\ view'.status = IF asked[i].step = "popup" THEN "awaiting_payment"
                                            ELSE "initializing"
    BY <1>3 DEF Q!UnderWayIsShown
  <2>2. /\ asked[i].mount = view.mount /\ view.open /\ ~aside.loading
        /\ view.status = IF asked[i].step = "popup" THEN "awaiting_payment" ELSE "initializing"
    BY <1>0, <2>1 DEF Q!UnderWayIsShown
  <2>3. view.status \in {"initializing", "awaiting_payment"}
    BY <2>2
  <2>4. QED
    BY <2>2, <2>3
<1>5. Q!OnePaymentAtATime'
  <2>1. \A i, j \in DOMAIN asked : Q!UnderWay(i)' /\ Q!UnderWay(j)' => i = j
    BY <1>0, <1>3 DEF Q!OnePaymentAtATime
  <2>2. \A i \in DOMAIN asked : asked'[i].step = "popup" => Q!UnderWay(i)'
    BY DEF Q!UnderWay
  <2>3. QED
    BY <1>4, <2>1, <2>2 DEF Q!OnePaymentAtATime, Q!UnderWayIsShown
<1>6. Q!PollingIsShown'
  BY <1>0 DEF Q!PollingIsShown
<1>7. QED
  BY <1>1, <1>2, <1>4, <1>5, <1>6 DEF Q!IInv

\* A submission that is under way goes a step further: the dialog, its own, says so.
LEMMA PaymentKeeps ==
  ASSUME Q!IInv, NEW i \in DOMAIN asked, Q!UnderWay(i),
         NEW step \in {"asked", "script", "popup", "paid", "ended"}, Q!Goes(i, step), aside' = aside,
         record' \in [confirmed : Nat, optimistic : Nat, pending : BOOLEAN],
         \/ record' = record \/ record'.optimistic = record'.confirmed
         \/ /\ step = "paid" /\ record'.pending
            /\ record'.optimistic = record'.confirmed + asked[i].amount,
         view' \in Q!Dialogs, view'.mount = view.mount, view'.open = view.open,
         view'.status = CASE step = "paid"  -> "confirming"
                            [] step = "ended" -> "idle"
                            [] step = "popup" -> "awaiting_payment"
                            [] OTHER -> "initializing",
         view'.timers = IF step = "paid" THEN {view.mount} ELSE view.timers
  PROVE  Q!IInv'
<1>0. /\ asked \in Seq(Q!Payments) /\ DOMAIN asked = 1..Len(asked)
      /\ Q!UnderWayIsShown /\ Q!OnePaymentAtATime /\ Q!PollingIsShown /\ Q!ShownIsPaid
      /\ aside \in [wallet : BOOLEAN, loading : BOOLEAN] /\ asked[i] \in Q!Payments
  BY WhatIsUnderWay DEF Q!IInv
<1> DEFINE e == [asked[i] EXCEPT !.step = step]
<1>1. asked' = [asked EXCEPT ![i] = e]
  BY <1>0 DEF Q!Goes
<1>2. e \in Q!Payments
  BY <1>0, Zenon DEF Q!Payments
<1>3. e.step = step /\ e.mount = asked[i].mount /\ e.amount = asked[i].amount
  BY <1>0 DEF Q!Payments
<1> HIDE DEF e
<1>4. /\ asked' \in Seq(Q!Payments) /\ Len(asked') = Len(asked) /\ asked'[i] = e
      /\ \A j \in 1..Len(asked) : j # i => asked'[j] = asked[j]
  BY <1>0, <1>1, <1>2, EntryIsPut
<1>5. DOMAIN asked' = DOMAIN asked
  BY <1>0, <1>4
<1>6. Q!Typed'
  BY <1>0, <1>4 DEF Q!Typed
<1>7. \A j \in DOMAIN asked : Q!UnderWay(j)' => j = i
  BY <1>0, <1>4 DEF Q!OnePaymentAtATime, Q!UnderWay
<1>8. asked[i].mount = view.mount /\ view.open /\ ~aside.loading
      /\ view.status \in {"initializing", "awaiting_payment"}
  BY <1>0 DEF Q!UnderWayIsShown
<1>9. Q!UnderWayIsShown'
  BY <1>3, <1>4, <1>5, <1>7, <1>8 DEF Q!UnderWayIsShown, Q!UnderWay
<1>10. Q!OnePaymentAtATime'
  <2>1. \A j, k \in DOMAIN asked' : Q!UnderWay(j)' /\ Q!UnderWay(k)' => j = k
    BY <1>5, <1>7
  <2>2. \A j \in DOMAIN asked' : asked'[j].step = "popup" => Q!UnderWay(j)'
    BY DEF Q!UnderWay
  <2>3. QED
    BY <1>9, <2>1, <2>2 DEF Q!OnePaymentAtATime, Q!UnderWayIsShown
<1>11. view.timers = {}
  BY <1>0, <1>8 DEF Q!PollingIsShown
<1>12. Q!PollingIsShown'
  <2>1. CASE step = "paid"
    <3>1. view'.timers = {view'.mount} /\ view'.status = "confirming"
      BY <2>1
    <3>2. i \in DOMAIN asked' /\ asked'[i].mount = view'.mount /\ asked'[i].step = "paid"
      BY <1>3, <1>4, <1>5, <1>8, <2>1
    <3>3. QED
      BY <3>1, <3>2 DEF Q!PollingIsShown
  <2>2. CASE step # "paid"
    <3>1. view'.timers = {} /\ view'.status \notin {"confirming", "success"}
      BY <1>11, <2>2
    <3>2. QED
      BY <3>1 DEF Q!PollingIsShown
  <2>3. QED
    BY <2>1, <2>2
<1>13. Q!ShownIsPaid'
  <2>1. CASE record'.optimistic = record'.confirmed
    BY <2>1 DEF Q!ShownIsPaid
  <2>2. CASE record' = record /\ record'.optimistic # record'.confirmed
    <3>1. record.pending
      BY <1>0, <2>2 DEF Q!ShownIsPaid
    <3>2. PICK j \in DOMAIN asked :
            asked[j].step = "paid" /\ record.optimistic = record.confirmed + asked[j].amount
      BY <1>0, <2>2 DEF Q!ShownIsPaid
    <3>3. j # i
      BY <3>2 DEF Q!UnderWay
    <3>4. asked'[j] = asked[j] /\ j \in DOMAIN asked'
      BY <1>0, <1>4, <1>5, <3>3
    <3>5. QED
      BY <2>2, <3>1, <3>2, <3>4 DEF Q!ShownIsPaid
  <2>3. CASE step = "paid" /\ record'.pending
             /\ record'.optimistic = record'.confirmed + asked[i].amount
    <3>1. i \in DOMAIN asked' /\ asked'[i].step = "paid"
          /\ asked'[i].amount = asked[i].amount
      BY <1>3, <1>4, <1>5, <2>3
    <3>2. QED
      BY <2>3, <3>1 DEF Q!ShownIsPaid
  <2>4. QED
    BY <2>1, <2>2, <2>3
<1>14. QED
  BY <1>6, <1>9, <1>10, <1>12, <1>13 DEF Q!IInv

\* The form is handed in.
LEMMA HandleSubmitKeeps ==
  ASSUME Q!IInv, Q!Parameters, Q!HandleSubmit
  PROVE  Q!IInv'
<1>0. /\ asked \in Seq(Q!Payments) /\ DOMAIN asked = 1..Len(asked)
      /\ Q!UnderWayIsShown /\ Q!OnePaymentAtATime /\ Q!PollingIsShown /\ Q!ShownIsPaid
      /\ aside \in [wallet : BOOLEAN, loading : BOOLEAN] /\ view \in Q!Dialogs
      /\ record \in [confirmed : Nat, optimistic : Nat, pending : BOOLEAN]
  BY WhatIsUnderWay DEF Q!IInv
<1> DEFINE p == [mount |-> view.mount, amount |-> view.amount, step |-> "asked"]
<1>1. /\ view.open /\ ~aside.loading /\ view.status = "idle"
      /\ Q!ValidateDepositAmount(view.amount)
      /\ view' = [view EXCEPT !.status = "initializing"] /\ asked' = Append(asked, p)
      /\ aside' = aside /\ record' = record
  BY DEF Q!HandleSubmit, Q!FormEnabled, Q!Attended
<1>2. view.amount \in Amounts
  <2>1. view.amount \in Amounts \cup {0} /\ ~(0 >= MinDeposit)
    BY <1>0 DEF Q!Dialogs, Q!Parameters
  <2>2. QED
    BY <1>1, <2>1 DEF Q!ValidateDepositAmount
<1>3. p \in Q!Payments /\ p.step = "asked" /\ p.mount = view.mount
  BY <1>0, <1>2 DEF Q!Payments, Q!Dialogs
<1> HIDE DEF p
<1> DEFINE n == Len(asked')
<1>4. /\ asked' \in Seq(Q!Payments) /\ n = Len(asked) + 1 /\ asked'[n] = p
      /\ \A j \in 1..Len(asked) : asked'[j] = asked[j]
      /\ 1..n = 1..Len(asked) \cup {n} /\ Len(asked) \in Nat
  BY <1>0, <1>1, <1>3, EntryIsAdded
<1>5. DOMAIN asked' = DOMAIN asked \cup {n} /\ n \notin DOMAIN asked
  BY <1>0, <1>4
<1> HIDE DEF n
<1>6. "initializing" \in {"idle", "initializing", "awaiting_payment", "confirming", "success"}
  OBVIOUS
<1>7. view' \in Q!Dialogs
  BY <1>0, <1>1, <1>6, Zenon DEF Q!Dialogs
<1>8. /\ view'.mount = view.mount /\ view'.open /\ view'.status = "initializing"
      /\ view'.timers = view.timers
  BY <1>0, <1>1 DEF Q!Dialogs
<1>9. Q!Typed'
  BY <1>0, <1>1, <1>4, <1>7 DEF Q!Typed
<1>10. \A j \in DOMAIN asked : ~Q!UnderWay(j)
  BY <1>0, <1>1 DEF Q!UnderWayIsShown
<1>11. \A j \in DOMAIN asked' : Q!UnderWay(j)' => j = n
  BY <1>0, <1>4, <1>5, <1>10 DEF Q!UnderWay
<1>12. Q!UnderWayIsShown'
  BY <1>1, <1>3, <1>4, <1>8, <1>11 DEF Q!UnderWayIsShown
<1>13. Q!OnePaymentAtATime'
  BY <1>3, <1>4, <1>11 DEF Q!OnePaymentAtATime, Q!UnderWay
<1>14. Q!PollingIsShown'
  BY <1>0, <1>1, <1>8 DEF Q!PollingIsShown
<1>15. Q!ShownIsPaid'
  BY <1>0, <1>1, <1>4, <1>5 DEF Q!ShownIsPaid
<1>16. QED
  BY <1>9, <1>12, <1>13, <1>14, <1>15 DEF Q!IInv

\* The page is asked for the wallet again.
LEMMA RefreshKeeps ==
  ASSUME Q!IInv, NEW d \in Q!Dialogs, d.mount = view.mount, d.timers \subseteq {d.mount},
         view.status = "confirming",
         d = view \/ (d.status = "success" /\ d.timers = {}),
         Q!Refresh(d), UNCHANGED <<record, asked>>
  PROVE  Q!IInv'
<1>0. /\ aside \in [wallet : BOOLEAN, loading : BOOLEAN]
      /\ record \in [confirmed : Nat, optimistic : Nat, pending : BOOLEAN]
  BY WhatIsUnderWay
<1>1. d.mount + 1 \in Nat /\ d.open \in BOOLEAN /\ TRUE \in BOOLEAN
  BY DEF Q!Dialogs
<1>2. CASE storage
  <2> DEFINE f == Q!Fresh(d.mount + 1, d.open)
             t == d.timers \ {d.mount}
  <2>1. f \in Q!Dialogs /\ f.status = "idle"
    BY <1>1, FreshDialog
  <2>2. aside' = [aside EXCEPT !.loading = TRUE] /\ view' = [f EXCEPT !.timers = t]
    BY <1>2 DEF Q!Refresh
  <2>3. t = {} /\ t \in SUBSET Nat
    OBVIOUS
  <2> HIDE DEF f, t
  <2>4. view' \in Q!Dialogs
    BY <2>1, <2>2, <2>3, Zenon DEF Q!Dialogs
  <2>5. view'.status = "idle" /\ view'.timers = {}
    BY <2>1, <2>2, <2>3 DEF Q!Dialogs
  <2>6. aside' \in [wallet : BOOLEAN, loading : BOOLEAN]
    BY <1>0, <2>2
  <2>7. QED
    BY <1>0, <2>4, <2>5, <2>6, PageKeeps
<1>3. CASE ~storage
  <2>1. view' = d /\ aside' = aside
    BY <1>3 DEF Q!Refresh
  <2>2. QED
    BY <1>0, <2>1, PageKeeps
<1>4. QED
  BY <1>2, <1>3

\* The deposit dialog: a step keeps its invariant.
LEMMA CheckoutStep == Q!Parameters /\ Q!IInv /\ [Q!Next]_Q!vars => Q!IInv'
<1> SUFFICES ASSUME Q!Parameters, Q!IInv, [Q!Next]_Q!vars PROVE Q!IInv'
  OBVIOUS
<1>0. /\ asked \in Seq(Q!Payments) /\ DOMAIN asked = 1..Len(asked)
      /\ Q!UnderWayIsShown /\ Q!OnePaymentAtATime /\ Q!PollingIsShown
      /\ aside \in [wallet : BOOLEAN, loading : BOOLEAN] /\ view \in Q!Dialogs
      /\ record \in [confirmed : Nat, optimistic : Nat, pending : BOOLEAN]
  BY WhatIsUnderWay DEF Q!IInv
<1>1. CASE UNCHANGED Q!vars
  BY <1>0, <1>1, PageKeeps DEF Q!vars
<1>2. CASE Q!LoadWallet
  <2>1. view' = view /\ asked' = asked
    BY <1>2 DEF Q!LoadWallet
  <2>2. CASE \E n \in OnChain : record' = Q!SetConfirmed(n) /\ aside' = [wallet |-> TRUE,
         loading |-> FALSE]
    <3>1. PICK n \in OnChain :
            record' = Q!SetConfirmed(n) /\ aside' = [wallet |-> TRUE, loading |-> FALSE]
      BY <2>2
    <3>2. /\ aside' \in [wallet : BOOLEAN, loading : BOOLEAN] /\ ~aside'.loading
      BY <3>1
    <3>3. n \in Nat
      BY DEF Q!Parameters
    <3>4. /\ Q!Shows(n) \in [confirmed : Nat, optimistic : Nat, pending : BOOLEAN]
          /\ Q!Shows(n).optimistic = Q!Shows(n).confirmed
      BY <3>3 DEF Q!Shows
    <3>5. QED
      BY <1>0, <2>1, <3>1, <3>2, <3>4, PageKeeps DEF Q!SetConfirmed
  <2>3. CASE record' = record /\ aside' = [aside EXCEPT !.loading = FALSE]
    <3>1. aside' \in [wallet : BOOLEAN, loading : BOOLEAN] /\ ~aside'.loading
      BY <1>0, <2>3
    <3>2. QED
      BY <1>0, <2>1, <2>3, <3>1, PageKeeps
  <2>4. QED
    BY <1>2, <2>2, <2>3 DEF Q!LoadWallet
<1>3. CASE Q!ChangeSession
  BY <1>0, <1>3, PageKeeps DEF Q!ChangeSession
<1>4. CASE Q!Reload
  <2>1. /\ aside' = [wallet |-> FALSE, loading |-> TRUE] /\ view' = Q!Fresh(0, FALSE)
        /\ record' = Q!Shows(0) /\ asked' = << >>
    BY <1>4 DEF Q!Reload
  <2>2. /\ view' \in Q!Dialogs /\ view'.status = "idle" /\ view'.timers = {}
    BY <2>1, FreshDialog
  <2>3. Q!Typed'
    <3>1. << >> \in Seq(Q!Payments)
          /\ Q!Shows(0) \in [confirmed : Nat, optimistic : Nat, pending : BOOLEAN]
      BY DEF Q!Shows
    <3>2. [wallet |-> FALSE, loading |-> TRUE] \in [wallet : BOOLEAN, loading : BOOLEAN]
      OBVIOUS
    <3>3. QED
      BY <2>1, <2>2, <3>1, <3>2 DEF Q!Typed
  <2>4. Q!UnderWayIsShown' /\ Q!OnePaymentAtATime'
    BY <2>1 DEF Q!UnderWayIsShown, Q!OnePaymentAtATime
  <2>5. Q!PollingIsShown' /\ Q!ShownIsPaid'
    BY <2>1, <2>2 DEF Q!PollingIsShown, Q!ShownIsPaid, Q!Shows
  <2>6. QED
    BY <2>3, <2>4, <2>5 DEF Q!IInv
<1>5. CASE Q!Open
  <2>1. view' = [view EXCEPT !.open = TRUE] /\ UNCHANGED <<aside, record, asked>>
        /\ TRUE \in BOOLEAN
    BY <1>5 DEF Q!Open
  <2>2. view' \in Q!Dialogs
    BY <1>0, <2>1, Zenon DEF Q!Dialogs
  <2>3. /\ view'.mount = view.mount /\ view'.open
        /\ view'.status = view.status /\ view'.timers = view.timers
    BY <1>0, <2>1 DEF Q!Dialogs
  <2>4. QED
    BY <1>0, <2>1, <2>2, <2>3, PageKeeps
<1>6. CASE Q!RequestClose
  <2> DEFINE f == Q!Fresh(view.mount, FALSE)
             t == view.timers \ {view.mount}
  <2>1. /\ view.status \notin {"initializing", "awaiting_payment"}
        /\ view' = [f EXCEPT !.timers = t] /\ UNCHANGED <<aside, record, asked>>
    BY <1>6 DEF Q!RequestClose, Q!Attended, Q!Busy
  <2>2. f \in Q!Dialogs /\ f.status = "idle"
    BY <1>0, FreshDialog DEF Q!Dialogs
  <2>3. t = {} /\ t \in SUBSET Nat
    BY <1>0 DEF Q!PollingIsShown
  <2> HIDE DEF f, t
  <2>4. view' \in Q!Dialogs
    BY <2>1, <2>2, <2>3, Zenon DEF Q!Dialogs
  <2>5. view'.status = "idle" /\ view'.timers = {}
    BY <2>1, <2>2, <2>3 DEF Q!Dialogs
  <2>6. QED
    BY <1>0, <2>1, <2>4, <2>5, PageKeeps
<1>7. CASE Q!HandleSubmit
  BY <1>7, HandleSubmitKeeps
<1>8. ASSUME NEW a \in Amounts \cup {0}, Q!EnterAmount(a) PROVE Q!IInv'
  <2>1. view' = [view EXCEPT !.amount = a] /\ UNCHANGED <<aside, record, asked>> /\ view.open
    BY <1>8 DEF Q!EnterAmount, Q!FormEnabled, Q!Attended
  <2>2. view' \in Q!Dialogs
    BY <1>0, <2>1, Zenon DEF Q!Dialogs
  <2>3. /\ view'.mount = view.mount /\ view'.open
        /\ view'.status = view.status /\ view'.timers = view.timers
    BY <1>0, <2>1 DEF Q!Dialogs
  <2>4. QED
    BY <1>0, <2>1, <2>2, <2>3, PageKeeps
<1>9. ASSUME NEW i \in DOMAIN asked, Q!UnderWay(i)
      PROVE  /\ asked[i].mount = view.mount /\ view.status # "confirming" /\ view.timers = {}
             /\ view.status = IF asked[i].step = "popup" THEN "awaiting_payment"
                                ELSE "initializing"
             /\ \A s \in {"idle", "awaiting_payment"} :
                  LET d == Q!Sets(i, s)
                  IN  /\ d \in Q!Dialogs /\ d.mount = view.mount /\ d.open = view.open
                      /\ d.status = s /\ d.timers = view.timers
  <2>1. /\ asked[i].mount = view.mount
        /\ view.status = IF asked[i].step = "popup" THEN "awaiting_payment" ELSE "initializing"
    BY <1>0, <1>9 DEF Q!UnderWayIsShown
  <2>2. view.status # "confirming" /\ view.timers = {}
    BY <1>0, <2>1 DEF Q!PollingIsShown
  <2>3. ASSUME NEW s \in {"idle", "awaiting_payment"}
        PROVE  LET d == Q!Sets(i, s)
               IN  /\ d \in Q!Dialogs /\ d.mount = view.mount /\ d.open = view.open
                   /\ d.status = s /\ d.timers = view.timers
    <3>1. Q!Sets(i, s) = [view EXCEPT !.status = s]
      BY <2>1 DEF Q!Sets
    <3>2. s \in {"idle", "initializing", "awaiting_payment", "confirming", "success"}
      OBVIOUS
    <3>3. [view EXCEPT !.status = s] \in Q!Dialogs
      BY <1>0, <3>2, Zenon DEF Q!Dialogs
    <3>4. QED
      BY <1>0, <3>1, <3>3 DEF Q!Dialogs
  <2>4. QED
    BY <2>1, <2>2, <2>3
<1>10. ASSUME NEW i \in DOMAIN asked, Q!Initialized(i) PROVE Q!IInv'
  <2>1. asked[i].step = "asked" /\ Q!UnderWay(i) /\ UNCHANGED <<aside, record>>
    BY <1>10 DEF Q!Initialized, Q!UnderWay
  <2>2. CASE count = "ready"
    <3>1. Q!Goes(i, "popup") /\ view' = Q!Sets(i, "awaiting_payment")
      BY <1>10, <2>2 DEF Q!Initialized
    <3>2. QED
      BY <1>0, <1>9, <2>1, <3>1, PaymentKeeps
  <2>3. CASE count # "ready"
    <3>1. Q!Goes(i, "script") /\ view' = view
      BY <1>10, <2>3 DEF Q!Initialized
    <3>2. view'.status = "initializing" /\ view'.timers = view.timers
      BY <1>9, <2>1, <3>1
    <3>3. QED
      BY <1>0, <2>1, <3>1, <3>2, PaymentKeeps
  <2>4. QED
    BY <2>2, <2>3
<1>11. ASSUME NEW i \in DOMAIN asked, Q!InitializeFails(i) PROVE Q!IInv'
  <2>1. /\ Q!UnderWay(i) /\ Q!Goes(i, "ended") /\ view' = Q!Sets(i, "idle")
        /\ UNCHANGED <<aside, record>>
    BY <1>11 DEF Q!InitializeFails, Q!UnderWay
  <2>2. QED
    BY <1>0, <1>9, <2>1, PaymentKeeps
<1>12. ASSUME NEW i \in DOMAIN asked, Q!ScriptEvent(i) PROVE Q!IInv'
  <2>1. Q!UnderWay(i) /\ UNCHANGED <<aside, record>>
    BY <1>12 DEF Q!ScriptEvent, Q!UnderWay
  <2>2. CASE Q!Goes(i, "popup") /\ view' = Q!Sets(i, "awaiting_payment")
    BY <1>0, <1>9, <2>1, <2>2, PaymentKeeps
  <2>3. CASE Q!Goes(i, "ended") /\ view' = Q!Sets(i, "idle")
    BY <1>0, <1>9, <2>1, <2>3, PaymentKeeps
  <2>4. QED
    BY <1>12, <2>2, <2>3 DEF Q!ScriptEvent
<1>13. ASSUME NEW i \in DOMAIN asked, Q!OnSuccess(i) PROVE Q!IInv'
  <2> DEFINE n == record.confirmed + asked[i].amount
             s == [view EXCEPT !.status = "confirming"]
             t == s.timers \cup {asked[i].mount}
  <2>1. Q!UnderWay(i) /\ Q!Goes(i, "paid") /\ aside' = aside
    BY <1>13 DEF Q!OnSuccess, Q!UnderWay
  <2>2. asked[i].mount = view.mount /\ view.timers = {} /\ asked[i].amount \in Nat
    BY <1>0, <1>9, <2>1, WhatIsUnderWay DEF Q!Parameters
  <2>3. /\ record' = [record EXCEPT !.optimistic = n, !.pending = TRUE]
        /\ view' = [s EXCEPT !.timers = t]
    BY <1>13, <2>2 DEF Q!OnSuccess, Q!Sets
  <2>4. n \in Nat
    BY <1>0, <2>2
  <2>5. "confirming" \in {"idle", "initializing", "awaiting_payment", "confirming", "success"}
    OBVIOUS
  <2>6. s \in Q!Dialogs
    BY <1>0, <2>5, Zenon DEF Q!Dialogs
  <2>7. s.timers = view.timers /\ s.mount = view.mount /\ s.open = view.open
        /\ s.status = "confirming"
    BY <1>0 DEF Q!Dialogs
  <2>8. t = {view.mount} /\ t \in SUBSET Nat
    BY <1>0, <2>2, <2>7 DEF Q!Dialogs
  <2> HIDE DEF n, s, t
  <2>9. /\ record' \in [confirmed : Nat, optimistic : Nat, pending : BOOLEAN]
        /\ record'.pending /\ record'.optimistic = n /\ record'.confirmed = record.confirmed
    BY <1>0, <2>3, <2>4
  <2>10. view' \in Q!Dialogs
    BY <2>3, <2>6, <2>8, Zenon DEF Q!Dialogs
  <2>11. /\ view'.timers = {view.mount} /\ view'.mount = view.mount
         /\ view'.open = view.open /\ view'.status = "confirming"
    BY <2>3, <2>6, <2>7, <2>8 DEF Q!Dialogs
  <2>12. QED
    BY <2>1, <2>9, <2>10, <2>11, PaymentKeeps DEF n
<1>14. ASSUME NEW i \in DOMAIN asked, Q!OnCancel(i) PROVE Q!IInv'
  <2>1. /\ Q!UnderWay(i) /\ Q!Goes(i, "ended") /\ view' = Q!Sets(i, "idle")
        /\ aside' = aside /\ record' = Q!Shows(record.confirmed)
    BY <1>14 DEF Q!OnCancel, Q!UnderWay
  <2>2. /\ record' \in [confirmed : Nat, optimistic : Nat, pending : BOOLEAN]
        /\ record'.optimistic = record'.confirmed
    BY <1>0, <2>1 DEF Q!Shows
  <2>3. QED
    BY <1>9, <2>1, <2>2, PaymentKeeps
<1>15. ASSUME NEW m \in view.timers, Q!Poll(m) PROVE Q!IInv'
  <2>1. Q!Refresh(view) /\ UNCHANGED <<record, asked>>
    BY <1>15 DEF Q!Poll
  <2>2. view.status = "confirming" /\ view.timers \subseteq {view.mount}
    BY <1>0 DEF Q!PollingIsShown
  <2>3. QED
    BY <1>0, <2>1, <2>2, RefreshKeeps
<1>16. ASSUME NEW m \in view.timers, Q!PollDeadline(m) PROVE Q!IInv'
  <2> DEFINE t == view.timers \ {m}
             d == [view EXCEPT !.timers = t, !.status = "success"]
  <2>1. view.status = "confirming" /\ view.timers \subseteq {view.mount} /\ m = view.mount
    BY <1>0 DEF Q!PollingIsShown
  <2>2. [[view EXCEPT !.timers = @ \ {m}] EXCEPT !.status = "success"] = d
    BY <1>0 DEF Q!Dialogs
  <2>3. Q!Refresh(d) /\ UNCHANGED <<record, asked>>
    BY <1>16, <2>1, <2>2 DEF Q!PollDeadline
  <2>4. t = {} /\ t \in SUBSET Nat
        /\ "success" \in {"idle", "initializing", "awaiting_payment", "confirming", "success"}
    BY <2>1
  <2> HIDE DEF t
  <2>5. d \in Q!Dialogs
    BY <1>0, <2>4, Zenon DEF Q!Dialogs
  <2>6. d.mount = view.mount /\ d.status = "success" /\ d.timers = {}
    BY <1>0, <2>4 DEF Q!Dialogs
  <2> HIDE DEF d
  <2>7. QED
    BY <2>1, <2>3, <2>5, <2>6, RefreshKeeps
<1>17. QED
  BY <1>1, <1>2, <1>3, <1>4, <1>5, <1>6, <1>7, <1>8, <1>10, <1>11, <1>12, <1>13, <1>14, <1>15, <1>16
     DEF Q!Next

\* The deposit dialog: its invariant holds its properties.
LEMMA CheckoutIsSafe == Q!IInv => Q!OnePaymentAtATime /\ Q!PollingIsShown /\ Q!ShownIsPaid
  BY DEF Q!IInv

-----------------------------------------------------------------------------
(* What a user does: each behaviour is one component's.                    *)

everything == <<focus, server, dialogue, pages>>

\* profile/page.tsx, profile.ts: whatever is clicked, closed and answered meanwhile, an account is
\* only deleted by a user who waited and typed the phrase, and a deletion is dated once.
THEOREM DeletionsAreAlwaysMeant == Spec => []DeletionsAreMeant
<1> DEFINE Sound == focus = "deletion" => X!IInv
<1>1. Init => Sound
  BY InstancesAssumption, DeletionInit DEF Init, InstancesAssumption
<1>2. Sound /\ [Next]_everything => Sound'
  <2>1. SUFFICES ASSUME Sound, [Next]_everything, focus' = "deletion" PROVE X!IInv'
    OBVIOUS
  <2>2. focus = "deletion" /\ X!IInv
    BY <2>1 DEF Next, everything
  <2>3. [X!Next]_(X!vars)
    <3>1. CASE UNCHANGED everything
      BY <3>1 DEF everything, server, accounts, deposits, kyc, limits, dialogue, pages, X!vars
    <3>2. CASE Next
      BY <2>2, <3>2 DEF Next, AtTheServer, OnThePages
    <3>3. QED
      BY <2>1, <3>1, <3>2
  <2>4. QED
    BY <2>2, <2>3, InstancesAssumption, DeletionStep DEF InstancesAssumption
<1>3. Sound => DeletionsAreMeant
  BY InstancesAssumption, DeletionIsSafe DEF DeletionsAreMeant, InstancesAssumption
<1>4. QED
  BY <1>1, <1>2, <1>3, PTL DEF Spec, everything

\* useTradeNotifications.ts, NotificationTray.tsx: a tab has one stream or one timer for the next,
\* however often it loses it or its user signs in and out, and a tray's unread entries are its newest.
THEOREM StreamsAreOnePerTab == Spec => []OneStreamPerTab
<1> DEFINE Sound == focus = "tray" => E!IInv
<1>1. Init => Sound
  BY InstancesAssumption, TrayInit DEF Init, InstancesAssumption
<1>2. Sound /\ [Next]_everything => Sound'
  <2>1. SUFFICES ASSUME Sound, [Next]_everything, focus' = "tray" PROVE E!IInv'
    OBVIOUS
  <2>2. focus = "tray" /\ E!IInv
    BY <2>1 DEF Next, everything
  <2>3. [E!Next]_(E!vars)
    <3>1. CASE UNCHANGED everything
      BY <3>1 DEF everything, server, accounts, deposits, kyc, limits, dialogue, pages, E!vars
    <3>2. CASE Next
      BY <2>2, <3>2 DEF Next, AtTheServer, OnThePages
    <3>3. QED
      BY <2>1, <3>1, <3>2
  <2>4. QED
    BY <2>2, <2>3, InstancesAssumption, TrayStep DEF InstancesAssumption
<1>3. Sound => OneStreamPerTab
  BY InstancesAssumption, TrayIsSafe DEF OneStreamPerTab, InstancesAssumption
<1>4. QED
  BY <1>1, <1>2, <1>3, PTL DEF Spec, everything

\* WithdrawModal.tsx: a form that is submitted again, after an error, a reload or an edit, does not
\* withdraw twice what it withdrew.
THEOREM RetriesNeverDebitTwice == Spec => []RetriesDebitOnce
<1> DEFINE Sound == focus = "wallet" => W!IInv
<1>1. Init => Sound
  BY InstancesAssumption, WalletInit DEF Init, InstancesAssumption
<1>2. Sound /\ [Next]_everything => Sound'
  <2>1. SUFFICES ASSUME Sound, [Next]_everything, focus' = "wallet" PROVE W!IInv'
    OBVIOUS
  <2>2. focus = "wallet" /\ W!IInv
    BY <2>1 DEF Next, everything
  <2>3. [W!Next]_(W!vars)
    <3>1. CASE UNCHANGED everything
      BY <3>1 DEF everything, server, accounts, deposits, kyc, limits, dialogue, pages, W!vars,
             W!screen, W!wires,
                     W!server
    <3>2. CASE Next
      BY <2>2, <3>2 DEF Next, AtTheServer, OnThePages
    <3>3. QED
      BY <2>1, <3>1, <3>2
  <2>4. QED
    BY <2>2, <2>3, InstancesAssumption, WalletStep DEF InstancesAssumption
<1>3. Sound => RetriesDebitOnce
  BY InstancesAssumption, WalletIsSafe DEF RetriesDebitOnce, InstancesAssumption
<1>4. QED
  BY <1>1, <1>2, <1>3, PTL DEF Spec, everything

\* auth/verify/page.tsx, AuthContext.tsx, apiFetch.ts: whichever tab signs in or out, the cookie and
\* the token are of one session; and a tab that verified its number has its own session or, when the
\* 401 of an older request cleared it, none, but never another's or half of one.
THEOREM SignInsStayWhole == Spec => []SignInsAreWhole
<1> DEFINE Sound == focus = "signin" => S!IInv
<1>1. Init => Sound
  BY InstancesAssumption, SignInInit DEF Init, InstancesAssumption
<1>2. Sound /\ [Next]_everything => Sound'
  <2>1. SUFFICES ASSUME Sound, [Next]_everything, focus' = "signin" PROVE S!IInv'
    OBVIOUS
  <2>2. focus = "signin" /\ S!IInv
    BY <2>1 DEF Next, everything
  <2>3. [S!Next]_(S!vars)
    <3>1. CASE UNCHANGED everything
      BY <3>1 DEF everything, server, accounts, deposits, kyc, limits, dialogue, pages, S!vars
    <3>2. CASE Next
      BY <2>2, <3>2 DEF Next, AtTheServer, OnThePages
    <3>3. QED
      BY <2>1, <3>1, <3>2
  <2>4. QED
    BY <2>2, <2>3, InstancesAssumption, SignInStep DEF InstancesAssumption
<1>3. Sound => SignInsAreWhole
  BY InstancesAssumption, SignInIsSafe DEF SignInsAreWhole, InstancesAssumption
<1>4. QED
  BY <1>1, <1>2, <1>3, PTL DEF Spec, everything

\* TradeDetailClient.tsx, trades.ts, stellar.ts: whoever signs in or out in whichever tab, a trade
\* is bought by the user whose deposit the contract has, and a page that says so is right.
THEOREM PurchasesAreOfTheDepositor == Spec => []PurchasesMatchDeposits
<1> DEFINE Sound == focus = "trade" => T!IInv
<1>1. Init => Sound
  BY InstancesAssumption, TradeInit DEF Init, InstancesAssumption
<1>2. Sound /\ [Next]_everything => Sound'
  <2>1. SUFFICES ASSUME Sound, [Next]_everything, focus' = "trade" PROVE T!IInv'
    OBVIOUS
  <2>2. focus = "trade" /\ T!IInv
    BY <2>1 DEF Next, everything
  <2>3. [T!Next]_(T!vars)
    <3>1. CASE UNCHANGED everything
      BY <3>1 DEF everything, server, accounts, deposits, kyc, limits, dialogue, pages, T!vars
    <3>2. CASE Next
      BY <2>2, <3>2 DEF Next, AtTheServer, OnThePages
    <3>3. QED
      BY <2>1, <3>1, <3>2
  <2>4. QED
    BY <2>2, <2>3, InstancesAssumption, TradeStep DEF InstancesAssumption
<1>3. Sound => PurchasesMatchDeposits
  BY InstancesAssumption, TradeIsSafe DEF PurchasesMatchDeposits, InstancesAssumption
<1>4. QED
  BY <1>1, <1>2, <1>3, PTL DEF Spec, everything

\* useTradeList.ts, ListingsGrid.tsx, profile/page.tsx: offers of another filter than the chosen one
\* are shown only while its own are awaited or after an answer to an earlier filter came last, and no
\* spinner stays; the history's rows are of the filter and the page that its controls show.
THEOREM ListingsStayOfTheirFilter == Spec => []ListingsAreOfFilter
<1> DEFINE Sound1 == focus = "listings" => L!IInv
           Sound2 == focus = "history" => H!IInv
<1>1. Init => Sound1
  BY InstancesAssumption, ListingsInit DEF Init, InstancesAssumption
<1>2. Sound1 /\ [Next]_everything => Sound1'
  <2>1. SUFFICES ASSUME Sound1, [Next]_everything, focus' = "listings" PROVE L!IInv'
    OBVIOUS
  <2>2. focus = "listings" /\ L!IInv
    BY <2>1 DEF Next, everything
  <2>3. [L!Next]_(L!vars)
    <3>1. CASE UNCHANGED everything
      BY <3>1 DEF everything, server, accounts, deposits, kyc, limits, dialogue, pages, L!vars
    <3>2. CASE Next
      BY <2>2, <3>2 DEF Next, AtTheServer, OnThePages
    <3>3. QED
      BY <2>1, <3>1, <3>2
  <2>4. QED
    BY <2>2, <2>3, InstancesAssumption, ListingsStep DEF InstancesAssumption
<1>3. Init => Sound2
  BY InstancesAssumption, HistoryInit DEF Init, InstancesAssumption
<1>4. Sound2 /\ [Next]_everything => Sound2'
  <2>1. SUFFICES ASSUME Sound2, [Next]_everything, focus' = "history" PROVE H!IInv'
    OBVIOUS
  <2>2. focus = "history" /\ H!IInv
    BY <2>1 DEF Next, everything
  <2>3. [H!Next]_(H!vars)
    <3>1. CASE UNCHANGED everything
      BY <3>1 DEF everything, server, accounts, deposits, kyc, limits, dialogue, pages, H!vars
    <3>2. CASE Next
      BY <2>2, <3>2 DEF Next, AtTheServer, OnThePages
    <3>3. QED
      BY <2>1, <3>1, <3>2
  <2>4. QED
    BY <2>2, <2>3, InstancesAssumption, HistoryStep DEF InstancesAssumption
<1>5. Sound1 /\ Sound2 => ListingsAreOfFilter
  BY InstancesAssumption, ListingsAreSafe, HistoryIsSafe DEF ListingsAreOfFilter, InstancesAssumption
<1>6. QED
  BY <1>1, <1>2, <1>3, <1>4, <1>5, PTL DEF Spec, everything

\* kyc.ts, kycExpiry.ts, kyc/page.tsx: however submissions and scans interleave, the document under
\* review is stored and no other is forgotten; and what the page says of it is so, unless its
\* submission overlapped another.
THEOREM DocumentsAreAlwaysKept == Spec => []DocumentsAreKept
<1> DEFINE Sound1 == focus = "kyc" => K!IInv
           Sound2 == focus = "kycForm" => F!IInv
<1>1. Init => Sound1
  BY InstancesAssumption, KycInit DEF Init, InstancesAssumption
<1>2. Sound1 /\ [Next]_everything => Sound1'
  <2>1. SUFFICES ASSUME Sound1, [Next]_everything, focus' = "kyc" PROVE K!IInv'
    OBVIOUS
  <2>2. focus = "kyc" /\ K!IInv
    BY <2>1 DEF Next, everything
  <2>3. [K!Next]_(K!vars)
    <3>1. CASE UNCHANGED everything
      BY <3>1 DEF everything, server, accounts, deposits, kyc, limits, dialogue, pages, K!vars, K!rows,
                     K!store, K!warning
    <3>2. CASE Next
      BY <2>2, <3>2 DEF Next, AtTheServer, OnThePages
    <3>3. QED
      BY <2>1, <3>1, <3>2
  <2>4. QED
    BY <2>2, <2>3, InstancesAssumption, KycStep DEF InstancesAssumption
<1>3. Init => Sound2
  BY InstancesAssumption, FormInit DEF Init, InstancesAssumption
<1>4. Sound2 /\ [Next]_everything => Sound2'
  <2>1. SUFFICES ASSUME Sound2, [Next]_everything, focus' = "kycForm" PROVE F!IInv'
    OBVIOUS
  <2>2. focus = "kycForm" /\ F!IInv
    BY <2>1 DEF Next, everything
  <2>3. [F!Next]_(F!vars)
    <3>1. CASE UNCHANGED everything
      BY <3>1 DEF everything, server, accounts, deposits, kyc, limits, dialogue, pages, F!vars
    <3>2. CASE Next
      BY <2>2, <3>2 DEF Next, AtTheServer, OnThePages
    <3>3. QED
      BY <2>1, <3>1, <3>2
  <2>4. QED
    BY <2>2, <2>3, InstancesAssumption, FormStep DEF InstancesAssumption
<1>5. Sound1 /\ Sound2 => DocumentsAreKept
  BY InstancesAssumption, KycIsSafe, FormIsSafe DEF DocumentsAreKept, InstancesAssumption
<1>6. QED
  BY <1>1, <1>2, <1>3, <1>4, <1>5, PTL DEF Spec, everything

\* paystackWebhookHandlers.ts, DepositModal.tsx: a payment is credited once, to who made it, and what
\* the dialog shows of it was paid.
THEOREM DepositsStayCredited == Spec => []DepositsAreCredited
<1> DEFINE Sound1 == focus = "deposits" => D(OneAccount)!IInv
           Sound2 == focus = "numbers" => D(NumbersPass)!IInv
           Sound3 == focus = "checkout" => Q!IInv
<1>1. Init => Sound1
  BY InstancesAssumption, DepositsInit DEF Init, InstancesAssumption
<1>2. Sound1 /\ [Next]_everything => Sound1'
  <2>1. SUFFICES ASSUME Sound1, [Next]_everything, focus' = "deposits" PROVE D(OneAccount)!IInv'
    OBVIOUS
  <2>2. focus = "deposits" /\ D(OneAccount)!IInv
    BY <2>1 DEF Next, everything
  <2>3. [D(OneAccount)!Next]_(D(OneAccount)!vars)
    <3>1. CASE UNCHANGED everything
      BY <3>1 DEF everything, server, accounts, deposits, kyc, limits, dialogue, pages, D!vars,
             D!accounts,
                     D!inbox, D!ledger
    <3>2. CASE Next
      BY <2>2, <3>2 DEF Next, AtTheServer, OnThePages
    <3>3. QED
      BY <2>1, <3>1, <3>2
  <2>4. QED
    BY <2>2, <2>3, InstancesAssumption, DepositsStep DEF InstancesAssumption
<1>3. Init => Sound2
  BY InstancesAssumption, DepositsInit, BoundsAreLater DEF Init, InstancesAssumption
<1>4. Sound2 /\ [Next]_everything => Sound2'
  <2>1. SUFFICES ASSUME Sound2, [Next]_everything, focus' = "numbers" PROVE D(NumbersPass)!IInv'
    OBVIOUS
  <2>2. focus = "numbers" /\ D(NumbersPass)!IInv
    BY <2>1 DEF Next, everything
  <2>3. [D(NumbersPass)!Next]_(D(NumbersPass)!vars)
    <3>1. CASE UNCHANGED everything
      BY <3>1 DEF everything, server, accounts, deposits, kyc, limits, dialogue, pages, D!vars,
             D!accounts,
                     D!inbox, D!ledger
    <3>2. CASE Next
      BY <2>2, <3>2 DEF Next, AtTheServer, OnThePages
    <3>3. QED
      BY <2>1, <3>1, <3>2
  <2>4. QED
    BY <2>2, <2>3, InstancesAssumption, DepositsStep DEF InstancesAssumption
<1>5. Init => Sound3
  BY InstancesAssumption, CheckoutInit DEF Init, InstancesAssumption
<1>6. Sound3 /\ [Next]_everything => Sound3'
  <2>1. SUFFICES ASSUME Sound3, [Next]_everything, focus' = "checkout" PROVE Q!IInv'
    OBVIOUS
  <2>2. focus = "checkout" /\ Q!IInv
    BY <2>1 DEF Next, everything
  <2>3. [Q!Next]_(Q!vars)
    <3>1. CASE UNCHANGED everything
      BY <3>1 DEF everything, server, accounts, deposits, kyc, limits, dialogue, pages, Q!vars
    <3>2. CASE Next
      BY <2>2, <3>2 DEF Next, AtTheServer, OnThePages
    <3>3. QED
      BY <2>1, <3>1, <3>2
  <2>4. QED
    BY <2>2, <2>3, InstancesAssumption, CheckoutStep DEF InstancesAssumption
<1>7. Sound1 /\ Sound2 /\ Sound3 => DepositsAreCredited
  BY InstancesAssumption, DepositsAreSafe, CheckoutIsSafe DEF DepositsAreCredited, InstancesAssumption
<1>8. QED
  BY <1>1, <1>2, <1>3, <1>4, <1>5, <1>6, <1>7, PTL DEF Spec, everything

================================================================================
