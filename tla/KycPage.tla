-------------------------------- MODULE KycPage --------------------------------
(***************************************************************************)
(* The form that hands in an identity document, in three steps:            *)
(*   frontend/app/kyc/page.tsx                                             *)
(* with POST /kyc/submit as the page sees it (Kyc has the rest).           *)
(*                                                                         *)
(* A field or a file is one that its validation accepts or not; a file is   *)
(* previewed under an object URL, which lasts until it is revoked.          *)
(* An answer that does not come is "Network error", and one that is not     *)
(* 2xx an error, while the server may be at work or done.                   *)
(* Name_Variant is Name with a plausible mistake in it, as in Escrow.      *)
(***************************************************************************)
EXTENDS Naturals

CONSTANTS
  Documents, Unfit,   \* files, and one that is no image or too large
  NoFile,
  Calls, NoCall       \* bound: submissions the server works on

Parameters == Unfit \notin Documents /\ NoFile \notin Documents \cup {Unfit} /\ NoCall \notin Calls

VARIABLES
  page,        \* the page's state
  urls,        \* object URLs not revoked
  submission,  \* requests
  review       \* kyc_status and the document under review

vars == <<page, urls, submission, review>>

\* `percent` is undefined, some share, null or 100; `leaving`: the browser was told to load
\* the sign-up page.  For the properties: `overlapped`, that one was sent while the server had
\* another, and `reviewed`, that support reviewed one, since the page was loaded.
Blank ==
  [step |-> 1, name |-> FALSE, birth |-> FALSE, nin |-> FALSE, document |-> NoFile,
   preview |-> 0, percent |-> "undefined", done |-> FALSE, submitted |-> FALSE,
   call |-> NoCall, leaving |-> FALSE, overlapped |-> FALSE, reviewed |-> FALSE]

NoSubmission == [at |-> "none", document |-> NoFile, valid |-> TRUE]

Init ==
  /\ page = Blank
  /\ urls = {}
  /\ submission = [c \in Calls |-> NoSubmission]
  /\ review = [status |-> "none", document |-> NoFile]

AtWork == {c \in Calls : submission[c].at \in {"sent", "writing"}}

\* The page is loaded again: its URLs go with it.
Load ==
  /\ page' = [Blank EXCEPT !.overlapped = AtWork # {}]
  /\ urls' = {}
  /\ UNCHANGED <<submission, review>>

-----------------------------------------------------------------------------
(* The steps.  A field is edited on its own step only.                     *)

\* Two names, and a date of birth in the past.
ValidateStep1(fields) == fields.name /\ fields.birth

ValidateStep2(fields) == fields.nin

ValidateDocument(file) == file \in Documents

Edit ==
  /\ ~page.submitted
  /\ \/ page.step = 1 /\ page' = [page EXCEPT !.name = ~@]
     \/ page.step = 1 /\ page' = [page EXCEPT !.birth = ~@]
     \/ page.step = 2 /\ page' = [page EXCEPT !.nin = ~@]
  /\ UNCHANGED <<urls, submission, review>>

GoToStep2 ==
  /\ page.step = 1 /\ ValidateStep1(page)
  /\ page' = [page EXCEPT !.step = 2]
  /\ UNCHANGED <<urls, submission, review>>

GoToStep3_Unchecked ==
  /\ page.step = 2
  /\ page' = [page EXCEPT !.step = 3]
  /\ UNCHANGED <<urls, submission, review>>

GoToStep3 ==
  /\ page.step = 2 /\ ValidateStep2(page)
  /\ page' = [page EXCEPT !.step = 3]
  /\ UNCHANGED <<urls, submission, review>>

Loading == page.call # NoCall

Back ==
  /\ page.step > 1 /\ ~Loading /\ ~page.submitted
  /\ page' = [page EXCEPT !.step = @ - 1]
  /\ UNCHANGED <<urls, submission, review>>

\* The old URL is revoked here, and by the cleanup of the effect.
HandleDocumentChange(file) ==
  LET url == IF page.preview = 1 THEN 2 ELSE 1
      new == IF ValidateDocument(file) THEN url ELSE 0
  IN  /\ page.step = 3 /\ ~Loading /\ ~page.submitted
      /\ page' = [page EXCEPT !.document = file, !.preview = new, !.percent = "undefined",
                              !.done = FALSE]
      /\ urls' = (urls \ {page.preview}) \cup ({new} \ {0})
      /\ UNCHANGED <<submission, review>>

-----------------------------------------------------------------------------
(* handleSubmit and uploadWithProgress.                                    *)

Submit(c) ==
  /\ page.step = 3 /\ ~Loading /\ ~page.submitted
  /\ ValidateDocument(page.document)
  /\ submission[c] = NoSubmission
  /\ submission' = [submission EXCEPT ![c] =
       [at |-> "sent", document |-> page.document,
        valid |-> ValidateStep1(page) /\ ValidateStep2(page)]]
  /\ page' = [page EXCEPT !.call = c, !.done = FALSE, !.percent = "some",
                          !.overlapped = @ \/ AtWork # {}]
  /\ UNCHANGED <<urls, review>>

\* The bytes are gone, or it is not known how many there are.
Progress ==
  /\ Loading /\ ~page.done
  /\ \E p \in {"some", "null", "full"} : page' = [page EXCEPT !.percent = p]
  /\ UNCHANGED <<urls, submission, review>>

Answered_AnyStatus(c) ==
  /\ page.call = c /\ submission[c].at \in {"ok", "error"} /\ ~page.done
  /\ page' = [page EXCEPT !.done = TRUE, !.percent = "full"]
  /\ submission' = [submission EXCEPT ![c] = NoSubmission]
  /\ UNCHANGED <<urls, review>>

\* The bar stays at 100% for a moment.  A 401 is authenticate's, before the handler: the page
\* is to be left, and its bar stays until it is.
Answered(c) ==
  /\ page.call = c /\ ~page.done
  /\ \/ submission[c].at = "ok" /\ page' = [page EXCEPT !.done = TRUE, !.percent = "full"]
     \/ submission[c].at = "error"
        /\ page' = [page EXCEPT !.call = NoCall, !.percent = "undefined"]
     \/ submission[c].at = "sent" /\ page' = [page EXCEPT !.call = NoCall, !.leaving = TRUE]
  /\ submission' = [submission EXCEPT ![c] = NoSubmission]
  /\ UNCHANGED <<urls, review>>

Unanswered(c) ==
  /\ page.call = c /\ ~page.done
  /\ page' = [page EXCEPT !.call = NoCall, !.percent = "undefined"]
  /\ \/ UNCHANGED submission
     \/ submission[c].at = "sent" /\ submission' = [submission EXCEPT ![c] = NoSubmission]
  /\ UNCHANGED <<urls, review>>

ShowPending ==
  /\ page.done /\ ~page.submitted
  /\ page' = [page EXCEPT !.submitted = TRUE, !.call = NoCall]
  /\ UNCHANGED <<urls, submission, review>>

-----------------------------------------------------------------------------
(* The server, and the review.                                             *)

\* The status is read.
Check(c) ==
  /\ submission[c].at = "sent"
  /\ \/ /\ review.status \in {"none", "rejected"}
        /\ submission' = [submission EXCEPT ![c].at = "writing"]
     \/ submission' = [submission EXCEPT ![c].at = "error"]
  /\ UNCHANGED <<page, urls, review>>

\* The UPDATE, whatever the status is by now.
Write(c) ==
  /\ submission[c].at = "writing"
  /\ \/ /\ review' = [status |-> "pending", document |-> submission[c].document]
        /\ \E at \in {"ok", "error"} : submission' = [submission EXCEPT ![c].at = at]
     \/ /\ submission' = [submission EXCEPT ![c].at = "error"]
        /\ UNCHANGED review
  /\ UNCHANGED <<page, urls>>

\* An answer nobody waits for.
Unheard(c) ==
  /\ page.call # c /\ submission[c].at \in {"ok", "error"}
  /\ submission' = [submission EXCEPT ![c] = NoSubmission]
  /\ UNCHANGED <<page, urls, review>>

\* External.
Review ==
  /\ review.status = "pending"
  /\ \E status \in {"verified", "rejected"} : review' = [review EXCEPT !.status = status]
  /\ page' = [page EXCEPT !.reviewed = TRUE]
  /\ UNCHANGED <<urls, submission>>

Next ==
  \/ Load \/ Edit \/ GoToStep2 \/ GoToStep3 \/ Back \/ Progress \/ ShowPending \/ Review
  \/ \E file \in Documents \cup {Unfit, NoFile} : HandleDocumentChange(file)
  \/ \E c \in Calls :
       \/ Submit(c) \/ Answered(c) \/ Unanswered(c)
       \/ Check(c) \/ Write(c) \/ Unheard(c)

Spec == Init /\ [][Next]_vars

-----------------------------------------------------------------------------
(* Properties.                                                             *)

Files == Documents \cup {Unfit, NoFile}

Pages ==
  [step : 1..3, name : BOOLEAN, birth : BOOLEAN, nin : BOOLEAN, document : Files,
   preview : 0..2, percent : {"undefined", "some", "null", "full"}, done : BOOLEAN,
   submitted : BOOLEAN, call : Calls \cup {NoCall}, leaving : BOOLEAN,
   overlapped : BOOLEAN, reviewed : BOOLEAN]

Submissions ==
  [at : {"none", "sent", "writing", "ok", "error"}, document : Files, valid : BOOLEAN]

\* Every state, request and row has the type its declaration gives it.
TypeOK ==
  /\ page \in Pages
  /\ submission \in [Calls -> Submissions]
  /\ review \in [status : {"none", "pending", "verified", "rejected"}, document : Files]

\* page.tsx: by whatever way back and forth, nothing is sent that a step's validation refuses.
SentIsValid == \A c \in Calls : submission[c].valid

\* page.tsx: "Upload complete" and "Pending Review" are shown only when the document on the
\* page is under review, or was, unless two submissions overlapped.
PendingIsTrue ==
  page.done /\ ~page.overlapped
    => /\ review.document = page.document
       /\ review.status = "pending" \/ page.reviewed

\* page.tsx: the preview is of the chosen file, its URL is not revoked, and no other is kept.
PreviewIsOfDocument ==
  /\ page.preview # 0 <=> page.document \in Documents
  /\ urls = {page.preview} \ {0}

\* page.tsx: the bar is shown for an upload under way, or that has succeeded, or on a page that
\* a 401 has it leave.
ProgressIsOfAnUpload == page.percent # "undefined" => Loading \/ page.submitted \/ page.leaving

-----------------------------------------------------------------------------
(* The inductive invariant.                                                *)

\* A step that was left was filled in, and it cannot be edited from a later one.
StepsAreFilledIn ==
  /\ page.step # 1 => ValidateStep1(page)
  /\ page.step = 3 => ValidateStep2(page)

\* "Upload complete" stays until it is "Pending Review", and that until the page is left.
DoneIsShown ==
  /\ page.submitted => page.done
  /\ page.done => Loading \/ page.submitted

\* The request that is awaited brings the document on the page.
AwaitedIsOfDocument ==
  Loading /\ ~page.done =>
    /\ submission[page.call].at # "none"
    /\ submission[page.call].document = page.document

\* Unless two overlapped, the server has no other request, and none once it has answered.
OneIsAtWork ==
  (Loading \/ page.done) /\ ~page.overlapped =>
    \A c \in AtWork : c = page.call /\ ~page.done

\* So what it accepted is under review until support reviews it.
AcceptedIsUnderReview ==
  Loading /\ ~page.done /\ ~page.overlapped /\ submission[page.call].at = "ok" =>
    /\ review.document = page.document
    /\ review.status = "pending" \/ page.reviewed

IInv ==
  /\ TypeOK /\ StepsAreFilledIn /\ SentIsValid
  /\ DoneIsShown /\ AwaitedIsOfDocument /\ OneIsAtWork /\ AcceptedIsUnderReview
  /\ PendingIsTrue /\ PreviewIsOfDocument /\ ProgressIsOfAnUpload

=============================================================================
