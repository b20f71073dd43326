---------------------------------- MODULE Kyc ----------------------------------
(***************************************************************************)
(* Identity documents: submitting one, its review, and the daily warning   *)
(* about those that expire.                                                *)
(*   server/src/routes/kyc.ts, server/src/jobs/kycExpiry.ts                *)
(*   server/src/middleware/rateLimitKyc.ts                                 *)
(*                                                                         *)
(* An upload goes to the object store while the body is parsed, before     *)
(* anything is looked up; deletes are started and not awaited.             *)
(* Nothing in src/ reviews a submission: Review is account support's.      *)
(* Name_Variant is Name with a plausible mistake in it, as in Escrow.      *)
(***************************************************************************)
EXTENDS Naturals

CONSTANTS
  Users, NoUser,
  Handlers,         \* bound: submissions under way at once
  Replicas,         \* server processes, each with its daily scan
  KycMaxSubmissions,\* KYC_MAX_SUBMISSIONS
  MaxUploads,       \* bound: documents uploaded
  MaxDays           \* bound

Keys == 1..MaxUploads
Days == 1..MaxDays

Submission ==
  [step : {"idle", "limited", "uploaded", "writing"}, user : Users \cup {NoUser}, key : {0} \cup Keys]

NoSubmission == [step |-> "idle", user |-> NoUser, key |-> 0]

VARIABLES
  status,      \* users.kyc_status
  document,    \* users.kyc_document_path; 0: NULL
  objects,     \* the object store
  deleting,    \* deletes started
  submission,
  uploads,     \* documents uploaded so far
  attempts,    \* kyc_submission_attempts inside the window
  day,         \* CURRENT_DATE
  scan,        \* per replica: the users its scan has still to go through
  notices,     \* kyc_expiry_notifications
  texts,       \* history: warnings sent, by user and day
  abandoned    \* history: documents given up in a race, a crash or a failed call

rows    == <<status, document, attempts>>
store   == <<objects, deleting, submission, uploads, abandoned>>
warning == <<day, scan, notices, texts>>
vars    == <<rows, store, warning>>

Init ==
  /\ status = [u \in Users |-> "none"]
  /\ document = [u \in Users |-> 0]
  /\ objects = {}
  /\ deleting = {}
  /\ submission = [h \in Handlers |-> NoSubmission]
  /\ uploads = 0
  /\ attempts = [u \in Users |-> 0]
  /\ day = 1
  /\ scan = [r \in Replicas |-> {}]
  /\ notices = {}
  /\ texts = [u \in Users |-> [d \in Days |-> 0]]
  /\ abandoned = {}

End(h) == submission' = [submission EXCEPT ![h] = NoSubmission]

-----------------------------------------------------------------------------
(* POST /kyc/submit.                                                       *)

\* The attempt is charged before it is counted; an attempt too many goes no further,
\* and a database that fails lets it through uncharged.
Limit(h, u) ==
  /\ submission[h] = NoSubmission
  /\ \/ /\ attempts[u] < KycMaxSubmissions
        /\ attempts' = [attempts EXCEPT ![u] = @ + 1]
     \/ UNCHANGED attempts
  /\ submission' = [submission EXCEPT ![h] = [step |-> "limited", user |-> u, key |-> 0]]
  /\ UNCHANGED <<status, document, objects, deleting, uploads, abandoned, warning>>

WindowPasses ==
  /\ attempts' = [u \in Users |-> 0]
  /\ UNCHANGED <<status, document, store, warning>>

\* parseAndUploadMultipart.
Upload(h) ==
  /\ submission[h].step = "limited"
  /\ uploads < MaxUploads                                  \* bound
  /\ uploads' = uploads + 1
  /\ objects' = objects \cup {uploads + 1}
  /\ submission' = [submission EXCEPT ![h].step = "uploaded", ![h].key = uploads + 1]
  /\ UNCHANGED <<rows, deleting, abandoned, warning>>

\* The form has an error, or the user is verified or waits for a review: the new
\* document is discarded.
Refuse(h) ==
  /\ submission[h].step = "uploaded"
  /\ deleting' = deleting \cup {submission[h].key}
  /\ End(h)
  /\ UNCHANGED <<rows, objects, uploads, abandoned, warning>>

\* The row is read; the document of a rejected submission is deleted already here.
Accept_Always(h) ==
  LET s == submission[h]
  IN  /\ s.step = "uploaded"
      /\ deleting' = IF document[s.user] = 0 THEN deleting ELSE deleting \cup {document[s.user]}
      /\ submission' = [submission EXCEPT ![h].step = "writing"]
      /\ UNCHANGED <<rows, objects, uploads, abandoned, warning>>

Accept(h) ==
  LET s == submission[h]
  IN  /\ s.step = "uploaded"
      /\ status[s.user] \in {"none", "rejected"}
      /\ deleting' = IF document[s.user] = 0 THEN deleting ELSE deleting \cup {document[s.user]}
      /\ submission' = [submission EXCEPT ![h].step = "writing"]
      /\ UNCHANGED <<rows, objects, uploads, abandoned, warning>>

\* The UPDATE, whatever the row says by now.
Write(h) ==
  LET s == submission[h]
  IN  /\ s.step = "writing"
      /\ status' = [status EXCEPT ![s.user] = "pending"]
      /\ document' = [document EXCEPT ![s.user] = s.key]
      /\ abandoned' = abandoned \cup ({document[s.user]} \ (deleting \cup {0}))
      /\ End(h)
      /\ UNCHANGED <<attempts, objects, deleting, uploads, warning>>

\* A query fails, or the process stops.
Abort(h) ==
  /\ submission[h].step \in {"uploaded", "writing"}
  /\ abandoned' = abandoned \cup {submission[h].key}
  /\ End(h)
  /\ UNCHANGED <<rows, objects, deleting, uploads, warning>>

Delete(k) ==
  /\ k \in deleting
  /\ deleting' = deleting \ {k}
  /\ \/ objects' = objects \ {k} /\ UNCHANGED abandoned
     \/ abandoned' = abandoned \cup {k} /\ UNCHANGED objects    \* it fails and is logged
  /\ UNCHANGED <<rows, submission, uploads, warning>>

\* External.
Review(u) ==
  /\ status[u] = "pending"
  /\ \E s \in {"verified", "rejected"} : status' = [status EXCEPT ![u] = s]
  /\ UNCHANGED <<document, attempts, store, warning>>

-----------------------------------------------------------------------------
(* checkKycDocumentExpiry, on every replica once a day.                    *)

\* The users whose document expires soon; nothing in src/ writes kyc_document_expiry, so
\* any verified user may be one.
StartScan(r) ==
  /\ scan[r] = {}
  /\ scan' = [scan EXCEPT ![r] = {u \in Users : status[u] = "verified"}]
  /\ UNCHANGED <<rows, store, day, notices, texts>>

\* INSERT ... ON CONFLICT DO NOTHING, and a text if it inserted.
Warn(r, u) ==
  /\ u \in scan[r]
  /\ scan' = [scan EXCEPT ![r] = @ \ {u}]
  /\ notices' = notices \cup {<<u, day>>}
  /\ texts' = IF <<u, day>> \in notices THEN texts
              ELSE [texts EXCEPT ![u][day] = IF @ = 2 THEN 2 ELSE @ + 1]
  /\ UNCHANGED <<rows, store, day>>

\* The process stops; the next one scans again.
StopScan(r) ==
  /\ scan' = [scan EXCEPT ![r] = {}]
  /\ UNCHANGED <<rows, store, day, notices, texts>>

NextDay ==
  /\ day < MaxDays                                         \* bound
  /\ day' = day + 1
  /\ UNCHANGED <<rows, store, scan, notices, texts>>

-----------------------------------------------------------------------------
Next ==
  \/ \E h \in Handlers, u \in Users : Limit(h, u)
  \/ WindowPasses
  \/ \E h \in Handlers : Upload(h) \/ Refuse(h) \/ Accept(h) \/ Write(h) \/ Abort(h)
  \/ \E k \in Keys : Delete(k)
  \/ \E u \in Users : Review(u)
  \/ \E r \in Replicas : StartScan(r) \/ StopScan(r)
  \/ \E r \in Replicas, u \in Users : Warn(r, u)
  \/ NextDay

Spec == Init /\ [][Next]_vars

-----------------------------------------------------------------------------
(* Properties.                                                             *)

TypeOK ==
  /\ status \in [Users -> {"none", "pending", "verified", "rejected"}]
  /\ document \in [Users -> {0} \cup Keys]
  /\ objects \subseteq 1..uploads
  /\ deleting \subseteq 1..uploads
  /\ submission \in [Handlers -> Submission]
  /\ attempts \in [Users -> 0..KycMaxSubmissions]
  /\ day \in Days
  /\ scan \in [Replicas -> SUBSET Users]
  /\ notices \subseteq Users \X Days

\* The document under review, and the one a user was verified with, is in the store:
\* no delete of an earlier or of a refused document, however late, hits it.
DocumentOnFile ==
  \A u \in Users : status[u] \in {"pending", "verified"} =>
    document[u] \in objects \ deleting

\* A document is some row's, some handler's or about to be deleted, unless two
\* submissions raced, a call failed or the process stopped.
NoForgottenDocument ==
  \A k \in objects \ abandoned :
    \/ k \in deleting
    \/ \E u \in Users : document[u] = k
    \/ \E h \in Handlers : submission[h].key = k

\* However many replicas scan, a user is warned once a day.
WarnedOnceADay == \A u \in Users, d \in Days : texts[u][d] <= 1

-----------------------------------------------------------------------------
(* The inductive invariant.                                                *)

Submissions(n) ==
  [step : {"idle", "limited", "uploaded", "writing"}, user : Users \cup {NoUser}, key : 0..n]

\* TypeOK without its bounds, and with the keys that were given out.
Typed ==
  /\ uploads \in Nat
  /\ status \in [Users -> {"none", "pending", "verified", "rejected"}]
  /\ document \in [Users -> 0..uploads]
  /\ objects \subseteq 1..uploads
  /\ deleting \subseteq 1..uploads
  /\ submission \in [Handlers -> Submissions(uploads)]
  /\ texts \in [Users -> [Days -> 0..1]]

Has(h) == submission[h].step \in {"uploaded", "writing"}

\* A handler that has a document has it alone: no row, no other handler, no delete.
DocumentsAreHandled ==
  \A h \in Handlers :
    /\ submission[h].step # "idle" => submission[h].user \in Users
    /\ ~Has(h) => submission[h].key = 0
    /\ Has(h) => /\ submission[h].key \in objects \ deleting
                 /\ \A u \in Users : document[u] # submission[h].key
                 /\ \A g \in Handlers \ {h} : submission[g].key # submission[h].key

\* No document is two users'.
DocumentsAreOwn ==
  \A u, v \in Users : document[u] # 0 /\ document[u] = document[v] => u = v

\* Who was texted has a notice of that day.
TextsAreNoticed == \A u \in Users, d \in Days : texts[u][d] # 0 => <<u, d>> \in notices

IInv ==
  /\ Typed /\ DocumentsAreHandled /\ DocumentsAreOwn /\ TextsAreNoticed
  /\ DocumentOnFile /\ NoForgottenDocument

================================================================================
