-------------------------------- MODULE Exports --------------------------------
(***************************************************************************)
(* A user's export of personal data: the request, the job that builds it,  *)
(* its download links, its expiry and the daily purge.                     *)
(*   server/src/routes/users.ts, server/src/services/dataExport.ts         *)
(*   server/src/jobs/processors/generate-data-export.ts, jobs/cron.ts      *)
(*                                                                         *)
(* One user's exports; every lock and every query here is for one user.    *)
(* Left out: what is in an export (one snapshot), encryption, signatures.  *)
(* Name_Variant is Name with a plausible mistake in it, as in Escrow.      *)
(***************************************************************************)
EXTENDS Naturals, Sequences, FiniteSets

CONSTANTS
  Handlers,     \* bound: requests for an export under way at once
  Cooldown,     \* DATA_EXPORT_COOLDOWN_HOURS
  Retention,    \* DATA_EXPORT_RETENTION_HOURS
  LinkLife,     \* DATA_EXPORT_LINK_TTL_SECONDS
  MaxTries,     \* MAX_ATTEMPTS of queue.ts
  MaxExports,   \* bound
  MaxTime,      \* bound
  MaxFaults     \* bound: queries that fail, restarts

Times == 0..MaxTime
Never == MaxTime + Retention + 1

\* A row of data_export_requests, and how far its job is.
Export ==
  [status : {"pending", "processing", "ready", "failed", "expired"}, payload : BOOLEAN,
   requested : Times, expires : 0..Never,
   job : {"none", "queued", "started", "built", "failing"}, tries : 0..MaxTries]

Counted == {"pending", "processing", "ready", "expired"}

VARIABLES
  exports,     \* the rows, in the order they were made
  handler,     \* GET /me/export: idle, waiting for the lock, past the check, or done with the row
  now,
  links,       \* signed links: the export and when the link ends
  downloads,   \* history: downloads that were served, with their time
  faults,
  unclear      \* history: exports whose `ready` was written although the query failed

vars == <<exports, handler, now, links, downloads, faults, unclear>>

Init ==
  /\ exports = << >>
  /\ handler = [h \in Handlers |-> "idle"]
  /\ now = 0
  /\ links = {}
  /\ downloads = {}
  /\ faults = 0
  /\ unclear = {}

Fault == faults < MaxFaults /\ faults' = faults + 1        \* bound
Goto(h, step) == handler' = [handler EXCEPT ![h] = step]
Ids == 1..Len(exports)

-----------------------------------------------------------------------------
(* requestDataExport.                                                      *)

Recent ==
  {e \in Ids : exports[e].status \in Counted /\ exports[e].requested + Cooldown > now}


CheckRecent(h) ==
  /\ handler[h] = "idle"
  /\ \A g \in Handlers : handler[g] # "checked"
  /\ Recent = {}
  /\ Goto(h, "checked")
  /\ UNCHANGED <<exports, now, links, downloads, faults, unclear>>

\* INSERT and COMMIT.
InsertRequest(h) ==
  /\ handler[h] = "checked"
  /\ Len(exports) < MaxExports                             \* bound
  /\ exports' = Append(exports, [status |-> "pending", payload |-> FALSE, requested |-> now,
                                 expires |-> Never, job |-> "none", tries |-> 0])
  /\ Goto(h, "inserted")
  /\ UNCHANGED <<now, links, downloads, faults, unclear>>

\* The job is queued after the COMMIT.
EnqueueExport(h) ==
  /\ handler[h] = "inserted"
  /\ \E e \in Ids :
       /\ exports[e].job = "none" /\ exports[e].tries = 0 /\ exports[e].status = "pending"
       /\ exports' = [exports EXCEPT ![e].job = "queued"]
  /\ Goto(h, "idle")
  /\ UNCHANGED <<now, links, downloads, faults, unclear>>

-----------------------------------------------------------------------------
(* generateDataExportProcessor.                                            *)

\* Only a row that is pending or processing is worked on.
StartExport(e) ==
  /\ exports[e].job = "queued"
  /\ exports' = IF exports[e].status \in {"pending", "processing"}
                THEN [exports EXCEPT ![e].status = "processing", ![e].job = "started",
                                     ![e].tries = @ + 1]
                ELSE [exports EXCEPT ![e].job = "none"]
  /\ UNCHANGED <<handler, now, links, downloads, faults, unclear>>

\* The snapshot is read, and encrypted.
Build(e) ==
  /\ exports[e].job = "started"
  /\ exports' = [exports EXCEPT ![e].job = "built"]
  /\ UNCHANGED <<handler, now, links, downloads, faults, unclear>>

Readied(e) == [exports[e] EXCEPT !.status = "ready", !.payload = TRUE, !.expires = now + Retention]

SetReady(e) ==
  /\ exports[e].job = "built"
  /\ exports' = [exports EXCEPT ![e] = [Readied(e) EXCEPT !.job = "none"]]
  /\ UNCHANGED <<handler, now, links, downloads, faults, unclear>>

\* A query fails; the last one may have done its work.
ExportFails(e) ==
  /\ exports[e].job \in {"started", "built"}
  /\ Fault
  /\ \/ /\ exports' = [exports EXCEPT ![e].job = "failing"]
        /\ UNCHANGED unclear
     \/ /\ exports[e].job = "built"
        /\ exports' = [exports EXCEPT ![e] = [Readied(e) EXCEPT !.job = "failing"]]
        /\ unclear' = unclear \cup {e}
  /\ UNCHANGED <<handler, now, links, downloads>>

\* The catch: another try, or `failed`, which gives the user the quota back.
GiveUp(e) ==
  /\ exports[e].job = "failing"
  /\ exports' = IF exports[e].tries < MaxTries
                THEN [exports EXCEPT ![e].job = "queued"]
                ELSE [exports EXCEPT ![e].job = "none", ![e].status = "failed"]
  /\ UNCHANGED <<handler, now, links, downloads, faults, unclear>>

-----------------------------------------------------------------------------
(* Links, downloads and the purge.                                         *)

\* presentExport: a link for a ready export ends with it at the latest.
SignLink(e) ==
  /\ exports[e].status = "ready"
  /\ links' = links \cup
       {[of |-> e, until |-> IF now + LinkLife < exports[e].expires
                             THEN now + LinkLife ELSE exports[e].expires]}
  /\ UNCHANGED <<exports, handler, now, downloads, faults, unclear>>

Download(l) ==
  /\ l.until >= now
  /\ exports[l.of].status = "ready"
  /\ downloads' = downloads \cup {[of |-> l.of, at |-> now]}
  /\ UNCHANGED <<exports, handler, now, links, faults, unclear>>

\* purgeExpiredDataExports, daily.
Purge ==
  /\ \E e \in Ids : exports[e].status = "ready" /\ exports[e].expires < now
  /\ exports' = [e \in Ids |->
       IF exports[e].status = "ready" /\ exports[e].expires < now
       THEN [exports[e] EXCEPT !.status = "expired", !.payload = FALSE] ELSE exports[e]]
  /\ UNCHANGED <<handler, now, links, downloads, faults, unclear>>

Tick ==
  /\ now < MaxTime                                         \* bound
  /\ now' = now + 1
  /\ UNCHANGED <<exports, handler, links, downloads, faults, unclear>>

\* The process stops: what was running is not queued again.
Restart ==
  /\ Fault
  /\ handler' = [h \in Handlers |-> "idle"]
  /\ exports' = [e \in Ids |-> IF exports[e].job = "queued" THEN exports[e]
                               ELSE [exports[e] EXCEPT !.job = "none"]]
  /\ UNCHANGED <<now, links, downloads, unclear>>

-----------------------------------------------------------------------------
Next ==
  \/ \E h \in Handlers : CheckRecent(h) \/ InsertRequest(h) \/ EnqueueExport(h)
  \/ \E e \in Ids : \/ StartExport(e) \/ Build(e) \/ SetReady(e) \/ ExportFails(e) \/ GiveUp(e)
                    \/ SignLink(e)
  \/ \E l \in links : Download(l)
  \/ Purge
  \/ Tick
  \/ Restart

Spec == Init /\ [][Next]_vars

-----------------------------------------------------------------------------
(* Properties.                                                             *)

TypeOK ==
  /\ exports \in Seq(Export)
  /\ handler \in [Handlers -> {"idle", "checked", "inserted"}]
  /\ now \in Times
  /\ faults \in 0..MaxFaults

\* Two requests inside the cooldown never both count, requested at once, after a failure
\* or around a purge.
OneExportAtATime ==
  \A e, f \in Ids :
    /\ e # f
    /\ exports[e].status \in Counted /\ exports[f].status \in Counted
    => exports[e].requested + Cooldown <= exports[f].requested \/
       exports[f].requested + Cooldown <= exports[e].requested

\* Nothing is downloaded after its expiry, purged or not.
NoDownloadAfterExpiry == \A d \in downloads : d.at <= exports[d.of].expires

\* Personal data is stored only in a ready export, so the purge finds it, unless the
\* last try wrote it and was not told.
DataIsPurged ==
  \A e \in Ids : exports[e].payload => exports[e].status = "ready" \/ e \in unclear

=============================================================================
