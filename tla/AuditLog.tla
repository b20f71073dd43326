-------------------------------- MODULE AuditLog --------------------------------
(***************************************************************************)
(* The audit trail of what admins change:                                  *)
(*   server/src/routes/admin.ts, services/auditLog.ts,                     *)
(*   jobs/auditLogRetention.ts, db/migrations/013_audit_logs.sql            *)
(*                                                                         *)
(* An admin resolves a disputed trade, reviews a fraud flag or replays a   *)
(* webhook; a super admin pages through the trail, newest entry first;      *)
(* a job purges what is older than the retention window.                    *)
(* A resolution's entry is written by its own transaction and has the time  *)
(* of its BEGIN; the others' are written after the change.                  *)
(*                                                                         *)
(* Time is the database's, in days.  Filters, values and metadata are left  *)
(* out.  The answer of the contract is any (Trade has the rest).           *)
(* Name_Variant is Name with a plausible mistake in it, as in Escrow.      *)
(***************************************************************************)
EXTENDS Naturals, FiniteSets

CONSTANTS
  Trades, Flags, Webhooks,   \* what is changed
  Admins,                    \* each makes one request at a time
  Window,                    \* AUDIT_LOG_RETENTION_DAYS
  BatchSize, Limit,          \* rows purged, and read, at a time
  MaxTime                    \* bound

Targets == Trades \cup Flags \cup Webhooks

Parameters ==
  /\ \A n \in {Window, BatchSize, Limit, MaxTime} : n \in Nat
  /\ BatchSize > 0 /\ Limit > 0
  /\ Trades \cap (Flags \cup Webhooks) = {}

VARIABLES
  now,
  status,    \* of the trades, flags and webhooks
  audit,     \* audit_logs
  recorded,  \* for the properties: the entries there ever were about each trade
  admin,     \* each admin's request
  reader     \* the super admin's

vars == <<now, status, audit, recorded, admin, reader>>

NoRequest == [at |-> "none", of |-> CHOOSE x \in Targets : TRUE, began |-> 0]

\* `existed`, what there was when page 1 was asked for, and `skipped`, which of it the last
\* reading did not show, are for the properties.
NotReading == [page |-> 0, at |-> "none", seen |-> {}, existed |-> {}, skipped |-> {}]

\* What a change leads to; both outcomes of a dispute and of a review are "closed".
Open(x) == IF x \in Trades THEN "Disputed" ELSE IF x \in Flags THEN "open" ELSE "failed"

Closed(x) == IF x \in Webhooks THEN "pending" ELSE "closed"

Init ==
  /\ now = 0
  /\ status = [x \in Targets |-> Open(x)]
  /\ audit = {}
  /\ recorded = [x \in Trades |-> 0]
  /\ admin = [a \in Admins |-> NoRequest]
  /\ reader = NotReading

-----------------------------------------------------------------------------
(* The table.                                                              *)

\* NOW(): no two of them are the same.
Stamp == now < MaxTime /\ now' = now + 1

\* recordAuditLog.
Record(x, at) ==
  /\ audit' = audit \cup {[at |-> at, of |-> x]}
  /\ recorded' = [y \in Trades |-> recorded[y] + (IF y = x THEN 1 ELSE 0)]

Tick ==
  /\ Stamp
  /\ UNCHANGED <<status, audit, recorded, admin, reader>>

-----------------------------------------------------------------------------
(* POST /admin/trades/:id/resolve, in one transaction.                     *)

\* BEGIN, and SELECT ... FOR UPDATE, which waits for the row.
Begin(a, x) ==
  /\ admin[a].at = "none" /\ x \in Trades
  /\ Stamp
  /\ admin' = [admin EXCEPT ![a] = [at |-> "begun", of |-> x, began |-> now]]
  /\ UNCHANGED <<status, audit, recorded, reader>>

HoldsRow(a, x) == admin[a].at = "locked" /\ admin[a].of = x

LockRow(a) ==
  /\ admin[a].at = "begun"
  /\ ~\E b \in Admins : HoldsRow(b, admin[a].of)
  /\ admin' = IF status[admin[a].of] = "Disputed"
              THEN [admin EXCEPT ![a].at = "locked"]
              ELSE [admin EXCEPT ![a] = NoRequest]
  /\ UNCHANGED <<now, status, audit, recorded, reader>>

\* The contract has resolved it: UPDATE, INSERT of the entry, COMMIT.
Commit(a) ==
  LET x == admin[a].of IN
  /\ admin[a].at = "locked"
  /\ status' = [status EXCEPT ![x] = Closed(x)]
  /\ Record(x, admin[a].began)
  /\ admin' = [admin EXCEPT ![a] = NoRequest]
  /\ UNCHANGED <<now, reader>>

\* The contract refuses, or a statement fails, or the process ends: nothing stays.
Rollback_KeepsEntry(a) ==
  /\ admin[a].at = "locked"
  /\ Stamp
  /\ Record(admin[a].of, now)
  /\ admin' = [admin EXCEPT ![a] = NoRequest]
  /\ UNCHANGED <<status, reader>>

Rollback(a) ==
  /\ admin[a].at \in {"begun", "locked"}
  /\ admin' = [admin EXCEPT ![a] = NoRequest]
  /\ UNCHANGED <<now, status, audit, recorded, reader>>

-----------------------------------------------------------------------------
(* PATCH /admin/fraud-flags/:id and POST /admin/webhooks/:id/replay.        *)

\* reviewFraudFlag: an UPDATE of an open flag.
Review(a, x) ==
  /\ admin[a].at = "none" /\ x \in Flags
  /\ status[x] = "open"
  /\ status' = [status EXCEPT ![x] = Closed(x)]
  /\ admin' = [admin EXCEPT ![a] = [at |-> "changed", of |-> x, began |-> 0]]
  /\ UNCHANGED <<now, audit, recorded, reader>>

FindFailed(a, x) ==
  /\ admin[a].at = "none" /\ x \in Webhooks
  /\ status[x] = "failed"
  /\ admin' = [admin EXCEPT ![a] = [at |-> "found", of |-> x, began |-> 0]]
  /\ UNCHANGED <<now, status, audit, recorded, reader>>

\* An UPDATE whatever the status is by now.
Replay(a) ==
  LET x == admin[a].of IN
  /\ admin[a].at = "found"
  /\ status' = [status EXCEPT ![x] = "pending"]
  /\ admin' = [admin EXCEPT ![a].at = "changed"]
  /\ UNCHANGED <<now, audit, recorded, reader>>

\* The replayed job fails again.
Fail(x) ==
  /\ x \in Webhooks /\ status[x] = "pending"
  /\ status' = [status EXCEPT ![x] = "failed"]
  /\ UNCHANGED <<now, audit, recorded, admin, reader>>

\* recordAuditLogAfterCommit: the entry, or, if that fails, a line in the log.
RecordAfter(a) ==
  /\ admin[a].at = "changed"
  /\ \/ Stamp /\ Record(admin[a].of, now)
     \/ UNCHANGED <<now, audit, recorded>>
  /\ admin' = [admin EXCEPT ![a] = NoRequest]
  /\ UNCHANGED <<status, reader>>

-----------------------------------------------------------------------------
(* purgeExpiredAuditLogs.  One replica purges at a time (the advisory lock), *)
(* a batch in a transaction.                                               *)

Expired == {e \in audit : e.at + Window < now}

\* The oldest ones.
Batch_NewestFirst == {e \in Expired : Cardinality({f \in Expired : f.at > e.at}) < BatchSize}

Batch == {e \in Expired : Cardinality({f \in Expired : f.at < e.at}) < BatchSize}

Purge ==
  /\ audit' = audit \ Batch
  /\ UNCHANGED <<now, status, recorded, admin, reader>>

-----------------------------------------------------------------------------
(* GET /admin/audit-logs, page after page.                                 *)

\* ORDER BY occurred_at DESC.
Precedes_OldestFirst(e, f) == e.at < f.at

Precedes(e, f) == e.at > f.at

OnPage(n) ==
  {e \in audit : LET position == Cardinality({f \in audit : Precedes(f, e)}) IN
                 (n - 1) * Limit <= position /\ position < n * Limit}

Ask ==
  /\ reader.at = "none"
  /\ reader' = [page |-> 1, at |-> "asked", seen |-> {}, existed |-> audit, skipped |-> {}]
  /\ UNCHANGED <<now, status, audit, recorded, admin>>

ListEntries ==
  /\ reader.at = "asked"
  /\ reader' = [reader EXCEPT !.at = "listed", !.seen = @ \cup OnPage(reader.page)]
  /\ UNCHANGED <<now, status, audit, recorded, admin>>

\* The total is counted after; the next page is asked for while there is one.
CountEntries ==
  /\ reader.at = "listed"
  /\ reader' = IF reader.page * Limit < Cardinality(audit)
               THEN [reader EXCEPT !.page = @ + 1, !.at = "asked"]
               ELSE [NotReading EXCEPT !.skipped = (reader.existed \cap audit) \ reader.seen]
  /\ UNCHANGED <<now, status, audit, recorded, admin>>

Next ==
  \/ Tick
  \/ \E a \in Admins :
       \/ LockRow(a) \/ Commit(a) \/ Rollback(a) \/ Replay(a) \/ RecordAfter(a)
       \/ \E x \in Targets : Begin(a, x) \/ Review(a, x) \/ FindFailed(a, x)
  \/ \E x \in Webhooks : Fail(x)
  \/ Purge \/ Ask \/ ListEntries \/ CountEntries

Spec == Init /\ [][Next]_vars

-----------------------------------------------------------------------------
(* Properties.                                                             *)

Entries == [at : 0..MaxTime, of : Targets]

\* Every row, request and reader has the type its declaration gives it.
TypeOK ==
  /\ now \in 0..MaxTime
  /\ \A x \in Targets : status[x] \in {Open(x), Closed(x)}
  /\ audit \subseteq Entries
  /\ \A e, f \in audit : e.at = f.at => e = f
  /\ recorded \in [Trades -> 0..MaxTime]
  /\ admin \in [Admins -> [at : {"none", "begun", "locked", "found", "changed"}, of : Targets,
                           began : 0..MaxTime]]
  /\ reader.at \in {"none", "asked", "listed"} /\ reader.seen \subseteq Entries

\* admin.ts: a dispute is in the trail if and only if it was resolved, and then once,
\* whoever tries at the same time and whatever fails.
TrailMatchesChanges ==
  \A x \in Trades : recorded[x] = IF status[x] = "Disputed" THEN 0 ELSE 1

\* listAuditLogs: whatever is written and purged meanwhile, who reads page after page has
\* seen, at the end, every entry that there was at the start and still is.
NothingIsSkipped == reader.skipped = {}

-----------------------------------------------------------------------------
(* The inductive invariant.                                                *)

Rows == [at : Nat, of : Targets]

Request == [at : {"none", "begun", "locked", "found", "changed"},
            of : Targets \cup {NoRequest.of}, began : Nat]

Typed ==
  /\ now \in Nat
  /\ status \in [Targets -> {"Disputed", "open", "failed", "pending", "closed"}]
  /\ audit \subseteq Rows /\ IsFiniteSet(audit)
  /\ recorded \in [Trades -> Nat]
  /\ admin \in [Admins -> Request]
  /\ reader \in [page : Nat, at : {"none", "asked", "listed"}, seen : SUBSET Rows,
                 existed : SUBSET Rows, skipped : SUBSET Rows]

\* A resolution is of a trade, and one that has its row is the only one and finds it disputed;
\* what is recorded after the change is of something else.
RequestsAreSound ==
  /\ \A a \in Admins :
       /\ admin[a].at \in {"begun", "locked"} => admin[a].of \in Trades /\ admin[a].began < now
       /\ admin[a].at = "locked" => status[admin[a].of] = "Disputed"
       /\ admin[a].at \in {"found", "changed"} => admin[a].of \in Flags \cup Webhooks
  /\ \A a, b \in Admins :
       admin[a].at = "locked" /\ admin[b].at = "locked" /\ admin[a].of = admin[b].of => a = b

\* No entry that there is or was when the reader started is still to be written.
EntriesAreOfThePast ==
  \A e \in audit \cup reader.existed :
    e.at < now /\ (e.of \in Trades => status[e.of] # "Disputed")

\* How many entries there are before e, on the pages.
Position(e, entries) == Cardinality({f \in entries : Precedes(f, e)})

\* The entries that are on the pages read so far, wherever they are by now, were seen: what is
\* written only moves them on, and what is purged comes after them.
PagesAreSeen ==
  LET read == (IF reader.at = "listed" THEN reader.page ELSE reader.page - 1) * Limit
  IN  reader.at # "none" =>
        /\ reader.page > 0
        /\ \A e \in reader.existed \cap audit : Position(e, audit) < read => e \in reader.seen

IInv ==
  /\ Typed /\ RequestsAreSound /\ TrailMatchesChanges
  /\ EntriesAreOfThePast /\ PagesAreSeen /\ NothingIsSkipped

=============================================================================
