-------------------------------- MODULE Migrations --------------------------------
(***************************************************************************)
(* The database's migrations: server/src/db/migrate.ts, run by hand and by *)
(* every deployment, over server/src/db/migrations/*.sql and down/*.sql.   *)
(*                                                                         *)
(* Several runs may be under way, of releases that ship different files,   *)
(* and nothing locks the others out.  One action is one statement that     *)
(* other runs can see the effect of; what a transaction has written is     *)
(* seen when it commits.                                                   *)
(*                                                                         *)
(* A rollback is modelled as its operator means it, while nothing else     *)
(* runs: it looks its record up before its transaction, so that one that   *)
(* meets another rollback or a run may revert what it did not read.        *)
(*                                                                         *)
(* A file stands for the change its statements make, which they make again *)
(* without harm (IF NOT EXISTS).                                           *)
(* Name_Variant is Name with a plausible mistake in it, as in Escrow.      *)
(***************************************************************************)
EXTENDS Naturals, FiniteSets, FiniteSetsExt

CONSTANTS
  Processes,
  ReleaseDirs,  \* sets of files; files are numbers, in the order of their names
  Reversible,   \* files with a script in down/
  MaxStarts,    \* bound: runs and rollbacks
  MaxFaults     \* bound: statements that fail, processes that stop

Parameters == ReleaseDirs \subseteq SUBSET Nat /\ MaxStarts \in Nat /\ MaxFaults \in Nat

Files == UNION ReleaseDirs

VARIABLES
  schema,     \* files whose change is in the database
  migrations, \* schema_migrations: id and filename
  nextId,     \* its sequence, which no rollback sets back
  process,    \* by process: what it does and how far it is
  left,       \* history: files whose record was removed and whose change was not
  recordedBy, \* history: the release a record was made by
  starts,
  faults

table == <<schema, migrations, left, recordedBy>>
vars  == <<table, nextId, process, starts, faults>>

Idle == [step |-> "idle"]

Init ==
  /\ schema = {}
  /\ migrations = {}
  /\ nextId = 1
  /\ process = [p \in Processes |-> Idle]
  /\ left = {}
  /\ recordedBy = [f \in Files |-> {}]
  /\ starts = 0
  /\ faults = 0

Start == starts < MaxStarts /\ starts' = starts + 1        \* bound
Fault == faults < MaxFaults /\ faults' = faults + 1        \* bound

\* getAppliedMigrations.
Applied == {m.file : m \in migrations}

Ended == {"idle", "succeeded", "failed"}
Running(p) == process[p].step \notin Ended

Goto(p, step) == process' = [process EXCEPT ![p].step = step]

-----------------------------------------------------------------------------
(* runMigrations.                                                          *)

\* After the last file the run reports success.
Rest(release, pending) ==
  [step |-> IF pending = {} THEN "succeeded" ELSE "pending", release |-> release,
   pending |-> pending]

\* The record table is read once; what other runs record after that is not seen.
RunMigrations(p, release) ==
  /\ ~Running(p)
  /\ \A q \in Processes : process[q].step # "reverting"
  /\ Start
  /\ process' = [process EXCEPT ![p] = Rest(release, release \ Applied)]
  /\ UNCHANGED <<table, nextId, faults>>

Current(p) == Min(process[p].pending)

\* BEGIN, and the statements of the next file.
Apply_Committed(p) ==
  /\ process[p].step = "pending"
  /\ schema' = schema \cup {Current(p)}
  /\ Goto(p, "applied")
  /\ UNCHANGED <<migrations, left, recordedBy, nextId, starts, faults>>

Apply(p) ==
  /\ process[p].step = "pending"
  /\ Goto(p, "applied")
  /\ UNCHANGED <<table, nextId, starts, faults>>

\* INSERT INTO schema_migrations.  The filename is unique: it waits for a transaction that
\* has inserted it, and fails if it is there.
InsertRecord(p) ==
  /\ process[p].step = "applied"
  /\ \A q \in Processes :
       process[q].step = "recorded" => Current(q) # Current(p)
  /\ IF Current(p) \in Applied
     THEN Goto(p, "failed")
     ELSE process' = [process EXCEPT ![p] =
            [step |-> "recorded", release |-> @.release, pending |-> @.pending, id |-> nextId]]
  /\ nextId' = nextId + 1
  /\ UNCHANGED <<table, starts, faults>>

Committed(p) ==
  /\ schema' = schema \cup {Current(p)}
  /\ migrations' = migrations \cup {[id |-> process[p].id, file |-> Current(p)]}
  /\ recordedBy' = [recordedBy EXCEPT ![Current(p)] = process[p].release]
  /\ left' = left \ {Current(p)}

CommitFile(p) ==
  /\ process[p].step = "recorded"
  /\ Committed(p)
  /\ process' = [process EXCEPT ![p] =
                   Rest(process[p].release, process[p].pending \ {Current(p)})]
  /\ UNCHANGED <<nextId, starts, faults>>

\* A statement fails, or the process stops: ROLLBACK, and the run ends.
FileFails_GoesOn(p) ==
  /\ process[p].step \in {"applied", "recorded"}
  /\ Fault
  /\ process' = [process EXCEPT ![p] =
                   Rest(process[p].release, process[p].pending \ {Current(p)})]
  /\ UNCHANGED <<table, nextId, starts>>

FileFails(p) ==
  /\ process[p].step \in {"applied", "recorded"}
  /\ Fault
  /\ Goto(p, "failed")
  /\ UNCHANGED <<table, nextId, starts>>

\* The COMMIT is done and its answer is lost.
CommitUnclear(p) ==
  /\ process[p].step = "recorded"
  /\ Fault
  /\ Committed(p)
  /\ Goto(p, "failed")
  /\ UNCHANGED <<nextId, starts>>

-----------------------------------------------------------------------------
(* rollbackLastMigration.                                                  *)

Last == CHOOSE m \in migrations : \A n \in migrations : n.id <= m.id

RollbackLastMigration(p) ==
  /\ \A q \in Processes : ~Running(q)
  /\ migrations # {}
  /\ Start
  /\ process' = [q \in Processes |-> IF q = p THEN [step |-> "reverting", record |-> Last]
                                     ELSE Idle]
  /\ UNCHANGED <<table, nextId, faults>>

\* Without a script the record is removed and the change stays.
Reverts(f) == f \in Reversible

\* The script and the DELETE, in one transaction; the run of the script may fail.
Revert(p) ==
  /\ process[p].step = "reverting"
  /\ LET f == process[p].record.file
     IN  /\ migrations' = migrations \ {process[p].record}
         /\ schema' = IF Reverts(f) THEN schema \ {f} ELSE schema
         /\ left' = IF Reverts(f) THEN left ELSE left \cup {f}
         /\ recordedBy' = [recordedBy EXCEPT ![f] = {}]
  /\ Goto(p, "idle")
  /\ UNCHANGED <<nextId, starts, faults>>

RevertFails(p) ==
  /\ process[p].step = "reverting"
  /\ Fault
  /\ Goto(p, "failed")
  /\ UNCHANGED <<table, nextId, starts>>

-----------------------------------------------------------------------------
Next ==
  \E p \in Processes :
    \/ \E d \in ReleaseDirs : RunMigrations(p, d)
    \/ Apply(p) \/ InsertRecord(p) \/ CommitFile(p) \/ FileFails(p) \/ CommitUnclear(p)
    \/ RollbackLastMigration(p) \/ Revert(p) \/ RevertFails(p)

Spec == Init /\ [][Next]_vars

-----------------------------------------------------------------------------
(* Properties.                                                             *)

TypeOK ==
  /\ schema \subseteq Files /\ left \subseteq Files
  /\ migrations \subseteq [id : 1..(nextId - 1), file : Files]
  /\ \A p \in Processes : process[p].step \in
       Ended \cup {"pending", "applied", "recorded", "reverting"}
  /\ starts \in 0..MaxStarts /\ faults \in 0..MaxFaults

\* A file is recorded once; what is recorded is in the schema, and what is in the schema is
\* recorded, but for files rolled back without a script.
RecordsMatchSchema ==
  /\ \A m, n \in migrations : m.file = n.file => m = n
  /\ Applied \subseteq schema
  /\ schema \ Applied = left

\* A file is recorded only with every earlier file of its release, also when a run failed
\* half way or two releases run at once.
RecordedInOrder ==
  \A g \in Applied : \A f \in recordedBy[g] : f < g => f \in Applied

\* The run that reports success leaves its whole release recorded.
SuccessIsWhole ==
  \A p \in Processes : process[p].step = "succeeded" => process[p].release \subseteq Applied

-----------------------------------------------------------------------------
(* The inductive invariant.                                                *)

\* What a process has read or been given, by how far it is.
RunRow      == [step : {"pending", "applied", "succeeded", "failed"},
                release : ReleaseDirs, pending : SUBSET Files]
RecordRow   == [step : {"recorded", "failed"},
                release : ReleaseDirs, pending : SUBSET Files, id : 1..(nextId - 1)]
RollbackRow == [step : {"reverting", "failed", "idle"},
                record : [id : 1..(nextId - 1), file : Files]]

Typed ==
  /\ schema \subseteq Files /\ left \subseteq Files
  /\ nextId \in Nat \ {0}
  /\ migrations \subseteq [id : 1..(nextId - 1), file : Files]
  /\ recordedBy \in [Files -> SUBSET Files]
  /\ process \in [Processes -> [step : {"idle"}] \cup RunRow \cup RecordRow \cup RollbackRow]
  /\ starts \in 0..MaxStarts /\ faults \in 0..MaxFaults

\* A run has recorded what is not pending any more, or found it recorded.
RunsAreInOrder ==
  \A p \in Processes :
    process[p].step \in {"pending", "applied", "recorded", "succeeded"} =>
      /\ process[p].pending \subseteq process[p].release
      /\ process[p].release \ process[p].pending \subseteq Applied
      /\ process[p].pending = {} <=> process[p].step = "succeeded"

\* A record that waits for its COMMIT is the only one of its file, and was given its id after
\* those of the files that went before it.
RecordsAreClaimed ==
  \A p \in Processes : process[p].step = "recorded" =>
    /\ Current(p) \notin Applied
    /\ \A q \in Processes \ {p} : process[q].step = "recorded" => Current(q) # Current(p)
    /\ \A m \in migrations :
         m.file \in process[p].release \ process[p].pending => m.id < process[p].id

\* While a rollback is under way nothing else is, and it removes the newest record.
RollbackIsAlone ==
  \A p \in Processes : process[p].step = "reverting" =>
    /\ \A q \in Processes \ {p} : process[q].step = "idle"
    /\ process[p].record \in migrations
    /\ \A m \in migrations : m.id <= process[p].record.id

\* What a record was made after has the smaller id, so that it is rolled back after it.
IdsAreInOrder ==
  \A m, n \in migrations :
    n.file \in recordedBy[m.file] /\ n.file < m.file => n.id < m.id

IInv ==
  /\ Typed
  /\ RunsAreInOrder
  /\ RecordsAreClaimed
  /\ RollbackIsAlone
  /\ IdsAreInOrder
  /\ RecordsMatchSchema
  /\ RecordedInOrder

=============================================================================
