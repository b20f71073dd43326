------------------------------- MODULE FraudFlags -------------------------------
(***************************************************************************)
(* Failed trades of one user and the flags they raise.                     *)
(*   server/src/services/fraudDetection.ts     recordFailedTrade and on    *)
(*   server/src/services/tradeVerification.ts  who calls it                *)
(*   server/src/services/cache.ts              get and set: Redis, and the *)
(*                                             memory of each process      *)
(*                                                                         *)
(* The history is one cache entry, read, changed and written back by       *)
(* several tasks of several processes at a time. A process connects to     *)
(* Redis when it starts, and not again when it has lost the connection:    *)
(* connect() returns the promise of the first one.                         *)
(* Name_Variant is Name with a plausible mistake in it, as in Escrow.      *)
(***************************************************************************)
EXTENDS Sums, SequencesExt

CONSTANTS
  Nil,            \* no entry in the cache
  Processes,
  Tasks,          \* bound: calls under way at once
  Threshold,      \* FAILED_TRADE_THRESHOLD
  Window,         \* FAILED_TRADE_WINDOW_SECONDS
  MaxFailures,    \* bound: failed trades
  MaxTime         \* bound

Parameters == {Threshold, MaxFailures, MaxTime} \subseteq Nat /\ Window \in Nat \ {0}

Failures == 1..MaxFailures
Times    == 0..MaxTime

\* A cache entry: the failures it lists and when it ends.
EntryType == [list : Seq(Failures), ends : Nat]

VARIABLES
  now,
  at,         \* the time of each failure so far
  redis,
  mem,        \* the in-memory cache of each process
  link,       \* of each process to Redis
  task,
  flags

vars == <<now, at, redis, mem, link, task, flags>>

Idle == [step |-> "idle", process |-> CHOOSE p \in Processes : TRUE, failure |-> 0, list |-> << >>]

Init ==
  /\ now = 0
  /\ at = << >>
  /\ redis = Nil
  /\ mem = [p \in Processes |-> Nil]
  /\ link = [p \in Processes |-> "connecting"]
  /\ task = [t \in Tasks |-> Idle]
  /\ flags = << >>

-----------------------------------------------------------------------------
(* The cache.                                                              *)

ListOf(entry) == IF entry = Nil THEN << >> ELSE entry.list

\* get(): what Redis has; when it has nothing, or cannot be asked, what the process
\* remembers.
Got(p) ==
  {ListOf(entry) : entry \in IF link[p] = "up" /\ redis # Nil THEN {redis, mem[p]} ELSE {mem[p]}}

\* set(): in Redis, unless that fails, and in memory.
Set(p, list, ttl) ==
  LET entry == [list |-> list, ends |-> now + ttl]
  IN  /\ mem' = [mem EXCEPT ![p] = entry]
      /\ redis' \in IF link[p] = "up" THEN {redis, entry} ELSE {redis}

-----------------------------------------------------------------------------
(* recordFailedTrade and resetFailedTrades.                                *)

\* The time is taken before the history is read.
Fail(t, p) ==
  /\ task[t].step = "idle"
  /\ Len(at) < MaxFailures                                 \* bound
  /\ at' = Append(at, now)
  /\ task' = [task EXCEPT ![t] = [Idle EXCEPT !.step = "reading", !.process = p,
                                              !.failure = Len(at) + 1]]
  /\ UNCHANGED <<now, redis, mem, link, flags>>

\* What is left of the history in the window, and this failure.
Recent_Untrimmed(history, f) == Append(history, f)

Recent(history, f) ==
  LET inWindow == {i \in 1..Len(history) : at[history[i]] + Window > at[f]}
  IN  Append(Chosen(history, inWindow), f)

ReadHistory(t) ==
  /\ task[t].step = "reading"
  /\ \E history \in Got(task[t].process) :
       task' = [task EXCEPT ![t].step = "writing", ![t].list = Recent(history, task[t].failure)]
  /\ UNCHANGED <<now, at, redis, mem, link, flags>>

WriteHistory(t) ==
  /\ task[t].step = "writing"
  /\ Set(task[t].process, task[t].list, Window)
  /\ task' = IF Len(task[t].list) < Threshold THEN [task EXCEPT ![t] = Idle]
             ELSE [task EXCEPT ![t].step = "flagging"]
  /\ UNCHANGED <<now, at, link, flags>>

\* INSERT ... ON CONFLICT: at most one open flag.
FlagAccount(t) ==
  /\ task[t].step = "flagging"
  /\ flags' = IF \E i \in 1..Len(flags) : flags[i].status = "open" THEN flags
              ELSE Append(flags, [status |-> "open", list |-> task[t].list])
  /\ task' = [task EXCEPT ![t] = Idle]
  /\ UNCHANGED <<now, at, redis, mem, link>>

\* An empty list for a second.
ResetFailedTrades(p) ==
  /\ Set(p, << >>, 1)
  /\ UNCHANGED <<now, at, link, task, flags>>

\* PATCH /fraud-flags/:id.
ReviewFraudFlag(i) ==
  /\ flags[i].status = "open"
  /\ flags' = [flags EXCEPT ![i].status = "closed"]
  /\ UNCHANGED <<now, at, redis, mem, link, task>>

-----------------------------------------------------------------------------
Connect(p) ==
  /\ link[p] = "connecting"
  /\ link' = [link EXCEPT ![p] = "up"]
  /\ UNCHANGED <<now, at, redis, mem, task, flags>>

\* The connection fails or breaks: until a restart the process has its memory only.
LoseRedis(p) ==
  /\ link[p] # "down"
  /\ link' = [link EXCEPT ![p] = "down"]
  /\ UNCHANGED <<now, at, redis, mem, task, flags>>

Restart(p) ==
  /\ mem' = [mem EXCEPT ![p] = Nil]
  /\ link' = [link EXCEPT ![p] = "connecting"]
  /\ task' = [t \in Tasks |-> IF task[t].process = p THEN Idle ELSE task[t]]
  /\ UNCHANGED <<now, at, redis, flags>>

\* Entries expire.
Kept(entry) == IF entry # Nil /\ entry.ends > now + 1 THEN entry ELSE Nil

Tick ==
  /\ now < MaxTime                                         \* bound
  /\ now' = now + 1
  /\ redis' = Kept(redis)
  /\ mem' = [p \in Processes |-> Kept(mem[p])]
  /\ UNCHANGED <<at, link, task, flags>>

Next ==
  \/ \E t \in Tasks : \/ \E p \in Processes : Fail(t, p)
                      \/ ReadHistory(t) \/ WriteHistory(t) \/ FlagAccount(t)
  \/ \E p \in Processes : \/ ResetFailedTrades(p)
                             \/ Connect(p) \/ LoseRedis(p) \/ Restart(p)
  \/ \E i \in 1..Len(flags) : ReviewFraudFlag(i)
  \/ Tick

Spec == Init /\ [][Next]_vars

-----------------------------------------------------------------------------
(* Properties.                                                             *)

TypeOK ==
  /\ now \in Times
  /\ at \in Seq(Times)
  /\ redis \in {Nil} \cup EntryType
  /\ mem \in [Processes -> {Nil} \cup EntryType]
  /\ link \in [Processes -> {"connecting", "up", "down"}]
  /\ \A t \in Tasks : task[t].list \in Seq(Failures)
  /\ \A i \in 1..Len(flags) : flags[i].status \in {"open", "closed"}

\* Whatever writes of the history are lost, and whatever old copy of it comes back from a
\* process's memory, an account is flagged only for enough different failures that lie
\* within one window of the one that raised the flag.
FlagsAreEarned ==
  \A i \in 1..Len(flags) :
    LET list == flags[i].list
    IN  /\ Len(list) >= Threshold
        /\ IsInjective(list)
        /\ \A k \in 1..Len(list) : at[list[k]] + Window > at[Last(list)]

-----------------------------------------------------------------------------
(* The inductive invariant.                                                *)

\* A list of different failures among the n so far; and one that a failure ends with, all in
\* its window, when the failures were at the times a.
Distinct(n, list) == list \in Seq(1..n) /\ IsInjective(list)

Earned(a, list) ==
  /\ Distinct(Len(a), list) /\ list # << >>
  /\ \A k \in 1..Len(list) : a[list[k]] + Window > a[list[Len(list)]]

Lists(list, f) == \E k \in 1..Len(list) : list[k] = f

Histories == {ListOf(entry) : entry \in {redis} \cup {mem[p] : p \in Processes}}

\* What a task is doing, and what it has made of the history.
TaskType ==
  [step : {"idle", "reading", "writing", "flagging"},
   process : Processes \cup {Idle.process}, failure : Failures \cup {0}, list : Seq(Failures)]

FlagType == [status : {"open", "closed"}, list : Seq(Failures)]

OnItsWay(row) == row.step \in {"reading", "writing"}

TaskIsSound(a, row) ==
  /\ OnItsWay(row) => row.failure \in 1..Len(a) /\ row.process \in Processes
  /\ row.step \in {"idle", "reading"} => row.list = << >>
  /\ row.step \in {"writing", "flagging"} => Earned(a, row.list)
  /\ row.step = "flagging" => Len(row.list) >= Threshold

\* A failure that is on its way to the history is listed nowhere but by its own task.
FailureIsNew(row, others, histories) ==
  /\ \A list \in histories : ~Lists(list, row.failure)
  /\ \A other \in others : /\ OnItsWay(other) => other.failure # row.failure
                           /\ ~Lists(other.list, row.failure)

Typed ==
  /\ now \in Times
  /\ at \in Seq(Times) /\ Len(at) <= MaxFailures
  /\ redis \in {Nil} \cup EntryType
  /\ mem \in [Processes -> {Nil} \cup EntryType]
  /\ link \in [Processes -> {"connecting", "up", "down"}]
  /\ task \in [Tasks -> TaskType]
  /\ flags \in Seq(FlagType)

IInv ==
  /\ Typed
  /\ \A list \in Histories : Distinct(Len(at), list)
  /\ \A t \in Tasks : TaskIsSound(at, task[t])
  /\ \A t \in Tasks :
       OnItsWay(task[t])
         => FailureIsNew(task[t], {task[u] : u \in Tasks \ {t}}, Histories)
  /\ \A i \in 1..Len(flags) :
       Earned(at, flags[i].list) /\ Len(flags[i].list) >= Threshold

=============================================================================
