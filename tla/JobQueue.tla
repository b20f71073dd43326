-------------------------------- MODULE JobQueue --------------------------------
(***************************************************************************)
(* The background job queue: enqueueing, the polling loop, running a job,  *)
(* its retries, the dead-letter list and the in-memory form that is used   *)
(* while Redis is not connected.                                           *)
(*   server/src/jobs/queue.ts       QueueServiceClass                      *)
(*   server/src/jobs/index.ts       a processor for every queue            *)
(*                                                                         *)
(* Left out: statistics, the length of back-off delays (a retried job may  *)
(* be due or not), the processors themselves, which succeed or throw.      *)
(* Name_Variant is Name with a plausible mistake in it, as in Escrow.      *)
(***************************************************************************)
EXTENDS RedisClient, FiniteSets

CONSTANTS
  Jobs,
  QueueOf,       \* the queue each job is for
  QueueNames,    \* JOB_QUEUES in their order
  Length,        \* a number, the reply to an RPUSH
  Refusal,       \* a reply that begins with "-": the command did nothing
  MaxAttempts,   \* MAX_ATTEMPTS of queue.ts
  MaxFaults      \* bound: lost connections, restarts and refused commands

Queues == {QueueNames[i] : i \in 1..Len(QueueNames)}

Entry == [job : Jobs, attempts : 0..MaxAttempts]

VARIABLES
  lists,      \* Redis: the list of each queue
  dead,       \* jobs in a dead-letter list of Redis
  mem,        \* memQueues of this process
  memDead,    \* and its dead-letter lists
  enqueuing,  \* jobs whose enqueue() is under way
  enqueued,   \* jobs whose enqueue() has returned, or stopped with its process
  refused,    \* jobs whose enqueue() threw
  poller,     \* pollLoop: the queue it is at and what it does there
  running,    \* runJob, until its promise resolves
  done,       \* jobs whose processor succeeded
  lost,       \* history: jobs that only the socket or the process had when it stopped, and
              \* jobs whose push was refused
  faults

store == <<lists, dead, mem, memDead>>
calls == <<enqueuing, enqueued, refused>>
work  == <<calls, poller, running, done>>
vars  == <<client, store, work, lost, faults>>

Init ==
  /\ ClientInit
  /\ lists = [q \in Queues |-> << >>]
  /\ dead = {}
  /\ mem = [q \in Queues |-> << >>]
  /\ memDead = {}
  /\ enqueuing = {}
  /\ enqueued = {}
  /\ refused = {}
  /\ poller = [at |-> 1, step |-> "dequeue"]
  /\ running = {}
  /\ done = {}
  /\ lost = {}
  /\ faults = 0

\* Commands, and who waits for one; each waits for one at a time.
Rpush(list, entry) == [op |-> "RPUSH", list |-> list, entry |-> entry]
Lpop(list) == [op |-> "LPOP", list |-> list]
Bury(entry) == [op |-> "BURY", entry |-> entry]

Poll == <<"poll">>
EnqueueOf(j) == <<"enqueue", j>>
RunOf(r) == <<"run", r.entry.job>>

Commands ==
  {Auth} \cup {Lpop(q) : q \in Queues} \cup {Rpush(q, e) : q \in Queues, e \in Entry}
         \cup {Bury(e) : e \in Entry}
Replies  == {Nil, Greeting, Length, Refusal} \cup Entry
Callers  == {Poll} \cup {EnqueueOf(j) : j \in Jobs} \cup {<<"run", j>> : j \in Jobs}

\* Redis executes a command: an LPOP takes its entry off the list.
RedisStep_Peeks ==
  LET command == Head(wire)
  IN  /\ wire # << >>
      /\ CASE command.op = "AUTH"  -> Executed(Greeting) /\ UNCHANGED <<lists, dead>>
           [] command.op = "RPUSH" ->
                /\ Executed(Length)
                /\ lists' = [lists EXCEPT ![command.list] = Append(@, command.entry)]
                /\ UNCHANGED dead
           [] command.op = "BURY"  -> /\ Executed(Length)
                                      /\ dead' = dead \cup {command.entry.job}
                                      /\ UNCHANGED lists
           [] command.op = "LPOP"  ->
                /\ Executed(IF lists[command.list] = << >> THEN Nil ELSE Head(lists[command.list]))
                /\ UNCHANGED <<lists, dead>>
      /\ UNCHANGED <<mem, memDead, work, lost, faults>>

RedisStep ==
  LET command == Head(wire)
  IN  /\ wire # << >>
      /\ CASE command.op = "AUTH"  -> Executed(Greeting) /\ UNCHANGED <<lists, dead>>
           [] command.op = "RPUSH" ->
                /\ Executed(Length)
                /\ lists' = [lists EXCEPT ![command.list] = Append(@, command.entry)]
                /\ UNCHANGED dead
           [] command.op = "BURY"  -> /\ Executed(Length)
                                      /\ dead' = dead \cup {command.entry.job}
                                      /\ UNCHANGED lists
           [] command.op = "LPOP"  ->
                IF lists[command.list] = << >>
                THEN Executed(Nil) /\ UNCHANGED <<lists, dead>>
                ELSE /\ Executed(Head(lists[command.list]))
                     /\ lists' = [lists EXCEPT ![command.list] = Tail(@)]
                     /\ UNCHANGED dead
      /\ UNCHANGED <<mem, memDead, work, lost, faults>>

\* The jobs in a sequence of replies, and in the pushes among commands.
JobsIn(s) == {s[i].job : i \in {k \in 1..Len(s) : s[k] \in Entry}}

Carried(commands) ==
  {commands[i].entry.job : i \in {k \in 1..Len(commands) : commands[k].op \in {"RPUSH", "BURY"}}}

\* Redis refuses a command (it is out of memory, loading, or wants a password).
Refuse ==
  /\ wire # << >>
  /\ faults < MaxFaults                                    \* bound
  /\ faults' = faults + 1
  /\ Executed(Refusal)
  /\ lost' = lost \cup Carried(<<Head(wire)>>)
  /\ UNCHANGED <<store, work>>

\* The client's own steps.
Socket ==
  /\ \/ (Connect \/ Arrive) /\ UNCHANGED <<lost, faults>>
     \/ /\ SocketError \/ SocketClose
        /\ faults < MaxFaults                              \* bound
        /\ faults' = faults + 1
        /\ lost' = lost \cup Carried(wire) \cup JobsIn(replies)
  /\ UNCHANGED <<store, work>>

-----------------------------------------------------------------------------
\* enqueue(): to Redis, or to memory while it is not connected.
Enqueue(j) ==
  LET entry == [job |-> j, attempts |-> 0]
  IN  /\ j \notin enqueuing \cup enqueued \cup refused
      /\ IF IsConnected
         THEN /\ Send(EnqueueOf(j), Rpush(QueueOf[j], entry))
              /\ enqueuing' = enqueuing \cup {j}
              /\ UNCHANGED <<mem, enqueued>>
         ELSE /\ mem' = [mem EXCEPT ![QueueOf[j]] = Append(@, entry)]
              /\ enqueued' = enqueued \cup {j}
              /\ UNCHANGED <<client, enqueuing>>
      /\ UNCHANGED <<lists, dead, memDead, refused, poller, running, done, lost, faults>>

\* It returns the job's id whatever the push was answered; a refusal it throws.
EnqueueReturns(j) ==
  /\ j \in enqueuing
  /\ Resolved(EnqueueOf(j))
  /\ Taken(EnqueueOf(j))
  /\ enqueuing' = enqueuing \ {j}
  /\ IF AnswerTo(EnqueueOf(j)) = Refusal
     THEN refused' = refused \cup {j} /\ UNCHANGED enqueued
     ELSE enqueued' = enqueued \cup {j} /\ UNCHANGED refused
  /\ UNCHANGED <<conn, wire, replies, buffer, waiting, store, poller, running, done, lost,
                 faults>>

-----------------------------------------------------------------------------
(* pollLoop: the queues in turn, one dequeue at a time.                    *)

NextQueue == [at |-> (poller.at % Len(QueueNames)) + 1, step |-> "dequeue"]

Here == QueueNames[poller.at]

\* runJob is started and not awaited.
Started(entry) ==
  running' = running \cup
    {[entry |-> [entry EXCEPT !.attempts = @ + 1], queue |-> Here, step |-> "processing"]}

Dequeue ==
  /\ poller.step = "dequeue"
  /\ IF IsConnected
     THEN /\ Send(Poll, Lpop(Here))
          /\ poller' = [poller EXCEPT !.step = "popping"]
          /\ UNCHANGED <<mem, running>>
     ELSE /\ UNCHANGED client
          /\ poller' = NextQueue
          /\ \/ mem[Here] = << >> /\ UNCHANGED <<mem, running>>
             \/ /\ mem[Here] # << >>
                /\ Started(Head(mem[Here]))
                /\ mem' = [mem EXCEPT ![Here] = Tail(@)]
             \/ /\ mem[Here] # << >>
                /\ Head(mem[Here]).attempts > 0                \* not due yet
                /\ mem' = [mem EXCEPT ![Here] = Append(Tail(@), Head(@))]
                /\ UNCHANGED running
  /\ UNCHANGED <<lists, dead, memDead, calls, done, lost, faults>>

\* What only this process and its socket have of the jobs.
InHand ==
  Carried(wire) \cup JobsIn(replies) \cup JobsIn(buffer) \cup memDead
    \cup UNION {JobsIn(mem[q]) : q \in Queues}
    \cup UNION {JobsIn(<<answered[i].reply>>) : i \in 1..Len(answered)}
    \cup {r.entry.job : r \in {p \in running : p.step = "processing"}}

\* The process stops: its memory is gone, the lists of Redis are not.
Stopped ==
  /\ ClientRestart
  /\ mem' = [q \in Queues |-> << >>]
  /\ enqueued' = enqueued \cup enqueuing
  /\ enqueuing' = {}
  /\ poller' = [at |-> 1, step |-> "dequeue"]
  /\ running' = {}
  /\ memDead' = {}
  /\ lost' = lost \cup InHand
  /\ UNCHANGED <<lists, dead, refused, done>>

\* The reply to the LPOP: nothing, a job, or what was meant for somebody else.  Of that, a
\* text is discarded, and a number parses: runJob then throws before its try.  It and a
\* refusal are rejections nobody handles, which end the process.  A retried job that is not
\* due goes back to the end of its list.
Popped ==
  LET raw == AnswerTo(Poll)
      quiet == UNCHANGED <<lists, dead, memDead, calls, done, lost>>
  IN  /\ poller.step = "popping"
      /\ Resolved(Poll)
      /\ \/ /\ raw \in {Nil, Greeting}
            /\ Taken(Poll)
            /\ poller' = NextQueue
            /\ quiet
            /\ UNCHANGED <<conn, wire, replies, buffer, waiting, mem, running>>
         \/ raw \in {Length, Refusal} /\ Stopped
         \/ /\ raw \in Entry
            /\ Started(raw)
            /\ Taken(Poll)
            /\ poller' = NextQueue
            /\ quiet
            /\ UNCHANGED <<conn, wire, replies, buffer, waiting, mem>>
         \/ /\ raw \in Entry /\ raw.attempts > 0               \* not due yet
            /\ Taken(Poll)
            /\ IF IsConnected
               THEN /\ wire' = Append(wire, Rpush(Here, raw))
                    /\ waiting' = Append(waiting, Poll)
                    /\ poller' = [poller EXCEPT !.step = "requeuing"]
                    /\ UNCHANGED mem
               ELSE /\ mem' = [mem EXCEPT ![Here] = Append(@, raw)]
                    /\ poller' = NextQueue
                    /\ UNCHANGED <<wire, waiting>>
            /\ quiet
            /\ UNCHANGED <<conn, replies, buffer, running>>
      /\ UNCHANGED faults

\* The reply to the push of a job that was not due; nobody handles a refusal.
Requeued ==
  /\ poller.step = "requeuing"
  /\ Resolved(Poll)
  /\ \/ AnswerTo(Poll) = Refusal /\ Stopped
     \/ /\ AnswerTo(Poll) # Refusal
        /\ Taken(Poll)
        /\ poller' = NextQueue
        /\ UNCHANGED <<conn, wire, replies, buffer, waiting, store, calls, running, done, lost>>
  /\ UNCHANGED faults

-----------------------------------------------------------------------------
(* runJob.                                                                 *)

Succeed(r) ==
  /\ r.step = "processing"
  /\ running' = running \ {r}
  /\ done' = done \cup {r.entry.job}
  /\ UNCHANGED <<client, store, calls, poller, lost, faults>>

MayRetry_OnceMore(r) == r.entry.attempts <= MaxAttempts
MayRetry(r) == r.entry.attempts < MaxAttempts

\* The processor throws: the job is queued again, or buried after its last attempt.
Throw(r) ==
  /\ r.step = "processing"
  /\ IF IsConnected
     THEN /\ Send(RunOf(r), IF MayRetry(r) THEN Rpush(r.queue, r.entry)
                            ELSE Bury(r.entry))
          /\ running' = (running \ {r}) \cup {[r EXCEPT !.step = "pushing"]}
          /\ UNCHANGED <<mem, memDead>>
     ELSE /\ running' = running \ {r}
          /\ IF MayRetry(r)
             THEN mem' = [mem EXCEPT ![r.queue] = Append(@, r.entry)] /\ UNCHANGED memDead
             ELSE memDead' = memDead \cup {r.entry.job} /\ UNCHANGED mem
          /\ UNCHANGED client
  /\ UNCHANGED <<lists, dead, calls, poller, done, lost, faults>>

Pushed(r) ==
  /\ r.step = "pushing"
  /\ Resolved(RunOf(r))
  /\ \/ AnswerTo(RunOf(r)) = Refusal /\ Stopped           \* nobody handles it
     \/ /\ AnswerTo(RunOf(r)) # Refusal
        /\ Taken(RunOf(r))
        /\ running' = running \ {r}
        /\ UNCHANGED <<conn, wire, replies, buffer, waiting, store, calls, poller, done, lost>>
  /\ UNCHANGED faults

Restart ==
  /\ faults < MaxFaults                                    \* bound
  /\ faults' = faults + 1
  /\ Stopped

PollStep == Dequeue \/ Popped \/ Requeued

RunStep(r) == Succeed(r) \/ Throw(r) \/ Pushed(r)

Next ==
  \/ RedisStep
  \/ Refuse
  \/ Socket
  \/ \E j \in Jobs : Enqueue(j) \/ EnqueueReturns(j)
  \/ PollStep
  \/ \E r \in running : RunStep(r)
  \/ Restart

Spec == Init /\ [][Next]_vars

-----------------------------------------------------------------------------
(* Properties.                                                             *)

TypeOK ==
  /\ conn \in {"connecting", "up", "down"}
  /\ wire \in Seq(Commands)
  /\ replies \in Seq(Replies)
  /\ buffer \in Seq(Replies)
  /\ waiting \in Seq(Callers)
  /\ answered \in Seq([caller : Callers, reply : Replies])
  /\ lists \in [Queues -> Seq(Entry)]
  /\ dead \subseteq Jobs
  /\ mem \in [Queues -> Seq(Entry)]
  /\ memDead \subseteq Jobs
  /\ enqueuing \subseteq Jobs
  /\ enqueued \subseteq Jobs
  /\ refused \subseteq Jobs
  /\ lost \subseteq Jobs
  /\ poller \in [at : 1..Len(QueueNames), step : {"dequeue", "popping", "requeuing"}]
  /\ running \subseteq [entry : Entry, queue : Queues, step : {"processing", "pushing"}]
  /\ done \subseteq Jobs
  /\ faults \in 0..MaxFaults

\* Where job j can be met again.
Waits(j) ==
  \/ \E q \in Queues : j \in JobsIn(lists[q]) \cup JobsIn(mem[q])
  \/ j \in Carried(wire) \cup JobsIn(replies)
  \/ \E i \in 1..Len(answered) :
       answered[i].caller = Poll /\ answered[i].reply \in Entry /\ answered[i].reply.job = j

Performs(j) == \E r \in running : r.entry.job = j /\ r.step = "processing"

\* A job is run by one runJob at a time, and while it is run it waits nowhere:
\* whatever the connection does, nothing hands it out twice.
OneRunPerJob ==
  \A j \in Jobs : Performs(j) =>
    /\ Cardinality({r \in running : r.entry.job = j /\ r.step = "processing"}) = 1
    /\ ~Waits(j)
    /\ j \notin dead \cup memDead \cup done

\* A job is run by the processor of the queue it was pushed to.
RunsOnItsOwnQueue == \A r \in running : r.queue = QueueOf[r.entry.job]

\* A job that was accepted is queued, run, buried or done, unless the connection or the
\* process stopped while they alone had it, or Redis refused its push: nothing else takes a
\* job, and what is in a list of Redis outlives them.
NoJobLost ==
  \A j \in enqueued \ lost : Waits(j) \/ Performs(j) \/ j \in dead \cup memDead \cup done

\* And a job its caller was told of as failed is nowhere: the caller may enqueue it again.
RefusedIsNowhere ==
  \A j \in refused : ~Waits(j) /\ ~Performs(j) /\ j \notin dead \cup memDead \cup done

=============================================================================
