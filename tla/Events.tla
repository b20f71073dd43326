--------------------------------- MODULE Events ---------------------------------
(***************************************************************************)
(* Server-sent events: the hub with its replay buffer, and listeners that  *)
(* reconnect with the id of the last event they saw.                       *)
(*   server/src/services/sseEmitter.ts, server/src/routes/events.ts        *)
(*                                                                         *)
(* A listener is any EventSource that reconnects by itself.  The page's own *)
(* hook does not: it closes its stream on an error, so no id is ever sent.  *)
(* Left out: heartbeats; a broken connection the hub still has, which only  *)
(* takes writes nobody reads.                                              *)
(* Name_Variant is Name with a plausible mistake in it, as in Escrow.      *)
(***************************************************************************)
EXTENDS Sums, FiniteSets

CONSTANTS
  Users,
  Listeners,      \* users with an EventSource
  BufferSize,     \* REPLAY_BUFFER_SIZE
  MaxUnread,      \* MAX_BUFFERED_BYTES, in frames
  MaxEmitted,     \* bound: events
  MaxBreaks       \* bound: connections that break and servers that restart

Parameters == {BufferSize, MaxEmitted, MaxBreaks} \subseteq Nat

Connected == 0    \* the handshake, a frame without an id

Ids == 1..MaxEmitted

VARIABLES
  lastEventId,
  replayBuffer,
  clients,        \* registered at the hub
  online,         \* listeners with a stream, as far as they know
  frames,         \* written and not read yet
  lastSeen,       \* Last-Event-ID; 0: none
  received,       \* history: the events each listener read, with the server's run
  boot,           \* the server's run
  log,            \* history: events emitted
  evicted,        \* history: events a reconnecting listener missed and the buffer had lost
  skipped,        \* history: those still in it, but under an id of an earlier run or a lower one
  breaks

hub  == <<lastEventId, replayBuffer, clients>>
vars == <<hub, online, frames, lastSeen, received, boot, log, evicted, skipped, breaks>>

Init ==
  /\ lastEventId = 0
  /\ replayBuffer = << >>
  /\ clients = {}
  /\ online = {}
  /\ frames = [l \in Listeners |-> << >>]
  /\ lastSeen = [l \in Listeners |-> 0]
  /\ received = [l \in Listeners |-> << >>]
  /\ boot = 1
  /\ log = {}
  /\ evicted = {}
  /\ skipped = {}
  /\ breaks = 0

Break == breaks < MaxBreaks /\ breaks' = breaks + 1        \* bound

-----------------------------------------------------------------------------
\* remember(): the buffer keeps the newest BufferSize events.
Remembered(event) ==
  LET all == Append(replayBuffer, event)
  IN  SubSeq(all, IF Len(all) > BufferSize THEN Len(all) - BufferSize + 1 ELSE 1, Len(all))

\* replayMissed(): without an id, nothing.
Missed_OffByOne(l) ==
  LET hit(e) == e.id >= lastSeen[l] /\ l \in e.to
      missed == Chosen(replayBuffer, {i \in 1..Len(replayBuffer) : hit(replayBuffer[i])})
  IN  IF lastSeen[l] = 0 THEN << >> ELSE [i \in 1..Len(missed) |-> missed[i].id]

Missed(l) ==
  LET hit(e) == e.id > lastSeen[l] /\ l \in e.to
      missed == Chosen(replayBuffer, {i \in 1..Len(replayBuffer) : hit(replayBuffer[i])})
  IN  IF lastSeen[l] = 0 THEN << >> ELSE [i \in 1..Len(missed) |-> missed[i].id]

InBuffer(id) == \E i \in 1..Len(replayBuffer) : replayBuffer[i].id = id

\* Where listener l is in this run of the server: the id it read last, or 0 when it read that
\* in an earlier run.  A listener that has read nothing is nowhere.
ReadHere(l) ==
  LET n == Len(received[l])
  IN  IF n = 0 THEN {} ELSE {IF received[l][n].boot = boot THEN received[l][n].id ELSE 0}

\* The events of this run for l that are after that.
Unread(l) == {x \in log : x.boot = boot /\ l \in x.to /\ \E last \in ReadHere(l) : last < x.id}

Named(l, events) == {[to |-> l, boot |-> boot, id |-> x.id] : x \in events}

\* addClient(): the handshake, what was missed, and only then the registration.
AddClient(l) ==
  /\ l \notin online
  /\ online' = online \cup {l}
  /\ clients' = clients \cup {l}
  /\ frames' = [frames EXCEPT ![l] = <<Connected>> \o Missed(l)]
  /\ evicted' = evicted \cup Named(l, {x \in Unread(l) : ~InBuffer(x.id)})
  /\ skipped' = skipped \cup
       Named(l, {x \in Unread(l) : 0 \in ReadHere(l) /\ InBuffer(x.id) /\ x.id <= lastSeen[l]})
  /\ UNCHANGED <<lastEventId, replayBuffer, lastSeen, received, boot, log, breaks>>

\* deliver() to one client: one that does not read is dropped.
Stalled(l) == Len(frames[l]) + 1 > MaxUnread

\* emit() to some users, emitAll() to everybody connected.
Emit(to) ==
  LET id     == lastEventId + 1
      event  == [id |-> id, to |-> to]
      target == to \cap clients
  IN  /\ Cardinality(log) < MaxEmitted                       \* bound
      /\ lastEventId' = id
      /\ replayBuffer' = Remembered(event)
      /\ frames' = [l \in Listeners |->
           IF l \notin target THEN frames[l] ELSE IF Stalled(l) THEN << >> ELSE Append(frames[l], id)]
      /\ clients' = {l \in clients : ~(l \in target /\ Stalled(l))}
      /\ online'  = {l \in online : ~(l \in target /\ Stalled(l))}
      /\ log' = log \cup {[boot |-> boot, id |-> id, to |-> to]}
      /\ UNCHANGED <<lastSeen, received, boot, evicted, skipped, breaks>>

-----------------------------------------------------------------------------
(* Listeners and connections.                                              *)

\* An EventSource remembers the id of each event it dispatches.
Read(l) ==
  LET id == Head(frames[l])
  IN  /\ l \in online
      /\ frames[l] # << >>
      /\ frames' = [frames EXCEPT ![l] = Tail(@)]
      /\ IF id = Connected THEN UNCHANGED <<lastSeen, received>>
         ELSE /\ lastSeen' = [lastSeen EXCEPT ![l] = id]
              /\ received' = [received EXCEPT ![l] = Append(@, [boot |-> boot, id |-> id])]
      /\ UNCHANGED <<hub, online, boot, log, evicted, skipped, breaks>>

\* The connection breaks, with frames on it.
Disconnect(l) ==
  /\ l \in online
  /\ Break
  /\ online' = online \ {l}
  /\ clients' = clients \ {l}
  /\ frames' = [frames EXCEPT ![l] = << >>]
  /\ UNCHANGED <<lastEventId, replayBuffer, lastSeen, received, boot, log, evicted, skipped>>

\* The streams end, read to their end or not; ids and buffer are gone.
Restart ==
  /\ Break
  /\ clients' = {}
  /\ online' = {}
  /\ frames' = [l \in Listeners |-> << >>]
  /\ lastEventId' = 0
  /\ replayBuffer' = << >>
  /\ boot' = boot + 1
  /\ UNCHANGED <<lastSeen, received, log, evicted, skipped>>

-----------------------------------------------------------------------------
Next ==
  \/ \E l \in Listeners : AddClient(l) \/ Read(l) \/ Disconnect(l)
  \/ \E to \in SUBSET Users \ {{}} : Emit(to)
  \/ Restart

Spec == Init /\ [][Next]_vars

-----------------------------------------------------------------------------
(* Properties.                                                             *)

TypeOK ==
  /\ lastEventId \in 0..MaxEmitted
  /\ replayBuffer \in Seq([id : Ids, to : SUBSET Users])
  /\ Len(replayBuffer) <= BufferSize
  /\ clients \subseteq online
  /\ frames \in [Listeners -> Seq({Connected} \cup Ids)]
  /\ lastSeen \in [Listeners -> {0} \cup Ids]

\* What a listener reads from one run of the server is in order and without repetitions; and
\* between one event it reads and the next nothing is left out, of the run it goes on in or
\* of the one it comes back to, but events the buffer had lost when it reconnected and, after
\* a restart, events whose new ids were not above the old one it came back with.
NoGapsNorRepeats ==
  \A l \in Listeners : \A i \in 1..(Len(received[l]) - 1) :
    LET e == received[l][i]
        f == received[l][i + 1]
    IN  /\ e.boot = f.boot => e.id < f.id
        /\ \A x \in log :
             /\ x.boot = f.boot /\ l \in x.to /\ x.id < f.id
             /\ e.boot = f.boot => e.id < x.id
             => [to |-> l, boot |-> x.boot, id |-> x.id] \in evicted \cup skipped

-----------------------------------------------------------------------------
(* The inductive invariant.                                                *)

\* The events of this run that l is to have, but for those the buffer had lost or skips.
Owed(l) ==
  {x.id : x \in {y \in log :
     /\ y.boot = boot /\ l \in y.to
     /\ [to |-> l, boot |-> y.boot, id |-> y.id] \notin evicted \cup skipped}}

\* What is on its way to a listener is in order and goes on from what it read, and leaves out
\* nothing: an event that is not there is older.
StreamIsWhole(stream, last, owed) ==
  /\ \A j, k \in 1..Len(stream) : j < k => stream[j] < stream[k]
  /\ \A k \in 1..Len(stream) : \A id \in last : stream[k] = Connected \/ id < stream[k]
  /\ \A x \in owed :
       \/ \E k \in 1..Len(stream) : stream[k] = x
       \/ /\ \A k \in 1..Len(stream) : stream[k] = Connected \/ x < stream[k]
          /\ \A id \in last : x <= id

Logged == [boot : 1..boot, id : Nat \ {0}, to : SUBSET Users]

\* The log has every event once; those of this run have the ids so far.
LogIsWhole ==
  /\ log \subseteq Logged /\ IsFiniteSet(log) /\ lastEventId <= Cardinality(log)
  /\ Cardinality(log) <= MaxEmitted
  /\ \A x \in log : x.boot = boot => x.id <= lastEventId
  /\ \A x, y \in log : x.boot = y.boot /\ x.id = y.id => x = y

\* The buffer has events of this run, in order.
BufferIsOfLog ==
  /\ replayBuffer \in Seq([id : 1..lastEventId, to : SUBSET Users])
  /\ Len(replayBuffer) <= BufferSize
  /\ \A i, j \in 1..Len(replayBuffer) : i < j => replayBuffer[i].id < replayBuffer[j].id
  /\ \A i \in 1..Len(replayBuffer) :
       [boot |-> boot, id |-> replayBuffer[i].id, to |-> replayBuffer[i].to] \in log

IInv ==
  /\ boot \in Nat \ {0} /\ breaks \in Nat /\ lastEventId \in Nat
  /\ clients = online /\ online \subseteq Listeners
  /\ frames \in [Listeners -> Seq(0..lastEventId)]
  /\ received \in [Listeners -> Seq([boot : 1..boot, id : 1..MaxEmitted])]
  /\ lastSeen = [l \in Listeners |-> IF received[l] = << >> THEN 0
                                     ELSE received[l][Len(received[l])].id]
  /\ \A l \in Listeners : \A i \in 1..Len(received[l]) :
       received[l][i].boot = boot => received[l][i].id <= lastEventId
  /\ LogIsWhole
  /\ BufferIsOfLog
  /\ \A l \in online : StreamIsWhole(frames[l], ReadHere(l), Owed(l))
  /\ NoGapsNorRepeats

=============================================================================
