------------------------------ MODULE RedisClient ------------------------------
(***************************************************************************)
(* The hand-written Redis client of the server: commands are written to a  *)
(* socket one after the other, and a reply belongs to the oldest command   *)
(* that waits for one.                                                     *)
(*   server/src/jobs/queue.ts       MinimalRedisClient                     *)
(*   server/src/services/cache.ts   RedisCacheClient, the same but for its *)
(*                                  commands                               *)
(*                                                                         *)
(* What a command does in Redis is left to the module that extends this    *)
(* one.  Left out: the wire format; replies cut into chunks, which the     *)
(* client puts together before it looks at them.                           *)
(***************************************************************************)
EXTENDS Naturals, Sequences

CONSTANTS
  Nil,           \* the null a promise may resolve with; also: no answer yet
  Greeting,      \* the +OK to AUTH
  HasPassword    \* whether REDIS_URL has a password

VARIABLES
  conn,      \* the connection: one per process, never made again
  wire,      \* commands Redis has still to execute
  replies,   \* replies on their way back
  buffer,    \* replies nobody was waiting for when they arrived
  waiting,   \* this.queue: the callers that wait, oldest first
  answered   \* the callers whose promise has resolved, and with what

client == <<conn, wire, replies, buffer, waiting, answered>>

Auth == [op |-> "AUTH"]

ClientInit ==
  /\ conn = "connecting"
  /\ wire = << >>
  /\ replies = << >>
  /\ buffer = << >>
  /\ waiting = << >>
  /\ answered = << >>

IsConnected == conn = "up"

\* AUTH is written without an entry in the queue.
Connect ==
  /\ conn = "connecting"
  /\ conn' = "up"
  /\ wire' = IF HasPassword THEN <<Auth>> ELSE << >>
  /\ UNCHANGED <<replies, buffer, waiting, answered>>

\* send(), on a connection that is up.
Send(c, command) ==
  /\ wire' = Append(wire, command)
  /\ waiting' = Append(waiting, c)
  /\ UNCHANGED <<conn, replies, buffer, answered>>

\* Redis executes the oldest command.
Executed(reply) ==
  /\ wire' = Tail(wire)
  /\ replies' = Append(replies, reply)
  /\ UNCHANGED <<conn, buffer, waiting, answered>>

\* A promise that has resolved: its caller goes on.
Resolved(c) == \E i \in 1..Len(answered) : answered[i].caller = c

AnswerTo(c) ==
  answered[CHOOSE i \in 1..Len(answered) : answered[i].caller = c].reply

Taken(c) == answered' = SelectSeq(answered, LAMBDA a : a.caller # c)

Shortest(a, b) == IF Len(a) < Len(b) THEN Len(a) ELSE Len(b)

\* A reply arrives and flushBuffer gives the replies in the buffer to the callers
\* that wait, one to each, as far as both go.
Arrive ==
  LET arrived == Append(buffer, Head(replies))
      n == Shortest(arrived, waiting)
  IN  /\ conn = "up"
      /\ replies # << >>
      /\ replies' = Tail(replies)
      /\ buffer' = SubSeq(arrived, n + 1, Len(arrived))
      /\ waiting' = SubSeq(waiting, n + 1, Len(waiting))
      /\ answered' = answered \o [i \in 1..n |-> [caller |-> waiting[i], reply |-> arrived[i]]]
      /\ UNCHANGED <<conn, wire>>

\* The socket fails: what was on its way is gone and everybody that waits gets null.
SocketError ==
  /\ conn # "down"
  /\ conn' = "down"
  /\ wire' = << >>
  /\ replies' = << >>
  /\ waiting' = << >>
  /\ answered' = answered \o [i \in 1..Len(waiting) |-> [caller |-> waiting[i], reply |-> Nil]]
  /\ UNCHANGED buffer

\* The other side closes it: nobody that waits is told.
SocketClose ==
  /\ conn = "up"
  /\ conn' = "down"
  /\ wire' = << >>
  /\ replies' = << >>
  /\ UNCHANGED <<buffer, waiting, answered>>

\* A new process.
ClientRestart ==
  /\ conn' = "connecting"
  /\ wire' = << >>
  /\ replies' = << >>
  /\ buffer' = << >>
  /\ waiting' = << >>
  /\ answered' = << >>

=============================================================================
