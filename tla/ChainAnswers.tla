----------------------------- MODULE ChainAnswers -----------------------------
(***************************************************************************)
(* What an answer about a transaction promises, whoever sent it and however *)
(* often: a call that succeeds has had its effect, a call that the contract *)
(* rejects never will, and any other error promises nothing.                *)
(*                                                                         *)
(* Abstract specification, implemented by Submission; Trade's Submit and    *)
(* LandLate are its two steps, with the answer and the effect in one.       *)
(***************************************************************************)
CONSTANT Calls

VARIABLES
  of,       \* the envelope each call sends, named for the call that built it; or NoCall
  landed,   \* the envelopes that took effect
  answer    \* what each call was told, if anything

CONSTANT NoCall

answerVars == <<of, landed, answer>>

Envelopes == {of[c] : c \in Calls} \ {NoCall}
Rejected == {of[c] : c \in {d \in Calls : answer[d] = "rejected"}}

AnswerInit ==
  /\ of = [c \in Calls |-> NoCall]
  /\ landed = {}
  /\ answer = [c \in Calls |-> "none"]

\* A call takes an envelope of its own, or one that was taken before.
Take(c, e) ==
  /\ of[c] = NoCall
  /\ e \in Envelopes \cup {c}
  /\ of' = [of EXCEPT ![c] = e]
  /\ UNCHANGED <<landed, answer>>

Land(e) ==
  /\ e \in Envelopes \ (landed \cup Rejected)
  /\ landed' = landed \cup {e}
  /\ UNCHANGED <<of, answer>>

Answer(c, a) ==
  /\ of[c] # NoCall
  /\ answer[c] = "none"
  /\ a = "success"  => of[c] \in landed
  /\ a = "rejected" => of[c] \notin landed
  /\ answer' = [answer EXCEPT ![c] = a]
  /\ UNCHANGED <<of, landed>>

AnswerNext ==
  \E c \in Calls :
    \/ \E e \in Calls : Take(c, e)
    \/ Land(c)
    \/ \E a \in {"success", "rejected", "unknown"} : Answer(c, a)

AnswerSpec == AnswerInit /\ [][AnswerNext]_answerVars

=============================================================================
