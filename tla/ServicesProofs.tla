---------------------------- MODULE ServicesProofs ----------------------------
(***************************************************************************)
(* Proofs about the flags, the events and the audit trail of MCServices,   *)
(* for any values of its constants.  A behaviour of MCServices is one of   *)
(* one component's, and so each component has an inductive invariant of    *)
(* its own, IInv in its module; the last section puts them together.       *)
(***************************************************************************)
EXTENDS MCServices, SumsTheorems, FiniteSetTheorems, TLAPS

-----------------------------------------------------------------------------
(* Sets and sequences.                                                     *)

\* An entry of a sequence is of its set.
LEMMA EntryOf ==
  ASSUME NEW S, NEW s \in Seq(S), NEW i \in 1..Len(s)
  PROVE  s[i] \in S
OBVIOUS

\* So is its last entry, if there is one.
LEMMA LastOf ==
  ASSUME NEW S, NEW s \in Seq(S), s # << >>
  PROVE  Len(s) \in 1..Len(s) /\ s[Len(s)] \in S
OBVIOUS

\* So are the first and those that follow it.
LEMMA HeadOf ==
  ASSUME NEW S, NEW s \in Seq(S), s # << >>
  PROVE  Head(s) \in S /\ Tail(s) \in Seq(S)
OBVIOUS

\* A sequence over a set is one over a larger set.
LEMMA Wider ==
  ASSUME NEW S, NEW T, S \subseteq T, NEW s \in Seq(S)
  PROVE  s \in Seq(T)
OBVIOUS

\* A sequence with one entry more.
LEMMA OneMore ==
  ASSUME NEW S, NEW s \in Seq(S), NEW e \in S
  PROVE  /\ Append(s, e) \in Seq(S) /\ Len(Append(s, e)) = Len(s) + 1 /\ Len(s) \in Nat
         /\ Append(s, e)[Len(s) + 1] = e /\ Append(s, e) # << >>
         /\ \A i \in 1..Len(s) : Append(s, e)[i] = s[i]
OBVIOUS

-----------------------------------------------------------------------------
(* The flags.                                                              *)

\* The instance's Chosen is that of Sums.
LEMMA FraudChosen == \A s, I : F!Chosen(s, I) = Chosen(s, I)
BY DEF F!Chosen, F!PartlyChosen, Chosen, PartlyChosen

\* What is left of a history, and the failure that is not in it.
LEMMA RecentIsEarned ==
  ASSUME F!Parameters, F!Typed, NEW list, F!Distinct(Len(at), list), NEW f \in 1..Len(at), ~F!Lists(list, f)
  PROVE  /\ F!Earned(at, F!Recent(list, f)) /\ F!Recent(list, f) \in Seq(F!Failures)
         /\ \A g : F!Lists(F!Recent(list, f), g) => g = f \/ F!Lists(list, g)
<1> DEFINE I == {i \in 1..Len(list) : at[list[i]] + FraudWindow > at[f]}
           c == F!Chosen(list, I)
           r == Append(c, f)
           n == Len(c)
<1>1. list \in Seq(1..Len(at)) /\ I \in SUBSET (1..Len(list))
  BY DEF F!Distinct
<1>2. c \in Seq(1..Len(at))
  BY <1>1, FraudChosen, ChosenTraces
<1>3. PICK tr : Traces(list, I, Len(list), c, tr)
  BY <1>1, FraudChosen, ChosenTraces
<1> HIDE DEF c
<1>4. /\ tr \in [1..n -> I] /\ \A j, k \in 1..n : j < k => tr[j] < tr[k]
      /\ \A k \in 1..n : c[k] = list[tr[k]]
  <2>1. tr \in [1..n -> {i \in I : i <= Len(list)}]
    BY <1>3 DEF Traces
  <2>2. QED
    BY <1>3, <2>1 DEF Traces
<1>5. n \in Nat /\ r \in Seq(1..Len(at)) /\ Len(r) = n + 1 /\ r[n+1] = f /\ \A k \in 1..n : r[k] = c[k]
  BY <1>2
<1> HIDE DEF r, I
<1>6. \A k \in 1..n : tr[k] \in I /\ tr[k] \in 1..Len(list) /\ r[k] = list[tr[k]] /\ tr[k] \in Nat
  <2> SUFFICES ASSUME NEW k \in 1..n
               PROVE  tr[k] \in I /\ tr[k] \in 1..Len(list) /\ r[k] = list[tr[k]] /\ tr[k] \in Nat
    OBVIOUS
  <2>1. tr[k] \in I
    BY <1>4
  <2>2. tr[k] \in 1..Len(list)
    BY <1>1, <2>1
  <2>3. QED
    BY <1>1, <1>4, <1>5, <2>1, <2>2
<1>7. \A k \in 1..n : r[k] # f
  BY <1>6 DEF F!Lists
<1>8. \A j, k \in 1..n : j # k => tr[j] # tr[k]
  <2> SUFFICES ASSUME NEW j \in 1..n, NEW k \in 1..n, j # k PROVE tr[j] # tr[k]
    OBVIOUS
  <2>1. j < k \/ k < j
    BY <1>5
  <2>2. tr[j] < tr[k] \/ tr[k] < tr[j]
    BY <1>4, <2>1
  <2>3. tr[j] \in Nat /\ tr[k] \in Nat
    BY <1>6
  <2>4. QED
    BY <2>2, <2>3
<1>9. \A j, k \in 1..n : r[j] = r[k] => j = k
  <2> SUFFICES ASSUME NEW j \in 1..n, NEW k \in 1..n, r[j] = r[k] PROVE j = k
    OBVIOUS
  <2>1. list[tr[j]] = list[tr[k]]
    BY <1>6
  <2>2. tr[j] \in DOMAIN list /\ tr[k] \in DOMAIN list
    BY <1>1, <1>6
  <2>3. tr[j] = tr[k]
    BY <2>1, <2>2 DEF F!Distinct, F!IsInjective
  <2>4. QED
    BY <1>8, <2>3
<1>10. \A k \in 1..(n+1) : k \in 1..n \/ k = n+1
  BY <1>5
<1>11. \A j, k \in 1..(n+1) : r[j] = r[k] => j = k
  BY <1>5, <1>7, <1>9, <1>10
<1>12. F!Distinct(Len(at), r) /\ r # << >>
  <2>1. DOMAIN r = 1..(n+1)
    BY <1>5
  <2>2. QED
    BY <1>5, <1>11, <2>1 DEF F!Distinct, F!IsInjective
<1>13. \A k \in 1..n : at[r[k]] + FraudWindow > at[f]
  BY <1>6 DEF I
<1>14. at[f] \in Nat /\ FraudWindow \in Nat \ {0}
  BY DEF F!Typed, F!Times, F!Parameters
<1>15. \A k \in 1..(n+1) : at[r[k]] + FraudWindow > at[f]
  <2>1. at[r[n+1]] + FraudWindow > at[f]
    BY <1>5, <1>14
  <2>2. QED
    BY <1>10, <1>13, <2>1
<1>16. F!Earned(at, r)
  BY <1>5, <1>12, <1>15 DEF F!Earned
<1>17. 1..Len(at) \subseteq F!Failures
  BY DEF F!Failures, F!Typed, F!Parameters
<1>18. r \in Seq(F!Failures)
  BY <1>5, <1>17
<1>19. ASSUME NEW g, F!Lists(r, g) PROVE g = f \/ F!Lists(list, g)
  <2>1. PICK k \in 1..(n+1) : r[k] = g
    BY <1>5, <1>19 DEF F!Lists
  <2>2. CASE k \in 1..n
    BY <1>6, <2>1, <2>2 DEF F!Lists
  <2>3. QED
    BY <1>5, <1>10, <2>1, <2>2
<1>20. F!Recent(list, f) = r
  BY DEF F!Recent, r, c, I
<1>21. QED
  BY <1>16, <1>18, <1>19, <1>20

\* More failures, and what was said of those so far.
LEMMA ListsStay ==
  ASSUME at \in Seq(F!Times), at' = at \/ \E x : at' = Append(at, x), NEW list
  PROVE  /\ F!Distinct(Len(at), list) => F!Distinct(Len(at'), list)
         /\ F!Earned(at, list) => F!Earned(at', list)
<1>1. Len(at) \in Nat /\ Len(at') >= Len(at) /\ \A i \in 1..Len(at) : at'[i] = at[i]
  OBVIOUS
<1>2. 1..Len(at) \subseteq 1..Len(at')
  BY <1>1
<1>3. F!Distinct(Len(at), list) => F!Distinct(Len(at'), list)
  BY <1>2 DEF F!Distinct
<1>4. ASSUME F!Earned(at, list) PROVE F!Earned(at', list)
  <2>1. list \in Seq(1..Len(at)) /\ list # << >>
    BY <1>4 DEF F!Earned, F!Distinct
  <2>2. Len(list) \in 1..Len(list)
    BY <2>1
  <2>3. \A k \in 1..Len(list) : at'[list[k]] = at[list[k]]
    BY <1>1, <2>1
  <2>4. QED
    BY <1>3, <1>4, <2>2, <2>3 DEF F!Earned
<1>5. QED
  BY <1>3, <1>4

\* A task stays sound when failures are added.
LEMMA SoundStays ==
  ASSUME at \in Seq(F!Times), at' = at \/ \E x : at' = Append(at, x), NEW row, F!TaskIsSound(at, row)
  PROVE  F!TaskIsSound(at', row)
<1>1. F!Earned(at, row.list) => F!Earned(at', row.list)
  BY ListsStay
<1>2. 1..Len(at) \subseteq 1..Len(at')
  OBVIOUS
<1>3. QED
  BY <1>1, <1>2 DEF F!TaskIsSound

\* A task that is not under way is sound.
LEMMA IdleTask ==
  /\ F!Idle.step = "idle" /\ F!Idle.list = << >> /\ F!Idle \in F!TaskType /\ ~F!OnItsWay(F!Idle)
  /\ \A a : F!TaskIsSound(a, F!Idle)
  /\ \A f : ~F!Lists(F!Idle.list, f)
<1>1. F!Idle.step = "idle" /\ F!Idle.failure = 0 /\ F!Idle.list = << >> /\ F!Idle \in F!TaskType
  BY DEF F!Idle, F!TaskType
<1> HIDE DEF F!Idle
<1>2. QED
  BY <1>1 DEF F!OnItsWay, F!TaskIsSound, F!Lists

\* A task's step: what it is at now, and what is in the histories now.
LEMMA TaskMoves ==
  ASSUME F!IInv, F!Typed', at' = at \/ \E x : at' = Append(at, x),
         NEW t \in Tasks, NEW row, task' = [task EXCEPT ![t] = row], UNCHANGED flags,
         F!TaskIsSound(at', row),
         F!OnItsWay(row) => F!FailureIsNew(row, {task[u] : u \in Tasks \ {t}}, F!Histories'),
         \A u \in Tasks \ {t} : F!OnItsWay(task[u]) => ~F!Lists(row.list, task[u].failure),
         \A list \in F!Histories' :
           /\ F!Distinct(Len(at'), list)
           /\ \A u \in Tasks \ {t} : F!OnItsWay(task[u]) => ~F!Lists(list, task[u].failure)
  PROVE  F!IInv'
<1>1. /\ at \in Seq(F!Times) /\ task'[t] = row
      /\ \A u \in Tasks \ {t} : task'[u] = task[u]
  BY DEF F!IInv, F!Typed
<1>2. ASSUME NEW u \in Tasks PROVE F!TaskIsSound(at', task'[u])
  <2>1. CASE u = t
    BY <1>1, <2>1
  <2>2. CASE u # t
    BY <1>1, <2>2, SoundStays DEF F!IInv
  <2>3. QED
    BY <2>1, <2>2
<1>3. ASSUME NEW u \in Tasks, F!OnItsWay(task'[u])
      PROVE  F!FailureIsNew(task'[u], {task'[v] : v \in Tasks \ {u}}, F!Histories')
  <2>1. CASE u = t
    <3>1. {task'[v] : v \in Tasks \ {u}} = {task[v] : v \in Tasks \ {t}}
      BY <1>1, <2>1
    <3>2. QED
      BY <1>1, <1>3, <2>1, <3>1
  <2>2. CASE u # t
    <3>1. task'[u] = task[u] /\ F!OnItsWay(task[u])
      BY <1>1, <1>3, <2>2
    <3>2. F!FailureIsNew(task[u], {task[v] : v \in Tasks \ {u}}, F!Histories)
      BY <3>1 DEF F!IInv
    <3>3. \A list \in F!Histories' : ~F!Lists(list, task[u].failure)
      BY <2>2, <3>1
    <3>4. F!OnItsWay(row) => row.failure # task[u].failure
      BY <2>2, <3>1 DEF F!FailureIsNew
    <3>5. ~F!Lists(row.list, task[u].failure)
      BY <2>2, <3>1
    <3>6. ASSUME NEW v \in Tasks \ {u}
          PROVE  /\ F!OnItsWay(task'[v]) => task'[v].failure # task[u].failure
                 /\ ~F!Lists(task'[v].list, task[u].failure)
      <4>1. CASE v = t
        BY <1>1, <3>4, <3>5, <4>1
      <4>2. CASE v # t
        BY <1>1, <3>2, <4>2 DEF F!FailureIsNew
      <4>3. QED
        BY <4>1, <4>2
    <3>7. QED
      BY <3>1, <3>3, <3>6 DEF F!FailureIsNew
  <2>3. QED
    BY <2>1, <2>2
<1>4. \A i \in 1..Len(flags') : F!Earned(at', flags'[i].list) /\ Len(flags'[i].list) >= Threshold
  BY <1>1, ListsStay DEF F!IInv
<1>5. QED
  BY <1>2, <1>3, <1>4 DEF F!IInv

\* Tasks that end, and histories that are kept or forgotten.
LEMMA TasksEnd ==
  ASSUME F!IInv, F!Typed', UNCHANGED at,
         \A u \in Tasks : task'[u] = task[u] \/ task'[u] = F!Idle,
         \A list \in F!Histories' : list \in F!Histories \/ list = << >>,
         \A i \in 1..Len(flags') : F!Earned(at, flags'[i].list) /\ Len(flags'[i].list) >= Threshold
  PROVE  F!IInv'
<1>1. \A list \in F!Histories' : F!Distinct(Len(at'), list)
  <2>1. F!Distinct(Len(at), << >>)
    BY DEF F!Distinct, F!IsInjective
  <2>2. QED
    BY <2>1 DEF F!IInv
<1>2. ASSUME NEW u \in Tasks PROVE F!TaskIsSound(at', task'[u])
  BY IdleTask DEF F!IInv
<1>3. ASSUME NEW u \in Tasks, F!OnItsWay(task'[u])
      PROVE  F!FailureIsNew(task'[u], {task'[v] : v \in Tasks \ {u}}, F!Histories')
  <2>1. task'[u] = task[u] /\ F!OnItsWay(task[u])
    BY <1>3, IdleTask
  <2>2. F!FailureIsNew(task[u], {task[v] : v \in Tasks \ {u}}, F!Histories)
    BY <2>1 DEF F!IInv
  <2>3. \A list \in F!Histories' : ~F!Lists(list, task[u].failure)
    BY <2>2 DEF F!FailureIsNew, F!Lists
  <2>4. \A v \in Tasks \ {u} : /\ F!OnItsWay(task'[v]) => task'[v].failure # task[u].failure
                               /\ ~F!Lists(task'[v].list, task[u].failure)
    BY <2>2, IdleTask DEF F!FailureIsNew
  <2>5. QED
    BY <2>1, <2>3, <2>4 DEF F!FailureIsNew
<1>4. QED
  BY <1>1, <1>2, <1>3 DEF F!IInv

\* FraudFlags: no failure and no flag.
LEMMA FraudInit == F!Parameters /\ F!Init => F!IInv
<1> SUFFICES ASSUME F!Parameters, F!Init PROVE F!IInv
  OBVIOUS
<1>1. at = << >> /\ flags = << >> /\ redis = Nil /\ now = 0
  BY DEF F!Init
<1>2. task = [t \in Tasks |-> F!Idle]
  BY DEF F!Init
<1>3. F!Typed
  <2>1. now \in F!Times /\ at \in Seq(F!Times) /\ Len(at) <= MaxFailures
    BY <1>1 DEF F!Times, F!Parameters
  <2>2. task \in [Tasks -> F!TaskType]
    BY <1>2, IdleTask
  <2>3. flags \in Seq(F!FlagType)
    BY <1>1
  <2>4. QED
    BY <1>1, <2>1, <2>2, <2>3 DEF F!Init, F!Typed
<1>4. \A list \in F!Histories : F!Distinct(Len(at), list)
  <2>1. \A list \in F!Histories : list = << >>
    BY <1>1 DEF F!Init, F!Histories, F!ListOf
  <2>2. F!Distinct(Len(at), << >>)
    BY DEF F!Distinct, F!IsInjective
  <2>3. QED
    BY <2>1, <2>2
<1>5. \A t \in Tasks : task[t] = F!Idle
  BY <1>2
<1>6. QED
  BY <1>1, <1>3, <1>4, <1>5, IdleTask DEF F!IInv

\* A trade fails: its failure is new to every list.
LEMMA FailKeeps ==
  ASSUME F!Parameters, F!IInv, NEW t \in Tasks, NEW p \in Processes, F!Fail(t, p)
  PROVE  F!IInv'
<1> DEFINE row == [F!Idle EXCEPT !.step = "reading", !.process = p, !.failure = Len(at) + 1]
<1>0. F!Typed
  BY DEF F!IInv
<1>1. /\ Len(at) < MaxFailures /\ at' = Append(at, now)
      /\ task' = [task EXCEPT ![t] = row] /\ UNCHANGED <<now, redis, copies, link, flags>>
  BY DEF F!Fail
<1>2. at \in Seq(F!Times) /\ Len(at) \in Nat /\ at' \in Seq(F!Times) /\ Len(at') = Len(at) + 1
  BY <1>0, <1>1 DEF F!Typed, F!Times
<1>3. Len(at) + 1 \in F!Failures /\ Len(at') <= MaxFailures /\ Len(at) + 1 \in 1..Len(at')
  BY <1>1, <1>2 DEF F!Failures, F!Parameters
<1>4. /\ row.step = "reading" /\ row.process = p /\ row.failure = Len(at) + 1 /\ row.list = << >>
      /\ row \in F!TaskType
  <2>1. F!Idle \in [step : {"idle"}, process : {F!Idle.process}, failure : {0}, list : {<< >>}]
    BY DEF F!Idle
  <2> HIDE DEF F!Idle
  <2>2. row \in [step : {"reading"}, process : {p}, failure : {Len(at) + 1}, list : {<< >>}]
    BY <2>1
  <2> HIDE DEF row
  <2>3. << >> \in Seq(F!Failures)
    OBVIOUS
  <2>4. QED
    BY <1>3, <2>2, <2>3 DEF F!TaskType
<1> HIDE DEF row
<1>5. F!Typed'
  BY <1>0, <1>1, <1>2, <1>3, <1>4 DEF F!Typed, F!TaskType
<1>6. F!Histories' = F!Histories
  BY <1>1 DEF F!Histories, F!ListOf
<1>7. F!TaskIsSound(at', row)
  BY <1>3, <1>4 DEF F!TaskIsSound
<1>8. ASSUME NEW list, list \in Seq(1..Len(at)) PROVE ~F!Lists(list, Len(at) + 1)
  BY <1>2, <1>8 DEF F!Lists
<1>9. \A list \in F!Histories' : F!Distinct(Len(at), list) /\ F!Distinct(Len(at'), list)
  BY <1>1, <1>2, <1>6, ListsStay DEF F!IInv
<1>10. ASSUME NEW u \in Tasks \ {t}
       PROVE  /\ F!OnItsWay(task[u]) => task[u].failure # row.failure
              /\ ~F!Lists(task[u].list, row.failure)
  <2>1. F!TaskIsSound(at, task[u]) /\ task[u] \in F!TaskType
    BY <1>0 DEF F!IInv, F!Typed
  <2>2. F!OnItsWay(task[u]) => task[u].failure \in 1..Len(at)
    BY <2>1 DEF F!TaskIsSound
  <2>3. CASE task[u].step \in {"idle", "reading"}
    BY <1>2, <1>4, <2>1, <2>2, <2>3 DEF F!TaskIsSound, F!Lists
  <2>4. CASE task[u].step \in {"writing", "flagging"}
    <3>1. task[u].list \in Seq(1..Len(at))
      BY <2>1, <2>4 DEF F!TaskIsSound, F!Earned, F!Distinct
    <3>2. QED
      BY <1>2, <1>4, <1>8, <2>2, <3>1
  <2>5. QED
    BY <2>1, <2>3, <2>4 DEF F!TaskType
<1>11. F!FailureIsNew(row, {task[u] : u \in Tasks \ {t}}, F!Histories')
  BY <1>4, <1>8, <1>9, <1>10 DEF F!FailureIsNew, F!Distinct
<1>12. \A u \in Tasks \ {t} : F!OnItsWay(task[u]) => ~F!Lists(row.list, task[u].failure)
  BY <1>4 DEF F!Lists
<1>13. \A list \in F!Histories' :
         \A u \in Tasks \ {t} : F!OnItsWay(task[u]) => ~F!Lists(list, task[u].failure)
  BY <1>6 DEF F!IInv, F!FailureIsNew
<1>14. QED
  BY <1>1, <1>5, <1>7, <1>9, <1>11, <1>12, <1>13, TaskMoves

\* What a task reads of an account, from Redis or from the process's own memory.
LEMMA GotHistory ==
  ASSUME NEW p \in Processes, NEW list \in F!Got(p)
  PROVE  list \in F!Histories
BY DEF F!Got, F!Histories

\* A task reads the account's failures, and adds its own.
LEMMA ReadHistoryKeeps ==
  ASSUME F!Parameters, F!IInv, NEW t \in Tasks, F!ReadHistory(t)
  PROVE  F!IInv'
<1>0. F!Typed /\ task[t] \in F!TaskType /\ at \in Seq(F!Times)
  BY DEF F!IInv, F!Typed
<1>1. task[t].step = "reading" /\ UNCHANGED <<now, at, redis, copies, link, flags>>
  BY DEF F!ReadHistory
<1>2. /\ F!OnItsWay(task[t]) /\ task[t].failure \in 1..Len(at) /\ task[t].process \in Processes
  BY <1>1 DEF F!IInv, F!TaskIsSound, F!OnItsWay
<1>3. F!FailureIsNew(task[t], {task[u] : u \in Tasks \ {t}}, F!Histories)
  BY <1>2 DEF F!IInv
<1>4. PICK history \in F!Got(task[t].process) :
        task' = [task EXCEPT ![t].step = "writing", ![t].list = F!Recent(history, task[t].failure)]
  BY DEF F!ReadHistory
<1>5. history \in F!Histories /\ F!Distinct(Len(at), history) /\ ~F!Lists(history, task[t].failure)
  BY <1>2, <1>3, GotHistory DEF F!IInv, F!FailureIsNew
<1> DEFINE new == F!Recent(history, task[t].failure)
           row == [task[t] EXCEPT !.step = "writing", !.list = new]
<1>6. /\ F!Earned(at, new) /\ new \in Seq(F!Failures)
      /\ \A g : F!Lists(new, g) => g = task[t].failure \/ F!Lists(history, g)
  BY <1>0, <1>2, <1>5, RecentIsEarned
<1> HIDE DEF new
<1>7. /\ row.step = "writing" /\ row.list = new /\ row.failure = task[t].failure
      /\ row.process = task[t].process /\ row \in F!TaskType
  BY <1>0, <1>6 DEF F!TaskType
<1>8. task' = [task EXCEPT ![t] = row]
  BY <1>4 DEF new
<1> HIDE DEF row
<1>9. F!Typed'
  BY <1>0, <1>1, <1>7, <1>8 DEF F!Typed, F!TaskType
<1>10. F!TaskIsSound(at', row)
  BY <1>1, <1>2, <1>6, <1>7 DEF F!TaskIsSound
<1>11. F!Histories' = F!Histories
  BY <1>1 DEF F!Histories, F!ListOf
<1>12. F!FailureIsNew(row, {task[u] : u \in Tasks \ {t}}, F!Histories')
  BY <1>3, <1>7, <1>11 DEF F!FailureIsNew
<1>13. \A list \in F!Histories' :
         /\ F!Distinct(Len(at'), list)
         /\ \A u \in Tasks \ {t} : F!OnItsWay(task[u]) => ~F!Lists(list, task[u].failure)
  BY <1>1, <1>11 DEF F!IInv, F!FailureIsNew
<1>14. \A u \in Tasks \ {t} : F!OnItsWay(task[u]) => ~F!Lists(row.list, task[u].failure)
  BY <1>3, <1>5, <1>6, <1>7, <1>11, <1>13 DEF F!FailureIsNew
<1>15. QED
  BY <1>1, <1>8, <1>9, <1>10, <1>12, <1>13, <1>14, TaskMoves

\* After a write the histories are those there were, and what was written.
LEMMA SetWrites ==
  ASSUME F!Typed, NEW p \in Processes, NEW list \in Seq(F!Failures), NEW ttl \in Nat, F!Set(p, list, ttl)
  PROVE  /\ redis' \in {Nil} \cup F!EntryType /\ copies' \in [Processes -> {Nil} \cup F!EntryType]
         /\ \A old \in F!Histories' : old \in F!Histories \/ old = list \/ old = << >>
<1> DEFINE entry == [list |-> list, ends |-> now + ttl]
<1>1. entry \in F!EntryType /\ entry.list = list
  BY DEF F!EntryType, F!Typed, F!Times
<1>2. copies' = [copies EXCEPT ![p] = entry] /\ redis' \in {redis, entry}
  BY DEF F!Set
<1> HIDE DEF entry
<1>3. \A q \in Processes : copies'[q] = copies[q] \/ copies'[q] = entry
  BY <1>2 DEF F!Typed
<1>4. F!ListOf(entry) \in {list, << >>}
  BY <1>1 DEF F!ListOf
<1>5. ASSUME NEW old \in F!Histories' PROVE old \in F!Histories \/ old = list \/ old = << >>
  <2>1. PICK e \in {redis'} \cup {copies'[q] : q \in Processes} : old = F!ListOf(e)
    BY DEF F!Histories
  <2>2. e = entry \/ e \in {redis} \cup {copies[q] : q \in Processes}
    BY <1>2, <1>3, <2>1
  <2>3. QED
    BY <1>4, <2>1, <2>2 DEF F!Histories
<1>6. QED
  BY <1>1, <1>2, <1>5 DEF F!Typed

\* A task writes the failures it has put together.
LEMMA WriteHistoryKeeps ==
  ASSUME F!Parameters, F!IInv, NEW t \in Tasks, F!WriteHistory(t)
  PROVE  F!IInv'
<1>0. F!Typed /\ task[t] \in F!TaskType /\ at \in Seq(F!Times)
  BY DEF F!IInv, F!Typed
<1> DEFINE list == task[t].list
           row == IF Len(list) < Threshold THEN F!Idle ELSE [task[t] EXCEPT !.step = "flagging"]
<1>1. /\ task[t].step = "writing" /\ UNCHANGED <<now, at, link, flags>>
      /\ F!Set(task[t].process, list, FraudWindow)
  BY DEF F!WriteHistory
<1>2. /\ F!OnItsWay(task[t]) /\ task[t].process \in Processes /\ F!Earned(at, list)
      /\ FraudWindow \in Nat /\ list \in Seq(F!Failures)
  BY <1>0, <1>1 DEF F!IInv, F!TaskIsSound, F!OnItsWay, F!Parameters, F!TaskType
<1>3. /\ redis' \in {Nil} \cup F!EntryType /\ copies' \in [Processes -> {Nil} \cup F!EntryType]
      /\ \A old \in F!Histories' : old \in F!Histories \/ old = list \/ old = << >>
  BY <1>0, <1>1, <1>2, SetWrites
<1>4. task' = [task EXCEPT ![t] = row]
  BY DEF F!WriteHistory
<1>5. row \in F!TaskType /\ F!TaskIsSound(at', row) /\ ~F!OnItsWay(row) /\ row.list \in {list, << >>}
  <2>1. CASE Len(list) < Threshold
    BY <2>1, IdleTask
  <2>2. CASE ~(Len(list) < Threshold)
    <3>1. row.step = "flagging" /\ row.list = list /\ row \in F!TaskType
      BY <1>0, <2>2 DEF F!TaskType
    <3>2. Len(list) >= Threshold
      BY <1>2, <2>2 DEF F!Parameters
    <3>3. QED
      BY <1>1, <1>2, <3>1, <3>2 DEF F!TaskIsSound, F!OnItsWay
  <2>3. QED
    BY <2>1, <2>2
<1>6. \A u \in Tasks \ {t} : F!OnItsWay(task[u]) =>
        /\ ~F!Lists(list, task[u].failure) /\ ~F!Lists(<< >>, task[u].failure)
        /\ \A old \in F!Histories : ~F!Lists(old, task[u].failure)
  BY DEF F!IInv, F!FailureIsNew, F!Lists
<1>7. \A old \in F!Histories' : F!Distinct(Len(at'), old)
  <2>1. F!Distinct(Len(at), << >>)
    BY DEF F!Distinct, F!IsInjective
  <2>2. QED
    BY <1>1, <1>2, <1>3, <2>1 DEF F!IInv, F!Earned
<1> HIDE DEF row, list
<1>8. F!Typed'
  BY <1>0, <1>1, <1>3, <1>4, <1>5 DEF F!Typed, F!TaskType
<1>9. QED
  BY <1>1, <1>3, <1>4, <1>5, <1>6, <1>7, <1>8, TaskMoves

\* A flag is written with the failures it counts.
LEMMA FlagAccountKeeps ==
  ASSUME F!Parameters, F!IInv, NEW t \in Tasks, F!FlagAccount(t)
  PROVE  F!IInv'
<1>0. F!Typed /\ task[t] \in F!TaskType
  BY DEF F!IInv, F!Typed
<1> DEFINE flag == [status |-> "open", list |-> task[t].list]
<1>1. /\ task[t].step = "flagging" /\ task' = [task EXCEPT ![t] = F!Idle]
      /\ UNCHANGED <<now, at, redis, copies, link>>
      /\ flags' = flags \/ flags' = Append(flags, flag)
  BY DEF F!FlagAccount
<1>2. /\ F!Earned(at, flag.list) /\ Len(flag.list) >= Threshold
      /\ flag \in F!FlagType
  BY <1>0, <1>1 DEF F!IInv, F!TaskIsSound, F!TaskType, F!FlagType
<1> HIDE DEF flag
<1>3. flags \in Seq(F!FlagType)
  BY <1>0 DEF F!Typed
<1>4. /\ flags' \in Seq(F!FlagType)
      /\ \A i \in 1..Len(flags') : (i \in 1..Len(flags) /\ flags'[i] = flags[i]) \/ flags'[i] = flag
  <2>1. CASE flags' = flags
    BY <1>3, <2>1
  <2>2. CASE flags' = Append(flags, flag)
    <3>1. flags' \in Seq(F!FlagType)
      BY <1>2, <1>3, <2>2
    <3>2. /\ Len(flags') = Len(flags) + 1 /\ flags'[Len(flags) + 1] = flag /\ Len(flags) \in Nat
          /\ \A i \in 1..Len(flags) : flags'[i] = flags[i]
      BY <1>3, <2>2
    <3>3. QED
      BY <3>1, <3>2
  <2>3. QED
    BY <1>1, <2>1, <2>2
<1>5. F!Typed'
  BY <1>0, <1>1, <1>4, IdleTask DEF F!Typed, F!TaskType
<1>6. F!Histories' = F!Histories
  BY <1>1 DEF F!Histories, F!ListOf
<1>7. \A u \in Tasks : task'[u] = task[u] \/ task'[u] = F!Idle
  BY <1>0, <1>1 DEF F!Typed
<1>8. \A i \in 1..Len(flags') : F!Earned(at, flags'[i].list) /\ Len(flags'[i].list) >= Threshold
  BY <1>2, <1>4 DEF F!IInv
<1>9. QED
  BY <1>1, <1>5, <1>6, <1>7, <1>8, TasksEnd

\* An account's failures are deleted.
LEMMA ResetFailedTradesKeeps ==
  ASSUME F!Parameters, F!IInv, NEW p \in Processes, F!ResetFailedTrades(p)
  PROVE  F!IInv'
<1>0. F!Typed
  BY DEF F!IInv
<1>1. F!Set(p, << >>, 1) /\ UNCHANGED <<now, at, link, task, flags>>
  BY DEF F!ResetFailedTrades
<1>2. /\ redis' \in {Nil} \cup F!EntryType /\ copies' \in [Processes -> {Nil} \cup F!EntryType]
      /\ \A old \in F!Histories' : old \in F!Histories \/ old = << >>
  <2>1. << >> \in Seq(F!Failures) /\ 1 \in Nat
    OBVIOUS
  <2>2. QED
    BY <1>0, <1>1, <2>1, SetWrites
<1>3. F!Typed'
  BY <1>0, <1>1, <1>2 DEF F!Typed, F!TaskType
<1>4. QED
  BY <1>1, <1>2, <1>3, TasksEnd DEF F!IInv

\* A flag is reviewed, and stays the flag it was.
LEMMA ReviewFraudFlagKeeps ==
  ASSUME F!Parameters, F!IInv, NEW i \in 1..Len(flags), F!ReviewFraudFlag(i)
  PROVE  F!IInv'
<1>0. F!Typed
  BY DEF F!IInv
<1>1. /\ flags' = [flags EXCEPT ![i].status = "closed"]
      /\ UNCHANGED <<now, at, redis, copies, link, task>>
  BY DEF F!ReviewFraudFlag
<1>2. flags \in Seq(F!FlagType)
  BY <1>0 DEF F!Typed
<1>3. /\ Len(flags') = Len(flags)
      /\ flags' \in Seq(F!FlagType)
      /\ \A j \in 1..Len(flags') : flags'[j].list = flags[j].list
  <2> DEFINE flag == [flags[i] EXCEPT !.status = "closed"]
  <2>1. flags[i] \in F!FlagType
    BY <1>2
  <2>2. flag \in F!FlagType /\ flag.list = flags[i].list
    BY <2>1 DEF F!FlagType
  <2>3. flags' = [flags EXCEPT ![i] = flag]
    BY <1>1
  <2> HIDE DEF flag
  <2>4. Len(flags') = Len(flags) /\ \A j \in 1..Len(flags) : flags'[j].list = flags[j].list
    BY <1>2, <2>2, <2>3
  <2>5. flags' \in Seq(F!FlagType)
    BY <1>2, <2>2, <2>3
  <2>6. QED
    BY <2>4, <2>5
<1>4. F!Typed'
  BY <1>0, <1>1, <1>3 DEF F!Typed, F!TaskType
<1>5. F!Histories' = F!Histories
  BY <1>1 DEF F!Histories, F!ListOf
<1>6. QED
  BY <1>1, <1>3, <1>4, <1>5, TasksEnd DEF F!IInv

\* Connections, and the clock: what is remembered is kept or forgotten.
LEMMA ConnectionKeeps ==
  ASSUME F!Parameters, F!IInv, NEW p \in Processes, F!Connect(p) \/ F!LoseRedis(p) \/ F!Restart(p)
  PROVE  F!IInv'
<1>0. F!Typed
  BY DEF F!IInv
<1>1. /\ UNCHANGED <<now, at, redis, flags>>
      /\ link' \in [Processes -> {"connecting", "up", "down"}]
      /\ copies' \in [Processes -> {Nil} \cup F!EntryType]
      /\ \A q \in Processes : copies'[q] \in {copies[q], Nil}
  BY <1>0 DEF F!Connect, F!LoseRedis, F!Restart, F!Typed
<1>2. task' \in [Tasks -> F!TaskType] /\ \A u \in Tasks : task'[u] = task[u] \/ task'[u] = F!Idle
  BY <1>0, IdleTask DEF F!Connect, F!LoseRedis, F!Restart, F!Typed
<1>3. ASSUME NEW old \in F!Histories' PROVE old \in F!Histories \/ old = << >>
  <2>1. PICK e \in {redis'} \cup {copies'[q] : q \in Processes} : old = F!ListOf(e)
    BY DEF F!Histories
  <2>2. e = Nil \/ e \in {redis} \cup {copies[q] : q \in Processes}
    BY <1>1, <2>1
  <2>3. QED
    BY <2>1, <2>2 DEF F!Histories, F!ListOf
<1>4. F!Typed'
  BY <1>0, <1>1, <1>2 DEF F!Typed, F!TaskType
<1>5. QED
  BY <1>1, <1>2, <1>3, <1>4, TasksEnd DEF F!IInv

\* Time passes: no failure gets later by that.
LEMMA TickKeeps ==
  ASSUME F!Parameters, F!IInv, F!Tick
  PROVE  F!IInv'
<1>0. F!Typed
  BY DEF F!IInv
<1>1. /\ now < FraudTime /\ now' = now + 1 /\ UNCHANGED <<at, link, task, flags>>
      /\ redis' = F!Kept(redis) /\ copies' = [p \in Processes |-> F!Kept(copies[p])]
  BY DEF F!Tick
<1>2. \A entry : F!Kept(entry) \in {entry, Nil}
  BY DEF F!Kept
<1>3. /\ redis' \in {Nil} \cup F!EntryType /\ copies' \in [Processes -> {Nil} \cup F!EntryType]
      /\ redis' \in {redis, Nil} /\ \A q \in Processes : copies'[q] \in {copies[q], Nil}
  <2>1. redis' \in {redis, Nil} /\ \A q \in Processes : copies'[q] \in {copies[q], Nil}
    BY <1>1, <1>2
  <2>2. \A q \in Processes : copies'[q] \in {Nil} \cup F!EntryType
    BY <1>0, <2>1 DEF F!Typed
  <2>3. copies' \in [Processes -> {Nil} \cup F!EntryType]
    BY <1>1, <2>2
  <2>4. QED
    BY <1>0, <2>1, <2>3 DEF F!Typed
<1>4. now' \in F!Times
  BY <1>0, <1>1 DEF F!Typed, F!Times, F!Parameters
<1>5. F!Typed'
  BY <1>0, <1>1, <1>3, <1>4 DEF F!Typed, F!TaskType
<1>6. ASSUME NEW old \in F!Histories' PROVE old \in F!Histories \/ old = << >>
  <2>1. PICK e \in {redis'} \cup {copies'[q] : q \in Processes} : old = F!ListOf(e)
    BY DEF F!Histories
  <2>2. e = Nil \/ e \in {redis} \cup {copies[q] : q \in Processes}
    BY <1>3, <2>1
  <2>3. QED
    BY <2>1, <2>2 DEF F!Histories, F!ListOf
<1>7. QED
  BY <1>1, <1>5, <1>6, TasksEnd DEF F!IInv

\* FraudFlags: every step keeps the invariant.
LEMMA FraudStep == F!Parameters /\ F!IInv /\ [F!Next]_F!vars => F!IInv'
<1> SUFFICES ASSUME F!Parameters, F!IInv, [F!Next]_F!vars PROVE F!IInv'
  OBVIOUS
<1>1. CASE UNCHANGED F!vars
  <2>1. UNCHANGED <<now, at, redis, copies, link, task, flags>>
    BY <1>1 DEF F!vars
  <2>2. F!Histories' = F!Histories
    BY <2>1 DEF F!Histories, F!ListOf
  <2>3. F!Typed'
    BY <2>1 DEF F!IInv, F!Typed, F!TaskType
  <2>4. QED
    BY <2>1, <2>2, <2>3, TasksEnd DEF F!IInv
<1>2. CASE F!Next
  BY <1>2, FailKeeps, ReadHistoryKeeps, WriteHistoryKeeps, FlagAccountKeeps,
     ResetFailedTradesKeeps, ConnectionKeeps, ReviewFraudFlagKeeps, TickKeeps DEF F!Next
<1>3. QED
  BY <1>1, <1>2

\* FraudFlags: the invariant gives what the runs check.
LEMMA FraudIsSafe == F!IInv => F!TypeOK /\ F!FlagsAreEarned
<1> SUFFICES ASSUME F!IInv PROVE F!TypeOK /\ F!FlagsAreEarned
  OBVIOUS
<1>1. F!TypeOK
  <2>1. \A t \in Tasks : task[t].list \in Seq(F!Failures)
    BY DEF F!IInv, F!Typed, F!TaskType
  <2>2. \A i \in 1..Len(flags) : flags[i].status \in {"open", "closed"}
    <3>1. flags \in Seq(F!FlagType)
      BY DEF F!IInv, F!Typed
    <3>2. \A i \in 1..Len(flags) : flags[i] \in F!FlagType
      BY <3>1
    <3>3. QED
      BY <3>2 DEF F!FlagType
  <2>3. QED
    BY <2>1, <2>2 DEF F!IInv, F!Typed, F!TypeOK
<1>2. F!FlagsAreEarned
  BY DEF F!IInv, F!FlagsAreEarned, F!Earned, F!Distinct, F!Last
<1>3. QED
  BY <1>1, <1>2

-----------------------------------------------------------------------------
(* Server-sent events.                                                     *)

\* The instance's finite sets are those of the library.
LEMMA HubSets ==
  \A S : (V!IsFiniteSet(S) <=> IsFiniteSet(S)) /\ V!Cardinality(S) = Cardinality(S)
BY DEF V!IsFiniteSet, V!Cardinality, IsFiniteSet, Cardinality

\* Its Chosen is that of Sums.
LEMMA HubChosen == \A s, I : V!Chosen(s, I) = Chosen(s, I)
BY DEF V!Chosen, V!PartlyChosen, Chosen, PartlyChosen

\* Events: no event yet, and no listener.
LEMMA EventsInit == V!Parameters /\ V!Init => V!IInv
<1> SUFFICES ASSUME V!Parameters, V!Init PROVE V!IInv
  OBVIOUS
<1>1. /\ lastEventId = 0 /\ replayBuffer = << >> /\ clients = {} /\ listening = {} /\ boot = 1
      /\ log = {} /\ breaks = 0 /\ frames = [l \in Listeners |-> << >>]
      /\ received = [l \in Listeners |-> << >>] /\ lastSeen = [l \in Listeners |-> 0]
  BY DEF V!Init
<1>2. \A l \in Listeners : received[l] = << >> /\ Len(received[l]) = 0
  BY <1>1
<1>3. V!LogIsWhole
  BY <1>1, HubSets, FS_EmptySet DEF V!LogIsWhole, V!Parameters
<1>4. V!BufferIsOfLog
  BY <1>1 DEF V!BufferIsOfLog, V!Parameters
<1>5. /\ frames \in [Listeners -> Seq(0..lastEventId)]
      /\ received \in [Listeners -> Seq([boot : 1..boot, id : 1..MaxEmitted])]
  BY <1>1
<1>6. lastSeen = [l \in Listeners |-> IF received[l] = << >> THEN 0
                                      ELSE received[l][Len(received[l])].id]
  BY <1>1, <1>2
<1>7. V!NoGapsNorRepeats
  BY <1>2 DEF V!NoGapsNorRepeats
<1>8. QED
  BY <1>1, <1>2, <1>3, <1>4, <1>5, <1>6, <1>7 DEF V!IInv

\* What was read stays read, in a run that goes on, and what is written in it is newer.
LEMMA ReadIsKept ==
  ASSUME V!IInv, UNCHANGED <<lastSeen, received, boot>>, lastEventId' \in Nat, lastEventId' >= lastEventId,
         lastEventId' <= MaxEmitted
  PROVE  /\ received' \in [Listeners -> Seq([boot : 1..boot', id : 1..MaxEmitted])]
         /\ lastSeen' = [l \in Listeners |-> IF received'[l] = << >> THEN 0
                                             ELSE received'[l][Len(received'[l])].id]
         /\ \A l \in Listeners : \A i \in 1..Len(received'[l]) :
              received'[l][i].boot = boot' => received'[l][i].id <= lastEventId'
         /\ \A l : V!ReadHere(l)' = V!ReadHere(l)
<1>1. \A l \in Listeners : \A i \in 1..Len(received[l]) : received[l][i].id \in Nat
  <2> SUFFICES ASSUME NEW l \in Listeners, NEW i \in 1..Len(received[l])
               PROVE  received[l][i].id \in Nat
    OBVIOUS
  <2>1. received[l] \in Seq([boot : 1..boot, id : 1..MaxEmitted])
    BY DEF V!IInv
  <2>2. received[l][i] \in [boot : 1..boot, id : 1..MaxEmitted]
    BY <2>1, EntryOf
  <2>3. QED
    BY <2>2
<1>2. ASSUME NEW l \in Listeners, NEW i \in 1..Len(received[l]), received[l][i].boot = boot
      PROVE  received[l][i].id <= lastEventId'
  <2>1. received[l][i].id <= lastEventId /\ lastEventId \in Nat
    BY <1>2 DEF V!IInv
  <2>2. QED
    BY <1>1, <2>1
<1>3. \A l : V!ReadHere(l)' = V!ReadHere(l)
  BY DEF V!ReadHere
<1>4. QED
  BY <1>2, <1>3 DEF V!IInv

\* A stream that nothing was written to, when nothing new is owed.
LEMMA StreamStays ==
  ASSUME V!IInv, NEW stream, NEW newest, NEW owed, NEW less \in SUBSET owed,
         V!StreamIsWhole(stream, newest, owed)
  PROVE  V!StreamIsWhole(stream, newest, less)
BY DEF V!StreamIsWhole

\* What a listener missed, from the buffer: in order, newer than what it read, and everything
\* for it that the buffer still has.
LEMMA MissedIsWhole ==
  ASSUME V!IInv, NEW l \in Listeners
  PROVE  /\ V!Missed(l) \in Seq(1..lastEventId)
         /\ \A j, k \in 1..Len(V!Missed(l)) : j < k => V!Missed(l)[j] < V!Missed(l)[k]
         /\ \A k \in 1..Len(V!Missed(l)) : lastSeen[l] < V!Missed(l)[k]
         /\ lastSeen[l] = 0 => V!Missed(l) = << >>
         /\ lastSeen[l] # 0 =>
              \A x \in log : x.boot = boot /\ l \in x.to /\ x.id > lastSeen[l] /\ V!InBuffer(x.id)
                => \E k \in 1..Len(V!Missed(l)) : V!Missed(l)[k] = x.id
<1> DEFINE I == {i \in 1..Len(replayBuffer) : replayBuffer[i].id > lastSeen[l] /\ l \in replayBuffer[i].to}
           c == Chosen(replayBuffer, I)
           ids == [i \in 1..Len(c) |-> c[i].id]
           Event == [id : 1..lastEventId, to : SUBSET Users]
           n == Len(c)
<1>1. replayBuffer \in Seq(Event) /\ I \in SUBSET (1..Len(replayBuffer)) /\ lastEventId \in Nat
  BY DEF V!IInv, V!BufferIsOfLog
<1> HIDE DEF Event
<1>2. c \in Seq(Event)
  BY <1>1, ChosenTraces
<1>3. PICK tr : Traces(replayBuffer, I, Len(replayBuffer), c, tr)
  BY <1>1, ChosenTraces
<1> HIDE DEF c
<1>4. n \in Nat /\ Len(ids) = n /\ \A k \in 1..n : ids[k] = c[k].id
  BY <1>2
<1>5. /\ tr \in [1..n -> I] /\ \A j, k \in 1..n : j < k => tr[j] < tr[k]
      /\ \A i \in I : \E k \in 1..n : tr[k] = i
      /\ \A k \in 1..n : c[k] = replayBuffer[tr[k]]
  <2>1. tr \in [1..n -> {i \in I : i <= Len(replayBuffer)}]
    BY <1>3 DEF Traces
  <2>2. \A i \in I : i <= Len(replayBuffer)
    BY <1>1
  <2>3. QED
    BY <1>3, <2>1, <2>2 DEF Traces
<1>6. \A k \in 1..n : tr[k] \in I /\ ids[k] = replayBuffer[tr[k]].id
  BY <1>4, <1>5
<1>7. \A i \in 1..Len(replayBuffer) : replayBuffer[i] \in Event
  BY <1>1
<1>8. \A k \in 1..n : ids[k] \in 1..lastEventId
  <2> SUFFICES ASSUME NEW k \in 1..n PROVE ids[k] \in 1..lastEventId
    OBVIOUS
  <2>1. c[k] \in Event
    BY <1>2, EntryOf
  <2>2. c[k].id \in 1..lastEventId
    BY <2>1 DEF Event
  <2>3. QED
    BY <1>4, <2>2
<1>9. ids \in Seq(1..lastEventId)
  BY <1>2, <1>4, <1>8
<1>10. \A j, k \in 1..n : j < k => ids[j] < ids[k]
  <2> SUFFICES ASSUME NEW j \in 1..n, NEW k \in 1..n, j < k PROVE ids[j] < ids[k]
    OBVIOUS
  <2>1. tr[j] < tr[k] /\ tr[j] \in 1..Len(replayBuffer) /\ tr[k] \in 1..Len(replayBuffer)
    BY <1>1, <1>5, <1>6
  <2>2. replayBuffer[tr[j]].id < replayBuffer[tr[k]].id
    BY <2>1 DEF V!IInv, V!BufferIsOfLog
  <2>3. QED
    BY <1>6, <2>2
<1>11. \A k \in 1..n : lastSeen[l] < ids[k]
  <2> SUFFICES ASSUME NEW k \in 1..n PROVE lastSeen[l] < ids[k]
    OBVIOUS
  <2>1. replayBuffer[tr[k]].id > lastSeen[l]
    BY <1>6
  <2>2. QED
    BY <1>6, <2>1
<1>12. ASSUME NEW x \in log, x.boot = boot, l \in x.to, x.id > lastSeen[l], V!InBuffer(x.id)
       PROVE  \E k \in 1..n : ids[k] = x.id
  <2>1. PICK i \in 1..Len(replayBuffer) : replayBuffer[i].id = x.id
    BY <1>12 DEF V!InBuffer
  <2> DEFINE y == [boot |-> boot, id |-> replayBuffer[i].id, to |-> replayBuffer[i].to]
  <2>2. y \in log
    BY DEF V!IInv, V!BufferIsOfLog
  <2>3. y.boot = boot /\ y.id = x.id /\ y.to = replayBuffer[i].to
    BY <2>1
  <2> HIDE DEF y
  <2>4. x = y
    BY <1>12, <2>2, <2>3 DEF V!IInv, V!LogIsWhole
  <2>5. i \in I
    BY <1>12, <2>1, <2>3, <2>4
  <2>6. QED
    BY <1>5, <1>6, <2>1, <2>5
<1>13. V!Missed(l) = IF lastSeen[l] = 0 THEN << >> ELSE ids
  BY HubChosen DEF V!Missed, ids, c, I
<1> HIDE DEF ids, I
<1>14. CASE lastSeen[l] = 0
  BY <1>13, <1>14
<1>15. CASE lastSeen[l] # 0
  BY <1>4, <1>9, <1>10, <1>11, <1>12, <1>13, <1>15
<1>16. QED
  BY <1>14, <1>15

\* The gaps of what was read, when nothing is written.
LEMMA NoGapsStay ==
  ASSUME V!NoGapsNorRepeats, UNCHANGED <<received, log>>, evicted \subseteq evicted',
         skipped \subseteq skipped'
  PROVE  V!NoGapsNorRepeats'
BY DEF V!NoGapsNorRepeats

\* A listener connects: its stream starts with what it missed, and what the buffer had lost
\* is written down as evicted.
LEMMA AddClientKeeps ==
  ASSUME V!Parameters, V!IInv, NEW l \in Listeners, V!AddClient(l)
  PROVE  V!IInv'
<1> DEFINE dropped == V!Named(l, {x \in V!Unread(l) : ~V!InBuffer(x.id)})
           passed == V!Named(l, {x \in V!Unread(l) : /\ 0 \in V!ReadHere(l) /\ V!InBuffer(x.id)
                                                  /\ x.id <= lastSeen[l]})
           gone == evicted \cup skipped \cup dropped \cup passed
           stream == <<V!Connected>> \o V!Missed(l)
<1>1. /\ l \notin listening /\ listening' = listening \cup {l} /\ clients' = clients \cup {l}
      /\ frames' = [frames EXCEPT ![l] = stream] /\ evicted' = evicted \cup dropped
      /\ skipped' = skipped \cup passed
      /\ UNCHANGED <<lastEventId, replayBuffer, lastSeen, received, boot, log, breaks>>
  BY DEF V!AddClient
<1>2. /\ V!Missed(l) \in Seq(1..lastEventId) /\ lastEventId \in Nat
      /\ \A j, k \in 1..Len(V!Missed(l)) : j < k => V!Missed(l)[j] < V!Missed(l)[k]
      /\ \A k \in 1..Len(V!Missed(l)) : lastSeen[l] < V!Missed(l)[k]
      /\ lastSeen[l] = 0 => V!Missed(l) = << >>
      /\ lastSeen[l] # 0 =>
              \A x \in log : x.boot = boot /\ l \in x.to /\ x.id > lastSeen[l] /\ V!InBuffer(x.id)
                => \E k \in 1..Len(V!Missed(l)) : V!Missed(l)[k] = x.id
  BY MissedIsWhole DEF V!IInv
<1>3. lastEventId <= MaxEmitted
  BY HubSets, FS_CardinalityType DEF V!IInv, V!LogIsWhole, V!Parameters
<1>4. /\ stream \in Seq(0..lastEventId) /\ Len(stream) = Len(V!Missed(l)) + 1 /\ stream[1] = V!Connected
      /\ \A k \in 2..Len(stream) : stream[k] = V!Missed(l)[k-1]
      /\ \A k \in 1..Len(V!Missed(l)) : stream[k+1] = V!Missed(l)[k] /\ k + 1 \in 1..Len(stream)
  <2>1. <<V!Connected>> \in Seq(0..lastEventId) /\ Len(<<V!Connected>>) = 1 /\ <<V!Connected>>[1] = V!Connected
    BY <1>2 DEF V!Connected
  <2>2. V!Missed(l) \in Seq(0..lastEventId)
    BY <1>2
  <2> HIDE DEF V!Connected
  <2>3. QED
    BY <2>1, <2>2
<1>5. lastSeen[l] \in Nat
  <2>1. CASE received[l] = << >>
    BY <2>1 DEF V!IInv
  <2>2. CASE received[l] # << >>
    <3>1. received[l] \in Seq([boot : 1..boot, id : 1..MaxEmitted])
      BY DEF V!IInv
    <3>2. received[l][Len(received[l])] \in [boot : 1..boot, id : 1..MaxEmitted]
      BY <2>2, <3>1, LastOf
    <3>3. lastSeen[l] = received[l][Len(received[l])].id
      BY <2>2 DEF V!IInv
    <3>4. QED
      BY <3>2, <3>3
  <2>3. QED
    BY <2>1, <2>2
<1>6. /\ lastSeen[l] = 0 => V!ReadHere(l) = {}
      /\ lastSeen[l] # 0 => V!ReadHere(l) = {lastSeen[l]} \/ V!ReadHere(l) = {0}
  <2>1. received[l] \in Seq([boot : 1..boot, id : 1..MaxEmitted])
    BY DEF V!IInv
  <2>2. CASE received[l] = << >>
    <3>1. lastSeen[l] = 0 /\ V!ReadHere(l) = {}
      BY <2>2 DEF V!IInv, V!ReadHere
    <3>2. QED
      BY <3>1
  <2>3. CASE received[l] # << >>
    <3>1. lastSeen[l] = received[l][Len(received[l])].id /\ lastSeen[l] # 0
      <4>1. received[l][Len(received[l])] \in [boot : 1..boot, id : 1..MaxEmitted]
        BY <2>1, <2>3, LastOf
      <4>2. lastSeen[l] = received[l][Len(received[l])].id
        BY <2>3 DEF V!IInv
      <4>3. QED
        BY <4>1, <4>2
    <3>2. Len(received[l]) # 0
      BY <2>1, <2>3
    <3>3. QED
      BY <3>1, <3>2 DEF V!ReadHere
  <2>4. QED
    BY <2>2, <2>3
<1>7. V!Owed(l)' = {x.id : x \in {y \in log : /\ y.boot = boot /\ l \in y.to
                           /\ [to |-> l, boot |-> y.boot, id |-> y.id] \notin gone}}
  BY <1>1 DEF V!Owed
<1> DEFINE owed == {x.id : x \in {y \in log : /\ y.boot = boot /\ l \in y.to
                           /\ [to |-> l, boot |-> y.boot, id |-> y.id] \notin gone}}
<1> HIDE DEF stream
<1>0. ASSUME NEW k \in 1..Len(stream), k # 1
      PROVE  /\ k - 1 \in 1..Len(V!Missed(l)) /\ stream[k] = V!Missed(l)[k-1]
             /\ V!Missed(l)[k-1] \in 1..lastEventId
  <2>1. Len(V!Missed(l)) \in Nat
    BY <1>2
  <2>2. k - 1 \in 1..Len(V!Missed(l)) /\ k \in 2..Len(stream)
    BY <1>0, <1>4, <2>1
  <2>3. V!Missed(l)[k-1] \in 1..lastEventId
    BY <1>2, <2>2, EntryOf
  <2>4. QED
    BY <1>4, <2>2, <2>3
<1>8. ASSUME NEW x \in owed
      PROVE  \/ \E k \in 1..Len(stream) : stream[k] = x
             \/ /\ \A k \in 1..Len(stream) : stream[k] = V!Connected \/ x < stream[k]
                /\ \A id \in V!ReadHere(l) : x <= id
  <2>1. PICK y \in log : /\ y.boot = boot /\ l \in y.to /\ y.id = x
                         /\ [to |-> l, boot |-> boot, id |-> x] \notin dropped \cup passed
    OBVIOUS
  <2>2. x \in Nat /\ x # 0 /\ x <= lastEventId
    BY <2>1 DEF V!IInv, V!LogIsWhole, V!Logged
  <2>0. ASSUME NEW last \in V!ReadHere(l), last < x
        PROVE  V!InBuffer(x) /\ (last = 0 => ~(x <= lastSeen[l]))
    <3>1. y \in V!Unread(l)
      BY <2>1, <2>0 DEF V!Unread
    <3>2. V!InBuffer(x)
      BY <2>1, <3>1 DEF V!Named
    <3>3. QED
      BY <2>1, <2>0, <3>1, <3>2 DEF V!Named
  <2>3. CASE lastSeen[l] = 0
    <3>1. Len(stream) = 1
      BY <1>2, <1>4, <2>3
    <3>2. \A k \in 1..Len(stream) : stream[k] = V!Connected
      <4> SUFFICES ASSUME NEW k \in 1..Len(stream) PROVE stream[k] = V!Connected
        OBVIOUS
      <4>1. k = 1
        BY <3>1
      <4>2. QED
        BY <1>4, <4>1
    <3>3. QED
      BY <1>6, <2>3, <3>2
  <2>4. CASE lastSeen[l] # 0 /\ x > lastSeen[l]
    <3>1. \E last \in V!ReadHere(l) : last < x
      BY <1>5, <1>6, <2>2, <2>4
    <3>2. V!InBuffer(x)
      BY <2>0, <3>1
    <3>3. PICK k \in 1..Len(V!Missed(l)) : V!Missed(l)[k] = x
      BY <1>2, <2>1, <2>4, <3>2
    <3>4. QED
      BY <1>4, <3>3
  <2>5. CASE lastSeen[l] # 0 /\ ~(x > lastSeen[l])
    <3>1. x <= lastSeen[l]
      BY <1>5, <2>2, <2>5
    <3>0. V!ReadHere(l) = {lastSeen[l]}
      <4>1. CASE V!ReadHere(l) = {0}
        <5>1. 0 \in V!ReadHere(l) /\ 0 < x
          BY <2>2, <4>1
        <5>2. QED
          BY <2>0, <3>1, <5>1
      <4>2. QED
        BY <1>6, <2>5, <4>1
    <3>2. ASSUME NEW k \in 1..Len(stream) PROVE stream[k] = V!Connected \/ x < stream[k]
      <4>1. CASE k = 1
        BY <1>4, <4>1
      <4>2. CASE k # 1
        <5>1. /\ k - 1 \in 1..Len(V!Missed(l)) /\ stream[k] = V!Missed(l)[k-1]
              /\ V!Missed(l)[k-1] \in 1..lastEventId
          BY <1>0, <4>2
        <5>2. lastSeen[l] < V!Missed(l)[k-1]
          BY <1>2, <5>1
        <5>3. QED
          BY <1>2, <1>5, <2>2, <3>1, <5>1, <5>2
      <4>3. QED
        BY <4>1, <4>2
    <3>3. QED
      BY <3>0, <3>1, <3>2
  <2>6. QED
    BY <2>3, <2>4, <2>5
<1>9. ASSUME NEW j \in 1..Len(stream), NEW k \in 1..Len(stream), j < k PROVE stream[j] < stream[k]
  <2>0. k # 1 /\ Len(stream) \in Nat
    BY <1>2, <1>4, <1>9
  <2>1. k - 1 \in 1..Len(V!Missed(l)) /\ stream[k] = V!Missed(l)[k-1] /\ V!Missed(l)[k-1] \in 1..lastEventId
    BY <1>0, <2>0
  <2>2. CASE j = 1
    BY <1>2, <1>4, <2>1, <2>2 DEF V!Connected
  <2>3. CASE j # 1
    <3>1. j - 1 \in 1..Len(V!Missed(l)) /\ stream[j] = V!Missed(l)[j-1]
      BY <1>0, <2>3
    <3>2. j - 1 < k - 1
      BY <1>2, <1>4, <1>9
    <3>3. QED
      BY <1>2, <2>1, <3>1, <3>2
  <2>4. QED
    BY <2>2, <2>3
<1>10. ASSUME NEW k \in 1..Len(stream), NEW id \in V!ReadHere(l) PROVE stream[k] = V!Connected \/ id < stream[k]
  <2>1. CASE k = 1
    BY <1>4, <2>1
  <2>2. CASE k # 1
    <3>1. k - 1 \in 1..Len(V!Missed(l)) /\ stream[k] = V!Missed(l)[k-1]
      BY <1>0, <2>2
    <3>2. lastSeen[l] < V!Missed(l)[k-1] /\ (id = lastSeen[l] \/ id = 0)
      BY <1>2, <1>6, <3>1
    <3>3. V!Missed(l)[k-1] \in 1..lastEventId
      BY <1>0, <2>2
    <3>4. QED
      BY <1>2, <1>5, <3>1, <3>2, <3>3
  <2>3. QED
    BY <2>1, <2>2
<1>11. V!StreamIsWhole(stream, V!ReadHere(l), owed)
  <2> HIDE DEF owed
  <2>1. QED
    BY <1>8, <1>9, <1>10 DEF V!StreamIsWhole
<1>12. frames'[l] = stream /\ \A m \in Listeners \ {l} : frames'[m] = frames[m]
  BY <1>1 DEF V!IInv
<1>13. \A m : V!ReadHere(m)' = V!ReadHere(m)
  BY <1>1 DEF V!ReadHere
<1>14. \A m \in Listeners : V!Owed(m)' \subseteq V!Owed(m)
  BY <1>1 DEF V!Owed
<1>15. \A m \in listening' : V!StreamIsWhole(frames[m], V!ReadHere(m), V!Owed(m))'
  <2> SUFFICES ASSUME NEW m \in listening' PROVE V!StreamIsWhole(frames'[m], V!ReadHere(m)', V!Owed(m)')
    OBVIOUS
  <2>1. CASE m = l
    BY <1>7, <1>11, <1>12, <1>13, <2>1
  <2>2. CASE m # l
    <3>1. m \in listening /\ m \in Listeners /\ frames'[m] = frames[m]
      BY <1>1, <1>12, <2>2 DEF V!IInv
    <3>2. V!StreamIsWhole(frames[m], V!ReadHere(m), V!Owed(m))
      BY <3>1 DEF V!IInv
    <3>3. V!StreamIsWhole(frames[m], V!ReadHere(m), V!Owed(m)')
      BY <1>14, <3>1, <3>2, StreamStays
    <3>4. QED
      BY <1>13, <3>1, <3>3
  <2>3. QED
    BY <2>1, <2>2
<1> HIDE DEF dropped, passed, owed
<1>16. frames' \in [Listeners -> Seq(0..lastEventId')]
  BY <1>1, <1>4 DEF V!IInv
<1>17. V!NoGapsNorRepeats'
  BY <1>1, NoGapsStay DEF V!IInv
<1>18. V!LogIsWhole' /\ V!BufferIsOfLog'
  BY <1>1 DEF V!IInv, V!LogIsWhole, V!BufferIsOfLog, V!Logged
<1>19. QED
  BY <1>1, <1>15, <1>16, <1>17, <1>18 DEF V!IInv

\* A connection breaks: nothing is on its way any more.
LEMMA DisconnectKeeps ==
  ASSUME V!Parameters, V!IInv, NEW l \in Listeners, V!Disconnect(l)
  PROVE  V!IInv'
<1>1. /\ listening' = listening \ {l} /\ clients' = clients \ {l} /\ breaks' = breaks + 1
      /\ frames' = [frames EXCEPT ![l] = << >>]
      /\ UNCHANGED <<lastEventId, replayBuffer, lastSeen, received, boot, log, evicted, skipped>>
  BY DEF V!Disconnect, V!Break
<1>2. \A m \in listening' : m \in listening /\ m \in Listeners /\ frames'[m] = frames[m]
  BY <1>1 DEF V!IInv
<1>3. \A m : V!ReadHere(m)' = V!ReadHere(m) /\ V!Owed(m)' = V!Owed(m)
  BY <1>1 DEF V!ReadHere, V!Owed
<1>4. \A m \in listening' : V!StreamIsWhole(frames'[m], V!ReadHere(m)', V!Owed(m)')
  BY <1>2, <1>3 DEF V!IInv
<1>5. frames' \in [Listeners -> Seq(0..lastEventId')]
  BY <1>1 DEF V!IInv
<1>6. V!NoGapsNorRepeats'
  BY <1>1, NoGapsStay DEF V!IInv
<1>7. V!LogIsWhole' /\ V!BufferIsOfLog'
  BY <1>1 DEF V!IInv, V!LogIsWhole, V!BufferIsOfLog, V!Logged
<1>8. /\ boot' \in Nat \ {0} /\ breaks' \in Nat /\ lastEventId' \in Nat
      /\ clients' = listening' /\ listening' \subseteq Listeners
  BY <1>1 DEF V!IInv
<1>9. /\ received' \in [Listeners -> Seq([boot : 1..boot', id : 1..MaxEmitted])]
      /\ lastSeen' = [m \in Listeners |-> IF received'[m] = << >> THEN 0
                                          ELSE received'[m][Len(received'[m])].id]
      /\ \A m \in Listeners : \A i \in 1..Len(received'[m]) :
           received'[m][i].boot = boot' => received'[m][i].id <= lastEventId'
  BY <1>1 DEF V!IInv
<1>10. QED
  BY <1>4, <1>5, <1>6, <1>7, <1>8, <1>9 DEF V!IInv

\* The server restarts: another run, in which nobody has read anything.
LEMMA HubRestartKeeps ==
  ASSUME V!Parameters, V!IInv, V!Restart
  PROVE  V!IInv'
<1>1. /\ listening' = {} /\ clients' = {} /\ breaks' = breaks + 1 /\ lastEventId' = 0
      /\ replayBuffer' = << >> /\ boot' = boot + 1 /\ frames' = [l \in Listeners |-> << >>]
      /\ UNCHANGED <<lastSeen, received, log, evicted, skipped>>
  BY DEF V!Restart, V!Break
<1>2. boot \in Nat \ {0} /\ lastEventId \in Nat
  BY DEF V!IInv
<1>3. received' \in [Listeners -> Seq([boot : 1..boot', id : 1..MaxEmitted])]
  <2> DEFINE Old == [boot : 1..boot, id : 1..MaxEmitted]
             New == [boot : 1..boot + 1, id : 1..MaxEmitted]
  <2>1. Old \subseteq New
    BY <1>2
  <2>2. received \in [Listeners -> Seq(Old)]
    BY DEF V!IInv
  <2> HIDE DEF Old, New
  <2>3. \A l \in Listeners : received[l] \in Seq(New)
    <3> SUFFICES ASSUME NEW l \in Listeners PROVE received[l] \in Seq(New)
      OBVIOUS
    <3>1. received[l] \in Seq(Old)
      BY <2>2
    <3>2. QED
      BY <2>1, <3>1
  <2>4. received \in [Listeners -> Seq(New)]
    BY <2>2, <2>3
  <2>5. QED
    BY <1>1, <2>4 DEF New
<1>4. ASSUME NEW l \in Listeners, NEW i \in 1..Len(received[l]) PROVE received[l][i].boot # boot'
  <2>1. received[l] \in Seq([boot : 1..boot, id : 1..MaxEmitted])
    BY DEF V!IInv
  <2>2. received[l][i] \in [boot : 1..boot, id : 1..MaxEmitted]
    BY <2>1, EntryOf
  <2>3. QED
    BY <1>1, <1>2, <2>2
<1>5. V!LogIsWhole'
  <2>1. \A x \in log : x \in [boot : 1..boot', id : Nat \ {0}, to : SUBSET Users] /\ x.boot # boot'
    BY <1>1, <1>2 DEF V!IInv, V!LogIsWhole, V!Logged
  <2>2. Cardinality(log) \in Nat
    BY HubSets, FS_CardinalityType DEF V!IInv, V!LogIsWhole
  <2>3. QED
    BY <1>1, <2>1, <2>2, HubSets DEF V!IInv, V!LogIsWhole, V!Logged
<1>6. V!BufferIsOfLog'
  BY <1>1 DEF V!BufferIsOfLog, V!Parameters
<1>7. V!NoGapsNorRepeats'
  BY <1>1, NoGapsStay DEF V!IInv
<1>8. frames' \in [Listeners -> Seq(0..lastEventId')]
  BY <1>1
<1>9. lastSeen' = [l \in Listeners |-> IF received'[l] = << >> THEN 0
                                       ELSE received'[l][Len(received'[l])].id]
  BY <1>1 DEF V!IInv
<1>10. \A l \in Listeners : \A i \in 1..Len(received'[l]) :
         received'[l][i].boot = boot' => received'[l][i].id <= lastEventId'
  BY <1>1, <1>4
<1>11. /\ boot' \in Nat \ {0} /\ breaks' \in Nat /\ lastEventId' \in Nat
       /\ clients' = listening' /\ listening' \subseteq Listeners
  BY <1>1, <1>2 DEF V!IInv
<1>12. \A m \in listening' : V!StreamIsWhole(frames'[m], V!ReadHere(m)', V!Owed(m)')
  BY <1>1
<1>13. QED
  BY <1>3, <1>5, <1>6, <1>7, <1>8, <1>9, <1>10, <1>11, <1>12 DEF V!IInv

\* Where a listener is in this run.
LEMMA LastRead ==
  ASSUME V!IInv, NEW l \in Listeners
  PROVE  /\ V!ReadHere(l) \subseteq 0..lastEventId
         /\ \A n \in 1..Len(received[l]) : n = Len(received[l])
              => V!ReadHere(l) = {IF received[l][n].boot = boot THEN received[l][n].id ELSE 0}
<1>1. received[l] \in Seq([boot : 1..boot, id : 1..MaxEmitted]) /\ lastEventId \in Nat
  BY DEF V!IInv
<1>2. ASSUME NEW x \in V!ReadHere(l) PROVE x \in 0..lastEventId
  <2> DEFINE n == Len(received[l])
  <2>1. n \in 1..n /\ (x = 0 \/ (received[l][n].boot = boot /\ x = received[l][n].id))
    BY <1>1 DEF V!ReadHere
  <2>2. received[l][n] \in [boot : 1..boot, id : 1..MaxEmitted]
    BY <1>1, <2>1, EntryOf
  <2>3. CASE x = 0
    BY <1>1, <2>3
  <2>4. CASE received[l][n].boot = boot /\ x = received[l][n].id
    <3>1. x \in Nat /\ x <= lastEventId
      BY <2>1, <2>2, <2>4 DEF V!IInv
    <3>2. QED
      BY <1>1, <3>1
  <2>5. QED
    BY <2>1, <2>3, <2>4
<1>3. QED
  BY <1>2 DEF V!ReadHere

\* What a listener is to have has ids of this run.
LEMMA OwedIds == ASSUME V!IInv, NEW l PROVE V!Owed(l) \subseteq 1..lastEventId
<1>1. \A y \in log : y.boot = boot => y.id \in Nat /\ y.id >= 1 /\ y.id <= lastEventId
  BY DEF V!IInv, V!LogIsWhole, V!Logged
<1>2. lastEventId \in Nat
  BY DEF V!IInv
<1>3. ASSUME NEW x \in V!Owed(l) PROVE x \in 1..lastEventId
  <2>1. PICK y \in log : y.boot = boot /\ y.id = x
    BY DEF V!Owed
  <2>2. QED
    BY <1>1, <1>2, <2>1
<1>4. QED
  BY <1>3

\* The head of a stream is read: nothing that is owed was left out before it.
LEMMA HeadIsRead ==
  ASSUME NEW n \in Nat, NEW stream \in Seq(0..n), stream # << >>, NEW newest \in SUBSET (0..n),
         NEW owed \in SUBSET (1..n), V!StreamIsWhole(stream, newest, owed)
  PROVE  /\ Head(stream) = V!Connected => V!StreamIsWhole(Tail(stream), newest, owed)
         /\ Head(stream) # V!Connected => V!StreamIsWhole(Tail(stream), {Head(stream)}, owed)
         /\ Head(stream) # V!Connected => \A id \in newest : id < Head(stream)
         /\ Head(stream) # V!Connected =>
              \A x \in owed : (\A id \in newest : id < x) => ~(x < Head(stream)) \/ newest = {}
<1> DEFINE h == Head(stream)
           t == Tail(stream)
<1>1. /\ Len(stream) \in Nat \ {0} /\ t \in Seq(0..n) /\ Len(t) = Len(stream) - 1
      /\ h = stream[1] /\ h \in 0..n /\ 1 \in 1..Len(stream)
  BY EntryOf
<1>2. ASSUME NEW k \in 1..Len(t)
      PROVE  t[k] = stream[k+1] /\ k + 1 \in 1..Len(stream) /\ t[k] \in 0..n /\ h < t[k]
  <2>1. t[k] = stream[k+1] /\ k + 1 \in 1..Len(stream) /\ 1 < k + 1
    BY <1>1
  <2>2. t[k] \in 0..n
    BY <1>1, EntryOf
  <2>3. QED
    BY <1>1, <2>1, <2>2 DEF V!StreamIsWhole
<1>3. ASSUME NEW k \in 1..Len(stream), k # 1 PROVE k - 1 \in 1..Len(t) /\ t[k-1] = stream[k]
  <2>1. k - 1 \in 1..Len(t)
    BY <1>1, <1>3
  <2>2. (k - 1) + 1 = k
    OBVIOUS
  <2>3. QED
    BY <1>2, <2>1, <2>2
<1>4. \A j, k \in 1..Len(t) : j < k => t[j] < t[k]
  <2> SUFFICES ASSUME NEW j \in 1..Len(t), NEW k \in 1..Len(t), j < k PROVE t[j] < t[k]
    OBVIOUS
  <2>1. j + 1 < k + 1
    BY <1>1
  <2>2. QED
    BY <1>2, <2>1 DEF V!StreamIsWhole
<1> HIDE DEF h, t
<1>5. \A k \in 1..Len(t) : \A id \in newest : t[k] = V!Connected \/ id < t[k]
  BY <1>2 DEF V!StreamIsWhole
<1>6. ASSUME NEW x \in owed
      PROVE  \/ \E k \in 1..Len(t) : t[k] = x
             \/ x = h
             \/ /\ \A k \in 1..Len(t) : t[k] = V!Connected \/ x < t[k]
                /\ h = V!Connected \/ x < h
                /\ \A id \in newest : x <= id
  <2>1. CASE \E k \in 1..Len(stream) : stream[k] = x
    <3>1. PICK k \in 1..Len(stream) : stream[k] = x
      BY <2>1
    <3>2. CASE k = 1
      BY <1>1, <3>1, <3>2
    <3>3. CASE k # 1
      BY <1>3, <3>1, <3>3
    <3>4. QED
      BY <3>2, <3>3
  <2>2. CASE /\ \A k \in 1..Len(stream) : stream[k] = V!Connected \/ x < stream[k]
             /\ \A id \in newest : x <= id
    BY <1>1, <1>2, <2>2
  <2>3. QED
    BY <2>1, <2>2 DEF V!StreamIsWhole
<1>7. CASE h = V!Connected
  <2>1. \A x \in owed : x # h
    BY <1>7 DEF V!Connected
  <2>2. V!StreamIsWhole(t, newest, owed)
    BY <1>4, <1>5, <1>6, <2>1 DEF V!StreamIsWhole
  <2>3. QED
    BY <1>7, <2>2 DEF h, t
<1>8. CASE h # V!Connected
  <2>1. ASSUME NEW x \in owed
        PROVE  \/ \E k \in 1..Len(t) : t[k] = x
               \/ /\ \A k \in 1..Len(t) : t[k] = V!Connected \/ x < t[k]
                  /\ x <= h
    <3>1. x \in Nat /\ h \in Nat
      BY <1>1
    <3>2. QED
      BY <1>2, <1>6, <1>8, <3>1
  <2>2. V!StreamIsWhole(t, {h}, owed)
    <3>1. \A k \in 1..Len(t) : \A id \in {h} : t[k] = V!Connected \/ id < t[k]
      BY <1>2
    <3>2. QED
      BY <1>4, <2>1, <3>1 DEF V!StreamIsWhole
  <2>3. \A id \in newest : id < h
    BY <1>1, <1>8 DEF V!StreamIsWhole
  <2>4. ASSUME NEW x \in owed, \A id \in newest : id < x, x < h, newest # {} PROVE FALSE
    <3>1. x \in Nat /\ h \in Nat /\ newest \subseteq Nat
      BY <1>1
    <3>2. PICK id \in newest : id < x
      BY <2>4
    <3>3. ~(x <= id) /\ x # h
      BY <2>4, <3>1, <3>2
    <3>4. PICK k \in 1..Len(t) : t[k] = x
      BY <1>6, <3>2, <3>3
    <3>5. h < x /\ x \in Nat
      BY <1>2, <3>1, <3>4
    <3>6. QED
      BY <2>4, <3>1, <3>5
  <2>5. QED
    BY <1>8, <2>2, <2>3, <2>4 DEF h, t
<1>9. QED
  BY <1>7, <1>8

\* A listener reads the next frame: what it is owed before that one it has read.
LEMMA ReadKeeps ==
  ASSUME V!Parameters, V!IInv, NEW l \in Listeners, V!Read(l)
  PROVE  V!IInv'
<1> DEFINE id == Head(frames[l])
           Seen == [boot : 1..boot, id : 1..MaxEmitted]
           e == [boot |-> boot, id |-> id]
<1>1. /\ l \in listening /\ frames[l] # << >> /\ frames' = [frames EXCEPT ![l] = Tail(@)]
      /\ UNCHANGED <<V!hub, listening, boot, log, evicted, skipped, breaks>>
      /\ id = V!Connected => UNCHANGED <<lastSeen, received>>
      /\ id # V!Connected => /\ lastSeen' = [lastSeen EXCEPT ![l] = id]
                           /\ received' = [received EXCEPT ![l] = Append(@, e)]
  BY DEF V!Read
<1>2. /\ lastEventId \in Nat /\ boot \in Nat \ {0} /\ frames[l] \in Seq(0..lastEventId)
      /\ received \in [Listeners -> Seq(Seen)] /\ received[l] \in Seq(Seen)
  BY DEF V!IInv
<1>3. lastEventId <= MaxEmitted /\ MaxEmitted \in Nat
  BY HubSets, FS_CardinalityType, <1>2 DEF V!IInv, V!LogIsWhole, V!Parameters
<1>4. /\ V!ReadHere(l) \in SUBSET (0..lastEventId) /\ V!Owed(l) \in SUBSET (1..lastEventId)
      /\ V!StreamIsWhole(frames[l], V!ReadHere(l), V!Owed(l))
  BY <1>1, LastRead, OwedIds DEF V!IInv
<1>5. /\ id = V!Connected => V!StreamIsWhole(Tail(frames[l]), V!ReadHere(l), V!Owed(l))
      /\ id # V!Connected => V!StreamIsWhole(Tail(frames[l]), {id}, V!Owed(l))
      /\ id # V!Connected => \A k \in V!ReadHere(l) : k < id
      /\ id # V!Connected => \A x \in V!Owed(l) : (\A k \in V!ReadHere(l) : k < x)
                                                => ~(x < id) \/ V!ReadHere(l) = {}
  BY <1>1, <1>2, <1>4, HeadIsRead
<1>6. id \in 0..lastEventId /\ Tail(frames[l]) \in Seq(0..lastEventId)
  BY <1>1, <1>2, HeadOf
<1>7. \A m \in Listeners \ {l} : frames'[m] = frames[m] /\ received'[m] = received[m]
  BY <1>1, <1>2 DEF V!IInv
<1>8. frames'[l] = Tail(frames[l])
  BY <1>1 DEF V!IInv
<1>9. frames' \in [Listeners -> Seq(0..lastEventId)]
  <2>1. frames \in [Listeners -> Seq(0..lastEventId)]
    BY DEF V!IInv
  <2>2. QED
    BY <1>1, <1>6, <2>1
<1>10. \A m : V!Owed(m)' = V!Owed(m)
  BY <1>1 DEF V!Owed
<1>11. V!LogIsWhole' /\ V!BufferIsOfLog'
  BY <1>1 DEF V!IInv, V!LogIsWhole, V!BufferIsOfLog, V!Logged, V!hub
<1>12. /\ boot' \in Nat \ {0} /\ breaks' \in Nat /\ lastEventId' \in Nat /\ lastEventId' = lastEventId
       /\ clients' = listening' /\ listening' \subseteq Listeners /\ boot' = boot
  BY <1>1 DEF V!IInv, V!hub
<1>13. CASE id = V!Connected
  <2>1. /\ received' \in [Listeners -> Seq([boot : 1..boot', id : 1..MaxEmitted])]
        /\ lastSeen' = [m \in Listeners |-> IF received'[m] = << >> THEN 0
                                            ELSE received'[m][Len(received'[m])].id]
        /\ \A m \in Listeners : \A i \in 1..Len(received'[m]) :
             received'[m][i].boot = boot' => received'[m][i].id <= lastEventId'
        /\ \A m : V!ReadHere(m)' = V!ReadHere(m)
    <3>1. UNCHANGED <<lastSeen, received, boot>>
      BY <1>1, <1>13
    <3>2. lastEventId' \in Nat /\ lastEventId' >= lastEventId /\ lastEventId' <= MaxEmitted
      BY <1>2, <1>3, <1>12
    <3>3. QED
      BY <3>1, <3>2, ReadIsKept
  <2>2. \A m \in listening' : V!StreamIsWhole(frames'[m], V!ReadHere(m)', V!Owed(m)')
    <3> SUFFICES ASSUME NEW m \in listening' PROVE V!StreamIsWhole(frames'[m], V!ReadHere(m)', V!Owed(m)')
      OBVIOUS
    <3>1. CASE m = l
      BY <1>5, <1>8, <1>10, <1>13, <2>1, <3>1
    <3>2. CASE m # l
      BY <1>1, <1>7, <1>10, <1>12, <2>1, <3>2 DEF V!IInv
    <3>3. QED
      BY <3>1, <3>2
  <2>3. V!NoGapsNorRepeats'
    BY <1>1, <1>13, NoGapsStay DEF V!IInv
  <2>4. QED
    BY <1>9, <1>11, <1>12, <2>1, <2>2, <2>3 DEF V!IInv
<1>14. CASE id # V!Connected
  <2> DEFINE n == Len(received[l])
  <2>1. id \in 1..lastEventId /\ id \in 1..MaxEmitted
    BY <1>2, <1>3, <1>6, <1>14 DEF V!Connected
  <2>2. e \in Seen /\ e.boot = boot /\ e.id = id
    BY <1>2, <2>1
  <2> HIDE DEF id, Seen, e
  <2>3. /\ Append(received[l], e) \in Seq(Seen) /\ Len(Append(received[l], e)) = n + 1 /\ n \in Nat
        /\ Append(received[l], e)[n + 1] = e /\ Append(received[l], e) # << >>
        /\ \A i \in 1..n : Append(received[l], e)[i] = received[l][i]
    BY <1>2, <2>2, OneMore
  <2>4. /\ received'[l] = Append(received[l], e) /\ received' \in [Listeners -> Seq(Seen)]
        /\ lastSeen' = [lastSeen EXCEPT ![l] = id]
    BY <1>1, <1>2, <1>14, <2>3
  <2>5. lastSeen' = [m \in Listeners |-> IF received'[m] = << >> THEN 0
                                         ELSE received'[m][Len(received'[m])].id]
    <3>1. lastSeen = [m \in Listeners |-> IF received[m] = << >> THEN 0
                                          ELSE received[m][Len(received[m])].id]
      BY DEF V!IInv
    <3>2. received'[l] # << >> /\ received'[l][Len(received'[l])].id = id
      BY <2>2, <2>3, <2>4
    <3>3. QED
      BY <1>7, <2>4, <3>1, <3>2
  <2>6. ASSUME NEW m \in Listeners, NEW i \in 1..Len(received'[m]), received'[m][i].boot = boot
        PROVE  received'[m][i].id <= lastEventId
    <3>1. CASE m = l /\ i = n + 1
      BY <1>2, <2>1, <2>2, <2>3, <2>4, <3>1
    <3>2. CASE m = l /\ i # n + 1
      <4>1. i \in 1..n
        BY <2>3, <2>4, <3>2
      <4>2. received'[m][i] = received[m][i]
        BY <2>3, <2>4, <3>2, <4>1
      <4>3. QED
        BY <2>6, <3>2, <4>1, <4>2 DEF V!IInv
    <3>3. CASE m # l
      BY <1>7, <2>6, <3>3 DEF V!IInv
    <3>4. QED
      BY <3>1, <3>2, <3>3
  <2>7. V!ReadHere(l)' = {id}
    <3>1. Len(received'[l]) = n + 1 /\ received'[l][n + 1] = e /\ n + 1 \in 1..n + 1
      BY <2>3, <2>4
    <3>2. QED
      BY <1>12, <2>2, <3>1 DEF V!ReadHere
  <2>8. \A m \in Listeners \ {l} : V!ReadHere(m)' = V!ReadHere(m)
    BY <1>7, <1>12 DEF V!ReadHere
  <2>9. \A m \in listening' : V!StreamIsWhole(frames'[m], V!ReadHere(m)', V!Owed(m)')
    <3> SUFFICES ASSUME NEW m \in listening' PROVE V!StreamIsWhole(frames'[m], V!ReadHere(m)', V!Owed(m)')
      OBVIOUS
    <3>1. CASE m = l
      BY <1>5, <1>8, <1>10, <1>14, <2>7, <3>1
    <3>2. CASE m # l
      <4>1. m \in listening /\ m \in Listeners \ {l}
        BY <1>1, <1>12, <3>2
      <4>2. QED
        BY <1>7, <1>10, <2>8, <4>1 DEF V!IInv
    <3>3. QED
      BY <3>1, <3>2
  <2>10. V!NoGapsNorRepeats'
    <3>1. SUFFICES ASSUME NEW m \in Listeners, NEW i \in 1..(Len(received'[m]) - 1)
                   PROVE  /\ received'[m][i].boot = received'[m][i+1].boot
                               => received'[m][i].id < received'[m][i+1].id
                          /\ \A x \in log :
                               /\ x.boot = received'[m][i+1].boot /\ m \in x.to
                               /\ x.id < received'[m][i+1].id
                               /\ received'[m][i].boot = received'[m][i+1].boot
                                    => received'[m][i].id < x.id
                               => [to |-> m, boot |-> x.boot, id |-> x.id] \in evicted \cup skipped
      BY <1>1 DEF V!NoGapsNorRepeats
    <3>2. CASE m = l /\ i = n
      <4>0. n \in 1..n
        BY <2>3, <2>4, <3>1, <3>2
      <4>1. received'[m][i] = received[l][n] /\ received'[m][i+1] = e
        BY <2>3, <2>4, <3>1, <3>2, <4>0
      <4> DEFINE last == IF received[l][n].boot = boot THEN received[l][n].id ELSE 0
      <4>2. V!ReadHere(l) = {last}
        BY <4>0, LastRead
      <4>3. ASSUME NEW x \in log, x.boot = boot, l \in x.to, x.id < id,
                   received[l][n].boot = boot => received[l][n].id < x.id,
                   [to |-> l, boot |-> x.boot, id |-> x.id] \notin evicted \cup skipped
            PROVE  FALSE
        <5>1. x.id \in V!Owed(l)
          BY <4>3 DEF V!Owed
        <5>2. last < x.id
          BY <1>4, <4>3, <5>1
        <5> HIDE DEF last
        <5>3. \A k \in V!ReadHere(l) : k < x.id
          BY <4>2, <5>2
        <5>4. QED
          BY <1>5, <1>14, <4>2, <4>3, <5>1, <5>3
      <4>4. received[l][n].boot = boot => received[l][n].id < id
        BY <1>5, <1>14, <4>2
      <4>5. QED
        BY <2>2, <3>2, <4>1, <4>3, <4>4
    <3>3. CASE m = l /\ i # n
      <4>1. i \in 1..(n - 1) /\ i \in 1..n /\ i + 1 \in 1..n
        BY <2>3, <2>4, <3>3
      <4>2. received'[m][i] = received[m][i] /\ received'[m][i+1] = received[m][i+1]
        BY <2>3, <2>4, <3>3, <4>1
      <4>3. QED
        BY <3>1, <3>3, <4>1, <4>2 DEF V!IInv, V!NoGapsNorRepeats
    <3>4. CASE m # l
      BY <1>7, <3>1, <3>4 DEF V!IInv, V!NoGapsNorRepeats
    <3>5. QED
      BY <3>2, <3>3, <3>4
  <2>11. received' \in [Listeners -> Seq([boot : 1..boot', id : 1..MaxEmitted])]
    BY <1>12, <2>4 DEF Seen
  <2>12. QED
    BY <1>9, <1>11, <1>12, <2>5, <2>6, <2>9, <2>10, <2>11 DEF V!IInv
<1>15. QED
  BY <1>13, <1>14

\* What is written next is newer than everything.
LEMMA NewestIsLast ==
  ASSUME NEW n \in Nat, NEW stream \in Seq(0..n), NEW newest \in SUBSET (0..n),
         NEW owed \in SUBSET (1..n), NEW more \in SUBSET (owed \cup {n + 1}),
         V!StreamIsWhole(stream, newest, owed)
  PROVE  V!StreamIsWhole(Append(stream, n + 1), newest, more)
<1> DEFINE t == Append(stream, n + 1)
<1>1. Len(stream) \in Nat /\ Len(t) = Len(stream) + 1 /\ t[Len(stream) + 1] = n + 1
  OBVIOUS
<1>2. \A k \in 1..Len(stream) : t[k] = stream[k] /\ k \in 1..Len(t)
  OBVIOUS
<1> HIDE DEF t
<1>3. \A k \in 1..Len(t) : k = Len(stream) + 1 \/ k \in 1..Len(stream)
  BY <1>1
<1>4. \A k \in 1..Len(stream) : stream[k] \in 0..n
  BY EntryOf
<1>5. \A k \in 1..Len(t) : t[k] = n + 1 \/ (k \in 1..Len(stream) /\ t[k] = stream[k] /\ t[k] < n + 1)
  BY <1>1, <1>2, <1>3, <1>4
<1>6. ASSUME NEW j \in 1..Len(t), NEW k \in 1..Len(t), j < k PROVE t[j] < t[k]
  <2>1. j \in 1..Len(stream)
    BY <1>1, <1>3, <1>6
  <2>2. t[j] = stream[j] /\ stream[j] \in 0..n
    BY <1>2, <1>4, <2>1
  <2>3. CASE k = Len(stream) + 1
    BY <1>1, <2>2, <2>3
  <2>4. CASE k \in 1..Len(stream)
    BY <1>2, <1>6, <2>1, <2>2, <2>4 DEF V!StreamIsWhole
  <2>5. QED
    BY <1>3, <2>3, <2>4
<1>7. ASSUME NEW k \in 1..Len(t), NEW id \in newest PROVE t[k] = V!Connected \/ id < t[k]
  <2>1. id \in Nat /\ id < n + 1
    OBVIOUS
  <2>2. QED
    BY <1>5, <2>1 DEF V!StreamIsWhole
<1>8. ASSUME NEW x \in more
      PROVE  \/ \E k \in 1..Len(t) : t[k] = x
             \/ /\ \A k \in 1..Len(t) : t[k] = V!Connected \/ x < t[k]
                /\ \A id \in newest : x <= id
  <2>1. CASE x = n + 1
    BY <1>1, <2>1
  <2>2. CASE x \in owed
    <3>1. x \in Nat /\ x < n + 1
      BY <2>2
    <3>2. CASE \E k \in 1..Len(stream) : stream[k] = x
      BY <1>2, <3>2
    <3>3. CASE /\ \A k \in 1..Len(stream) : stream[k] = V!Connected \/ x < stream[k]
               /\ \A id \in newest : x <= id
      BY <1>5, <3>1, <3>3
    <3>4. QED
      BY <2>2, <3>2, <3>3 DEF V!StreamIsWhole
  <2>3. QED
    BY <2>1, <2>2
<1>9. QED
  BY <1>6, <1>7, <1>8 DEF V!StreamIsWhole, t

\* The buffer after an event: its newest entries and that event, in order.
LEMMA Remembering ==
  ASSUME V!Parameters, V!IInv, NEW to \in SUBSET Users, V!Emit(to)
  PROVE  V!BufferIsOfLog'
<1> DEFINE event == [id |-> lastEventId + 1, to |-> to]
           Old == [id : 1..lastEventId, to : SUBSET Users]
           New == [id : 1..lastEventId + 1, to : SUBSET Users]
           whole == Append(replayBuffer, event)
           from == IF Len(whole) > BufferSize THEN Len(whole) - BufferSize + 1 ELSE 1
           kept == SubSeq(whole, from, Len(whole))
           n == Len(replayBuffer)
<1>1. /\ lastEventId' = lastEventId + 1 /\ boot' = boot /\ replayBuffer' = kept
      /\ log' = log \cup {[boot |-> boot, id |-> lastEventId + 1, to |-> to]}
  BY DEF V!Emit, V!Remembered
<1>2. /\ lastEventId \in Nat /\ replayBuffer \in Seq(Old) /\ n <= BufferSize /\ BufferSize \in Nat
      /\ \A i, j \in 1..n : i < j => replayBuffer[i].id < replayBuffer[j].id
      /\ \A i \in 1..n :
           [boot |-> boot, id |-> replayBuffer[i].id, to |-> replayBuffer[i].to] \in log
  BY DEF V!IInv, V!BufferIsOfLog, V!Parameters
<1>3. Old \subseteq New /\ event \in New /\ event.id = lastEventId + 1 /\ event.to = to
  BY <1>2
<1>4. \A i \in 1..n : replayBuffer[i].id \in Nat /\ replayBuffer[i].id < lastEventId + 1
  <2> SUFFICES ASSUME NEW i \in 1..n
               PROVE  replayBuffer[i].id \in Nat /\ replayBuffer[i].id < lastEventId + 1
    OBVIOUS
  <2>1. replayBuffer[i] \in Old
    BY <1>2, EntryOf
  <2>2. replayBuffer[i].id \in 1..lastEventId
    BY <2>1
  <2>3. QED
    BY <1>2, <2>2
<1> HIDE DEF Old, New, event
<1>5. replayBuffer \in Seq(New)
  BY <1>2, <1>3
<1>6. /\ whole \in Seq(New) /\ Len(whole) = n + 1 /\ n \in Nat /\ whole[n + 1] = event
      /\ \A i \in 1..n : whole[i] = replayBuffer[i]
  BY <1>3, <1>5, OneMore
<1> HIDE DEF whole
<1>7. from \in 1..n + 2 /\ (n + 1) - from + 1 <= BufferSize
  BY <1>2, <1>6
<1> HIDE DEF from
<1>8. /\ kept \in Seq(New) /\ Len(kept) = (n + 1) - from + 1
      /\ \A i \in 1..Len(kept) : kept[i] = whole[from + i - 1] /\ from + i - 1 \in 1..n + 1
  <2>1. CASE from = n + 2
    <3>1. kept = << >>
      BY <1>6, <2>1
    <3>2. QED
      BY <1>6, <2>1, <3>1
  <2>2. CASE from # n + 2
    <3>1. from \in 1..n + 1
      BY <1>6, <1>7, <2>2
    <3>2. QED
      BY <1>6, <3>1
  <2>3. QED
    BY <2>1, <2>2
<1> HIDE DEF kept
<1>9. \A i \in 1..n + 1 : i \in 1..n \/ i = n + 1
  BY <1>6
<1>10. ASSUME NEW i \in 1..n + 1, NEW j \in 1..n + 1, i < j PROVE whole[i].id < whole[j].id
  <2>1. i \in 1..n
    BY <1>6, <1>10
  <2>2. QED
    BY <1>2, <1>3, <1>4, <1>6, <1>9, <1>10, <2>1
<1>11. ASSUME NEW i \in 1..n + 1
       PROVE  [boot |-> boot, id |-> whole[i].id, to |-> whole[i].to] \in log'
  BY <1>1, <1>2, <1>3, <1>6, <1>9
<1>12. ASSUME NEW i \in 1..Len(kept), NEW j \in 1..Len(kept), i < j PROVE kept[i].id < kept[j].id
  <2>1. from + i - 1 < from + j - 1
    BY <1>6, <1>7, <1>8, <1>12
  <2>2. QED
    BY <1>8, <1>10, <2>1
<1>13. Len(kept) <= BufferSize
  BY <1>7, <1>8
<1>14. replayBuffer' \in Seq([id : 1..lastEventId', to : SUBSET Users])
  BY <1>1, <1>8 DEF New
<1>15. QED
  BY <1>1, <1>8, <1>11, <1>12, <1>13, <1>14 DEF V!BufferIsOfLog

\* An event is emitted: it is newer than everything, in every stream it is written to.
LEMMA EmitKeeps ==
  ASSUME V!Parameters, V!IInv, NEW to \in SUBSET Users, V!Emit(to)
  PROVE  V!IInv'
<1> DEFINE id == lastEventId + 1
           new == [boot |-> boot, id |-> id, to |-> to]
           target == to \cap clients
<1>1. /\ Cardinality(log) < MaxEmitted /\ lastEventId' = id
      /\ frames' = [l \in Listeners |->
           IF l \notin target THEN frames[l] ELSE IF V!Stalled(l) THEN << >> ELSE Append(frames[l], id)]
      /\ clients' = {l \in clients : ~(l \in target /\ V!Stalled(l))}
      /\ listening'  = {l \in listening : ~(l \in target /\ V!Stalled(l))}
      /\ log' = log \cup {new}
      /\ UNCHANGED <<lastSeen, received, boot, evicted, skipped, breaks>>
  BY HubSets DEF V!Emit
<1>2. /\ lastEventId \in Nat /\ boot \in Nat \ {0} /\ clients = listening /\ listening \subseteq Listeners
      /\ frames \in [Listeners -> Seq(0..lastEventId)] /\ MaxEmitted \in Nat
  BY DEF V!IInv, V!Parameters
<1>3. new \in [boot : 1..boot, id : Nat \ {0}, to : SUBSET Users] /\ new.boot = boot /\ new.id = id
      /\ new.to = to
  BY <1>2
<1>4. \A x \in log : x.boot = boot => x.id <= lastEventId /\ x.id \in Nat
  BY DEF V!IInv, V!LogIsWhole, V!Logged
<1> HIDE DEF new
<1>5. new \notin log
  BY <1>2, <1>3, <1>4
<1>6. /\ IsFiniteSet(log') /\ Cardinality(log) \in Nat /\ Cardinality(log') = Cardinality(log) + 1
  BY <1>1, <1>5, HubSets, FS_AddElement, FS_CardinalityType DEF V!IInv, V!LogIsWhole
<1>7. lastEventId' <= Cardinality(log') /\ Cardinality(log') <= MaxEmitted
  <2>1. lastEventId <= Cardinality(log) /\ Cardinality(log) < MaxEmitted
    BY <1>1, HubSets DEF V!IInv, V!LogIsWhole
  <2>2. QED
    BY <1>1, <1>2, <1>6, <2>1
<1>8. V!LogIsWhole'
  <2>1. log' \subseteq V!Logged'
    BY <1>1, <1>3 DEF V!IInv, V!LogIsWhole, V!Logged
  <2>2. \A x \in log' : x.boot = boot => x.id <= id
    BY <1>1, <1>2, <1>3, <1>4
  <2>3. \A x, y \in log' : x.boot = y.boot /\ x.id = y.id => x = y
    <3> SUFFICES ASSUME NEW x \in log', NEW y \in log', x.boot = y.boot, x.id = y.id PROVE x = y
      OBVIOUS
    <3>1. CASE x \in log /\ y \in log
      BY <3>1 DEF V!IInv, V!LogIsWhole
    <3>2. CASE x = new \/ y = new
      BY <1>1, <1>2, <1>3, <1>4, <3>2
    <3>3. QED
      BY <1>1, <3>1, <3>2
  <2>4. QED
    BY <1>1, <1>6, <1>7, <2>1, <2>2, <2>3, HubSets DEF V!LogIsWhole
<1>9. V!BufferIsOfLog'
  BY Remembering
<1>10. /\ received' \in [Listeners -> Seq([boot : 1..boot', id : 1..MaxEmitted])]
       /\ lastSeen' = [l \in Listeners |-> IF received'[l] = << >> THEN 0
                                           ELSE received'[l][Len(received'[l])].id]
       /\ \A l \in Listeners : \A i \in 1..Len(received'[l]) :
            received'[l][i].boot = boot' => received'[l][i].id <= lastEventId'
       /\ \A l : V!ReadHere(l)' = V!ReadHere(l)
  <2>1. lastEventId' \in Nat /\ lastEventId' >= lastEventId /\ lastEventId' <= MaxEmitted
    BY <1>1, <1>2, <1>6, <1>7
  <2>2. QED
    BY <1>1, <2>1, ReadIsKept
<1>11. frames' \in [Listeners -> Seq(0..lastEventId')]
  <2> SUFFICES ASSUME NEW l \in Listeners
               PROVE  /\ frames[l] \in Seq(0..id) /\ << >> \in Seq(0..id)
                      /\ Append(frames[l], id) \in Seq(0..id)
    BY <1>1
  <2>1. 0..lastEventId \subseteq 0..id /\ id \in 0..id
    BY <1>2
  <2>2. frames[l] \in Seq(0..lastEventId)
    BY <1>2
  <2> HIDE DEF id
  <2>3. frames[l] \in Seq(0..id)
    BY <2>1, <2>2, Wider
  <2>4. QED
    BY <2>1, <2>3
<1>12. clients' = listening' /\ listening' \subseteq listening
  BY <1>1, <1>2
<1>13. ASSUME NEW l \in listening' PROVE V!StreamIsWhole(frames'[l], V!ReadHere(l)', V!Owed(l)')
  <2>1. l \in listening /\ l \in Listeners /\ V!StreamIsWhole(frames[l], V!ReadHere(l), V!Owed(l))
    BY <1>2, <1>12, <1>13 DEF V!IInv
  <2>2. V!ReadHere(l) \in SUBSET (0..lastEventId) /\ V!Owed(l) \in SUBSET (1..lastEventId)
    BY <2>1, LastRead, OwedIds
  <2>3. CASE l \in to
    <3>1. l \in target /\ ~V!Stalled(l)
      BY <1>1, <1>2, <1>13, <2>1, <2>3
    <3>2. frames'[l] = Append(frames[l], id)
      BY <1>1, <2>1, <3>1
    <3>3. V!Owed(l)' \subseteq V!Owed(l) \cup {id}
      BY <1>1, <1>3 DEF V!Owed
    <3>4. V!StreamIsWhole(Append(frames[l], id), V!ReadHere(l), V!Owed(l)')
      BY <1>2, <2>1, <2>2, <3>3, NewestIsLast
    <3>5. QED
      BY <1>10, <3>2, <3>4
  <2>4. CASE l \notin to
    <3>1. frames'[l] = frames[l]
      BY <1>1, <2>1, <2>4
    <3>2. V!Owed(l)' = V!Owed(l)
      BY <1>1, <1>3, <2>4 DEF V!Owed
    <3>3. QED
      BY <1>10, <2>1, <3>1, <3>2
  <2>5. QED
    BY <2>3, <2>4
<1>14. V!NoGapsNorRepeats'
  <2>1. SUFFICES ASSUME NEW m \in Listeners, NEW i \in 1..(Len(received[m]) - 1), NEW x \in log',
                        x.boot = received[m][i+1].boot, m \in x.to, x.id < received[m][i+1].id,
                        received[m][i].boot = received[m][i+1].boot => received[m][i].id < x.id
                 PROVE  [to |-> m, boot |-> x.boot, id |-> x.id] \in evicted \cup skipped
    BY <1>1 DEF V!IInv, V!NoGapsNorRepeats
  <2>2. CASE x \in log
    BY <2>1, <2>2 DEF V!IInv, V!NoGapsNorRepeats
  <2>3. CASE x = new
    <3>0. received[m] \in Seq([boot : 1..boot, id : 1..MaxEmitted])
      BY DEF V!IInv
    <3>1. i + 1 \in 1..Len(received[m]) /\ received[m][i+1].boot = boot
      <4>1. Len(received[m]) \in Nat
        BY <3>0
      <4>2. i + 1 \in 1..Len(received[m])
        BY <4>1
      <4>3. QED
        BY <1>3, <2>1, <2>3, <4>2
    <3>2. received[m][i+1] \in [boot : 1..boot, id : 1..MaxEmitted]
      BY <3>0, <3>1, EntryOf
    <3>3. received[m][i+1].id <= lastEventId /\ received[m][i+1].id \in Nat
      BY <3>1, <3>2 DEF V!IInv
    <3>4. QED
      BY <1>2, <1>3, <2>1, <2>3, <3>3
  <2>4. QED
    BY <1>1, <2>2, <2>3
<1>15. boot' \in Nat \ {0} /\ breaks' \in Nat /\ lastEventId' \in Nat /\ listening' \subseteq Listeners
  BY <1>1, <1>2, <1>12 DEF V!IInv
<1>16. QED
  BY <1>8, <1>9, <1>10, <1>11, <1>12, <1>13, <1>14, <1>15 DEF V!IInv

\* Events: every step keeps the invariant.
LEMMA EventsStep == V!Parameters /\ V!IInv /\ [V!Next]_V!vars => V!IInv'
<1> SUFFICES ASSUME V!Parameters, V!IInv, [V!Next]_V!vars PROVE V!IInv'
  OBVIOUS
<1>1. CASE UNCHANGED V!vars
  <2>1. /\ UNCHANGED <<lastEventId, replayBuffer, clients, listening, frames, lastSeen, received>>
        /\ UNCHANGED <<boot, log, evicted, skipped, breaks>>
    BY <1>1 DEF V!vars, V!hub
  <2>2. \A l : V!ReadHere(l)' = V!ReadHere(l) /\ V!Owed(l)' = V!Owed(l)
    BY <2>1 DEF V!ReadHere, V!Owed
  <2>3. V!LogIsWhole' /\ V!BufferIsOfLog' /\ V!NoGapsNorRepeats'
    BY <2>1 DEF V!IInv, V!LogIsWhole, V!Logged, V!BufferIsOfLog, V!NoGapsNorRepeats
  <2>4. \A l \in listening' : V!StreamIsWhole(frames'[l], V!ReadHere(l)', V!Owed(l)')
    BY <2>1, <2>2 DEF V!IInv
  <2>5. QED
    BY <2>1, <2>3, <2>4 DEF V!IInv
<1>2. CASE V!Next
  BY <1>2, AddClientKeeps, ReadKeeps, DisconnectKeeps, EmitKeeps, HubRestartKeeps DEF V!Next
<1>3. QED
  BY <1>1, <1>2

\* Events: the invariant gives what the runs check.
LEMMA EventsAreSafe == V!Parameters /\ V!IInv => V!TypeOK /\ V!NoGapsNorRepeats
<1> SUFFICES ASSUME V!Parameters, V!IInv PROVE V!TypeOK
  BY DEF V!IInv
<1>1. lastEventId \in 0..MaxEmitted /\ MaxEmitted \in Nat
  BY HubSets, FS_CardinalityType DEF V!IInv, V!LogIsWhole, V!Parameters
<1>2. replayBuffer \in Seq([id : V!Ids, to : SUBSET Users])
  <2> DEFINE Old == [id : 1..lastEventId, to : SUBSET Users]
             New == [id : V!Ids, to : SUBSET Users]
  <2>1. Old \subseteq New
    BY <1>1 DEF V!Ids
  <2>2. replayBuffer \in Seq(Old)
    BY DEF V!IInv, V!BufferIsOfLog
  <2> HIDE DEF Old
  <2>3. replayBuffer \in Seq(New)
    <3> HIDE DEF New
    <3> QED BY <2>1, <2>2
  <2>4. QED
    BY <2>3
<1>3. frames \in [Listeners -> Seq({V!Connected} \cup V!Ids)]
  <2>1. 0..lastEventId \subseteq {V!Connected} \cup V!Ids
    BY <1>1 DEF V!Ids, V!Connected
  <2>2. frames \in [Listeners -> Seq(0..lastEventId)]
    BY DEF V!IInv
  <2>3. \A l \in Listeners : frames[l] \in Seq({V!Connected} \cup V!Ids)
    <3> SUFFICES ASSUME NEW l \in Listeners PROVE frames[l] \in Seq({V!Connected} \cup V!Ids)
      OBVIOUS
    <3>1. frames[l] \in Seq(0..lastEventId)
      BY <2>2
    <3>2. QED
      BY <2>1, <3>1, Wider
  <2>4. QED
    BY <2>2, <2>3
<1>4. lastSeen \in [Listeners -> {0} \cup V!Ids]
  <2>1. \A l \in Listeners : received[l] # << >> => received[l][Len(received[l])].id \in V!Ids
    <3> SUFFICES ASSUME NEW l \in Listeners, received[l] # << >>
                 PROVE  received[l][Len(received[l])].id \in V!Ids
      OBVIOUS
    <3>1. received[l] \in Seq([boot : 1..boot, id : 1..MaxEmitted])
      BY DEF V!IInv
    <3>2. received[l][Len(received[l])] \in [boot : 1..boot, id : 1..MaxEmitted]
      BY <3>1, LastOf
    <3>3. QED
      BY <3>2 DEF V!Ids
  <2>2. lastSeen = [l \in Listeners |-> IF received[l] = << >> THEN 0
                                        ELSE received[l][Len(received[l])].id]
    BY DEF V!IInv
  <2>3. QED
    BY <2>1, <2>2
<1>5. QED
  BY <1>1, <1>2, <1>3, <1>4 DEF V!TypeOK, V!IInv, V!BufferIsOfLog

-----------------------------------------------------------------------------
(* The audit trail.                                                        *)

\* The instance's finite sets are those of the library.
LEMMA TrailSets ==
  \A S : (L!IsFiniteSet(S) <=> IsFiniteSet(S)) /\ L!Cardinality(S) = Cardinality(S)
BY DEF L!IsFiniteSet, L!Cardinality, IsFiniteSet, Cardinality

\* AuditLog: the empty table and the idle admins are sound.
LEMMA TrailInit == L!Parameters /\ L!Init => L!IInv
<1> SUFFICES ASSUME L!Parameters, L!Init PROVE L!IInv
  OBVIOUS
<1>1. /\ now = 0 /\ status = [x \in L!Targets |-> L!Open(x)] /\ audit = {} /\ recorded = [x \in Offered |-> 0]
      /\ admin = [a \in Admins |-> L!NoRequest] /\ reader = L!NotReading
  BY DEF L!Init
<1>2. \A x \in L!Targets : L!Open(x) \in {"Disputed", "open", "failed", "pending", "closed"}
  BY DEF L!Open
<1>3. L!NoRequest \in L!Request /\ L!NoRequest.at = "none"
  BY DEF L!NoRequest, L!Request
<1>4. L!NotReading \in [page : Nat, at : {"none", "asked", "listed"}, seen : SUBSET L!Rows,
                      existed : SUBSET L!Rows, skipped : SUBSET L!Rows]
  BY DEF L!NotReading
<1>5. L!Typed
  BY <1>1, <1>2, <1>3, <1>4, TrailSets, FS_EmptySet DEF L!Typed
<1>6. L!RequestsAreSound
  BY <1>1, <1>3 DEF L!RequestsAreSound
<1>7. L!TrailMatchesChanges
  BY <1>1 DEF L!TrailMatchesChanges, L!Open, L!Targets
<1>8. L!EntriesAreOfThePast /\ L!PagesAreSeen /\ L!NothingIsSkipped
  BY <1>1 DEF L!EntriesAreOfThePast, L!PagesAreSeen, L!NothingIsSkipped, L!NotReading
<1>9. QED
  BY <1>5, <1>6, <1>7, <1>8 DEF L!IInv

\* Which entries precede another, of a finite set, are finitely many, and it is not of them.
LEMMA PositionBounds ==
  ASSUME NEW S \in SUBSET L!Rows, IsFiniteSet(S), NEW e
  PROVE  L!Position(e, S) \in Nat /\ (e \in S => L!Position(e, S) < Cardinality(S))
<1> DEFINE P == {f \in S : L!Precedes(f, e)}
<1>1. P \subseteq S /\ IsFiniteSet(P) /\ Cardinality(P) \in Nat /\ Cardinality(S) \in Nat
  BY FS_Subset, FS_CardinalityType
<1>2. ASSUME e \in S PROVE Cardinality(P) < Cardinality(S)
  <2>1. e \notin P
    BY <1>2 DEF L!Precedes, L!Rows
  <2>2. P # S
    BY <1>2, <2>1
  <2>3. QED
    BY <1>1, <2>2, FS_Subset
<1>3. L!Position(e, S) = Cardinality(P)
  BY TrailSets DEF L!Position
<1>4. QED
  BY <1>1, <1>2, <1>3

\* What adds entries to those before e moves e on.
LEMMA PositionGrows ==
  ASSUME NEW S \in SUBSET L!Rows, NEW T \in SUBSET L!Rows, IsFiniteSet(S), IsFiniteSet(T), NEW e,
         \A f \in S : L!Precedes(f, e) => f \in T
  PROVE  L!Position(e, S) <= L!Position(e, T)
<1> DEFINE P == {f \in S : L!Precedes(f, e)}
           Q == {f \in T : L!Precedes(f, e)}
<1>1. P \subseteq Q /\ IsFiniteSet(Q)
  BY FS_Subset
<1>2. Cardinality(P) <= Cardinality(Q)
  BY <1>1, FS_Subset
<1>3. QED
  BY <1>2, TrailSets DEF L!Position

\* The reader's pages while it reads nothing: entries that stay do not move up.
LEMMA PagesStay ==
  ASSUME L!Parameters, L!IInv, audit' \subseteq L!Rows, IsFiniteSet(audit'), UNCHANGED reader,
         \A e \in audit \cap audit' : L!Position(e, audit) <= L!Position(e, audit'),
         \A e \in audit' : e \notin audit => e \notin reader.existed
  PROVE  L!PagesAreSeen'
<1> DEFINE read == (IF reader.at = "listed" THEN reader.page ELSE reader.page - 1) * Limit
<1>1. SUFFICES ASSUME reader.at # "none", NEW e \in reader.existed \cap audit',
                      L!Position(e, audit') < read
               PROVE  e \in reader.seen
  BY DEF L!IInv, L!PagesAreSeen
<1>2. e \in audit
  BY <1>1
<1>3. L!Position(e, audit) \in Nat /\ L!Position(e, audit') \in Nat
  BY PositionBounds, TrailSets DEF L!IInv, L!Typed
<1>4. read \in Int
  BY DEF L!IInv, L!Typed, L!Parameters
<1> HIDE DEF read
<1>5. L!Position(e, audit) < read
  BY <1>1, <1>2, <1>3, <1>4
<1>6. QED
  BY <1>1, <1>2, <1>5 DEF L!IInv, L!PagesAreSeen, read

\* A request of an admin, alone: of the others nothing changes.
LEMMA RequestMoves ==
  ASSUME L!IInv, NEW a \in Admins,
         NEW r \in L!Request,
         admin' = [admin EXCEPT ![a] = r], now' \in Nat, now <= now',
         status' = status,
         r.at \in {"begun", "locked"} => r.of \in Offered /\ r.began < now',
         r.at = "locked" => status[r.of] = "Disputed" /\ ~\E b \in Admins : L!HoldsRow(b, r.of),
         r.at \in {"found", "changed"} => r.of \in Flagged \cup Webhooks
  PROVE  /\ L!RequestsAreSound'
         /\ admin' \in [Admins -> L!Request]
<1>1. /\ admin'[a] = r /\ \A b \in Admins \ {a} : admin'[b] = admin[b]
      /\ admin' \in [Admins -> L!Request]
  BY DEF L!IInv, L!Typed
<1>2. ASSUME NEW b \in Admins
      PROVE  /\ admin'[b].at \in {"begun", "locked"} => admin'[b].of \in Offered /\ admin'[b].began < now'
             /\ admin'[b].at = "locked" => status'[admin'[b].of] = "Disputed"
             /\ admin'[b].at \in {"found", "changed"} => admin'[b].of \in Flagged \cup Webhooks
  <2>1. CASE b = a
    BY <1>1, <2>1
  <2>2. CASE b # a
    <3>1. admin[b].began \in Nat /\ now \in Nat
      BY DEF L!IInv, L!Typed, L!Request
    <3>2. QED
      BY <1>1, <2>2, <3>1 DEF L!IInv, L!RequestsAreSound
  <2>3. QED
    BY <2>1, <2>2
<1>3. ASSUME NEW b \in Admins, NEW c \in Admins, admin'[b].at = "locked", admin'[c].at = "locked",
             admin'[b].of = admin'[c].of
      PROVE  b = c
  BY <1>1, <1>3 DEF L!IInv, L!RequestsAreSound, L!HoldsRow
<1>4. QED
  BY <1>1, <1>2, <1>3 DEF L!RequestsAreSound

\* Neither the table nor the reader moves, and no dispute opens.
LEMMA TableStays ==
  ASSUME L!Parameters, L!IInv, UNCHANGED <<audit, reader>>, now' \in Nat, now <= now',
         \A x \in Offered : status'[x] = "Disputed" => status[x] = "Disputed"
  PROVE  L!EntriesAreOfThePast' /\ L!PagesAreSeen' /\ L!NothingIsSkipped'
<1>1. \A e \in audit \cup reader.existed : e.at \in Nat
  BY DEF L!IInv, L!Typed, L!Rows
<1>2. now \in Nat
  BY DEF L!IInv, L!Typed
<1>3. L!EntriesAreOfThePast'
  BY <1>1, <1>2 DEF L!IInv, L!EntriesAreOfThePast
<1>4. L!PagesAreSeen' /\ L!NothingIsSkipped'
  BY DEF L!IInv, L!PagesAreSeen, L!NothingIsSkipped, L!Position, L!Precedes
<1>5. QED
  BY <1>3, <1>4

\* An entry is written that there was not, about a change already made.
LEMMA EntryIsWritten ==
  ASSUME L!Parameters, L!IInv, NEW e \in L!Rows, audit' = audit \cup {e}, e \notin audit \cup reader.existed,
         UNCHANGED reader, now' \in Nat, now <= now', e.at < now',
         e.of \in Offered => status'[e.of] # "Disputed",
         \A x \in Offered : status'[x] = "Disputed" => status[x] = "Disputed"
  PROVE  /\ audit' \subseteq L!Rows /\ IsFiniteSet(audit')
         /\ L!EntriesAreOfThePast' /\ L!PagesAreSeen' /\ L!NothingIsSkipped'
<1>1. audit \subseteq L!Rows /\ IsFiniteSet(audit) /\ now \in Nat
  BY TrailSets DEF L!IInv, L!Typed
<1>2. audit' \subseteq L!Rows /\ IsFiniteSet(audit')
  BY <1>1, TrailSets, FS_AddElement
<1>3. \A f \in audit \cup reader.existed : f.at \in Nat
  BY DEF L!IInv, L!Typed, L!Rows
<1>4. L!EntriesAreOfThePast'
  BY <1>1, <1>3 DEF L!IInv, L!EntriesAreOfThePast
<1>5. ASSUME NEW f \in audit \cap audit' PROVE L!Position(f, audit) <= L!Position(f, audit')
  BY <1>1, <1>2, TrailSets, PositionGrows
<1>6. L!PagesAreSeen'
  BY <1>2, <1>5, TrailSets, PagesStay
<1>7. L!NothingIsSkipped'
  BY DEF L!IInv, L!NothingIsSkipped
<1>8. QED
  BY <1>2, <1>4, <1>6, <1>7

\* A request begins a transaction: it has read nothing and changed nothing.
LEMMA BeginKeeps ==
  ASSUME L!Parameters, L!IInv, NEW a \in Admins, NEW x \in L!Targets, L!Begin(a, x)
  PROVE  L!IInv'
<1> DEFINE r == [at |-> "begun", of |-> x, began |-> now]
<1>1. /\ x \in Offered /\ now' = now + 1 /\ admin' = [admin EXCEPT ![a] = r]
      /\ UNCHANGED <<status, audit, recorded, reader>>
  BY DEF L!Begin, L!Stamp
<1>2. now \in Nat /\ now' \in Nat /\ now < now'
  BY <1>1 DEF L!IInv, L!Typed
<1>3. /\ r \in L!Request
      /\ r.at = "begun" /\ r.of = x /\ r.began = now
  BY <1>2 DEF L!Request
<1> HIDE DEF r
<1>0. now <= now'
  BY <1>2, <1>3
<1>4. L!RequestsAreSound' /\ admin' \in [Admins -> L!Request]
  BY <1>0, <1>1, <1>2, <1>3, RequestMoves
<1>5. L!EntriesAreOfThePast' /\ L!PagesAreSeen' /\ L!NothingIsSkipped'
  BY <1>1, <1>2, TableStays
<1>6. QED
  BY <1>1, <1>2, <1>4, <1>5 DEF L!IInv, L!Typed, L!TrailMatchesChanges

\* A resolution reads the trade's row, which it alone may hold: what it read is the row's status.
LEMMA LockRowKeeps ==
  ASSUME L!Parameters, L!IInv, NEW a \in Admins, L!LockRow(a)
  PROVE  L!IInv'
<1>1. /\ admin[a].at = "begun" /\ ~\E b \in Admins : L!HoldsRow(b, admin[a].of)
      /\ UNCHANGED <<now, status, audit, recorded, reader>>
      /\ admin' = IF status[admin[a].of] = "Disputed"
                  THEN [admin EXCEPT ![a].at = "locked"]
                  ELSE [admin EXCEPT ![a] = L!NoRequest]
  BY DEF L!LockRow
<1>2. PICK r \in L!Request :
        /\ admin' = [admin EXCEPT ![a] = r]
        /\ r.at \in {"begun", "locked"} => r.of \in Offered /\ r.began < now
        /\ r.at = "locked" => status[r.of] = "Disputed" /\ ~\E b \in Admins : L!HoldsRow(b, r.of)
        /\ r.at \notin {"found", "changed"}
  <2>0. /\ admin[a] \in L!Request
        /\ admin[a].of \in Offered /\ admin[a].began < now
    BY <1>1 DEF L!IInv, L!Typed, L!RequestsAreSound
  <2>1. CASE status[admin[a].of] = "Disputed"
    <3> DEFINE r == [admin[a] EXCEPT !.at = "locked"]
    <3>1. r \in L!Request
      BY <2>0 DEF L!Request
    <3>2. r.at = "locked" /\ r.of = admin[a].of /\ r.began = admin[a].began
      BY <2>0 DEF L!Request
    <3>3. admin' = [admin EXCEPT ![a] = r]
      BY <1>1, <2>1
    <3> HIDE DEF r
    <3>4. QED
      BY <1>1, <2>0, <2>1, <3>1, <3>2, <3>3
  <2>2. CASE status[admin[a].of] # "Disputed"
    <3>1. L!NoRequest \in L!Request /\ L!NoRequest.at = "none"
      BY DEF L!NoRequest, L!Request
    <3>2. QED
      BY <1>1, <2>2, <3>1
  <2>3. QED
    BY <2>1, <2>2
<1>3. now \in Nat /\ now' = now
  BY <1>1 DEF L!IInv, L!Typed
<1>0. now <= now'
  BY <1>2, <1>3
<1>4. L!RequestsAreSound' /\ admin' \in [Admins -> L!Request]
  BY <1>0, <1>1, <1>2, <1>3, RequestMoves
<1>5. L!EntriesAreOfThePast' /\ L!PagesAreSeen' /\ L!NothingIsSkipped'
  BY <1>1, <1>3, TableStays
<1>6. QED
  BY <1>1, <1>4, <1>5 DEF L!IInv, L!Typed, L!TrailMatchesChanges

\* A resolution commits: its entry and its change are in the tables together.
LEMMA ResolutionCommits ==
  ASSUME L!Parameters, L!IInv, NEW a \in Admins, L!Commit(a)
  PROVE  L!IInv'
<1> DEFINE x == admin[a].of
           e == [at |-> admin[a].began, of |-> x]
<1>1. /\ admin[a].at = "locked" /\ admin' = [admin EXCEPT ![a] = L!NoRequest]
      /\ status' = [status EXCEPT ![x] = L!Closed(x)] /\ audit' = audit \cup {e}
      /\ recorded' = [y \in Offered |-> recorded[y] + (IF y = x THEN 1 ELSE 0)]
      /\ UNCHANGED <<now, reader>>
  BY DEF L!Commit, L!Record
<1>2. /\ x \in Offered /\ x \in L!Targets /\ admin[a].began < now /\ admin[a].began \in Nat
      /\ status[x] = "Disputed" /\ now \in Nat
  BY <1>1 DEF L!IInv, L!Typed, L!RequestsAreSound, L!Targets, L!Request
<1>3. L!Closed(x) = "closed"
  BY <1>2 DEF L!Closed, L!Parameters
<1>4. status'[x] = "closed" /\ \A y \in L!Targets \ {x} : status'[y] = status[y]
  BY <1>1, <1>2, <1>3 DEF L!IInv, L!Typed
<1>5. status' \in [L!Targets -> {"Disputed", "open", "failed", "pending", "closed"}]
  BY <1>1, <1>2, <1>3 DEF L!IInv, L!Typed
<1>6. e \in L!Rows /\ e.at = admin[a].began /\ e.of = x
  BY <1>2 DEF L!Rows
<1> HIDE DEF e
<1>7. e \notin audit \cup reader.existed
  BY <1>2, <1>6 DEF L!IInv, L!EntriesAreOfThePast
<1>8. /\ audit' \subseteq L!Rows /\ IsFiniteSet(audit')
      /\ L!EntriesAreOfThePast' /\ L!PagesAreSeen' /\ L!NothingIsSkipped'
  <2>1. \A y \in Offered : status'[y] = "Disputed" => status[y] = "Disputed"
    BY <1>2, <1>4 DEF L!Targets
  <2>2. QED
    <3>1. now' \in Nat /\ now <= now' /\ e.at < now' /\ UNCHANGED reader
      BY <1>1, <1>2, <1>6
    <3>2. e.of \in Offered => status'[e.of] # "Disputed"
      BY <1>4, <1>6
    <3>3. QED
      BY <1>1, <1>6, <1>7, <2>1, <3>1, <3>2, EntryIsWritten
<1>9. /\ admin'[a].at = "none" /\ \A b \in Admins \ {a} : admin'[b] = admin[b]
      /\ admin' \in [Admins -> L!Request]
  BY <1>1 DEF L!IInv, L!Typed, L!NoRequest, L!Request
<1>10. L!RequestsAreSound'
  <2>1. ASSUME NEW b \in Admins, admin'[b].at = "locked" PROVE status'[admin'[b].of] = "Disputed"
    <3>1. b # a /\ admin[b].at = "locked"
      BY <1>9, <2>1
    <3>2. admin[b].of # x /\ admin[b].of \in L!Targets /\ status[admin[b].of] = "Disputed"
      BY <1>1, <3>1 DEF L!IInv, L!RequestsAreSound, L!Targets
    <3>3. QED
      BY <1>4, <1>9, <3>1, <3>2
  <2>2. QED
    BY <1>1, <1>9, <2>1 DEF L!IInv, L!RequestsAreSound
<1>11. recorded' \in [Offered -> Nat] /\ L!TrailMatchesChanges'
  <2>1. recorded \in [Offered -> Nat] /\ recorded[x] = 0
    BY <1>2 DEF L!IInv, L!Typed, L!TrailMatchesChanges
  <2>2. ASSUME NEW y \in Offered
        PROVE  recorded'[y] = (IF status'[y] = "Disputed" THEN 0 ELSE 1)
    <3>1. CASE y = x
      BY <1>1, <1>4, <2>1, <3>1
    <3>2. CASE y # x
      BY <1>1, <1>4, <2>1, <3>2 DEF L!IInv, L!TrailMatchesChanges, L!Targets
    <3>3. QED
      BY <3>1, <3>2
  <2>3. QED
    BY <1>1, <2>1, <2>2 DEF L!TrailMatchesChanges
<1>12. QED
  BY <1>1, <1>5, <1>8, <1>9, <1>10, <1>11, TrailSets DEF L!IInv, L!Typed

\* A resolution that fails leaves neither the change nor the entry.
LEMMA ResolutionEnds ==
  ASSUME L!Parameters, L!IInv, NEW a \in Admins, L!Rollback(a)
  PROVE  L!IInv'
<1>1. admin' = [admin EXCEPT ![a] = L!NoRequest] /\ UNCHANGED <<now, status, audit, recorded, reader>>
  BY DEF L!Rollback
<1>2. L!NoRequest \in L!Request /\ L!NoRequest.at = "none"
  BY DEF L!NoRequest, L!Request
<1>3. now \in Nat /\ now' = now
  BY <1>1 DEF L!IInv, L!Typed
<1>0. now <= now'
  BY <1>2, <1>3
<1>4. L!RequestsAreSound' /\ admin' \in [Admins -> L!Request]
  BY <1>0, <1>1, <1>2, <1>3, RequestMoves
<1>5. L!EntriesAreOfThePast' /\ L!PagesAreSeen' /\ L!NothingIsSkipped'
  BY <1>1, <1>3, TableStays
<1>6. QED
  BY <1>1, <1>4, <1>5 DEF L!IInv, L!Typed, L!TrailMatchesChanges

\* A flag's or a webhook's status is no trade's.
LEMMA OthersStatus ==
  ASSUME L!Parameters, L!IInv, NEW x \in Flagged \cup Webhooks,
         NEW s \in {"Disputed", "open", "failed", "pending", "closed"},
         status' = [status EXCEPT ![x] = s]
  PROVE  /\ status' \in [L!Targets -> {"Disputed", "open", "failed", "pending", "closed"}]
         /\ \A y \in Offered : status'[y] = status[y]
<1>1. x \notin Offered /\ x \in L!Targets /\ Offered \subseteq L!Targets
  BY DEF L!Parameters, L!Targets
<1>2. QED
  BY <1>1 DEF L!IInv, L!Typed

\* A request that changes such a status, or none.
LEMMA ChangeKeeps ==
  ASSUME L!Parameters, L!IInv, NEW a \in Admins, NEW x \in Flagged \cup Webhooks,
         NEW s \in {"Disputed", "open", "failed", "pending", "closed"},
         status' = [status EXCEPT ![x] = s] \/ status' = status,
         NEW r \in [at : {"none", "found", "changed"}, of : Flagged \cup Webhooks, began : Nat],
         admin' = [admin EXCEPT ![a] = r] \/ admin' = admin,
         UNCHANGED <<now, audit, recorded, reader>>
  PROVE  L!IInv'
<1>1. /\ status' \in [L!Targets -> {"Disputed", "open", "failed", "pending", "closed"}]
      /\ \A y \in Offered : status'[y] = status[y]
  BY OthersStatus DEF L!IInv, L!Typed
<1>2. now \in Nat /\ now' = now
  BY DEF L!IInv, L!Typed
<1>3. L!EntriesAreOfThePast' /\ L!PagesAreSeen' /\ L!NothingIsSkipped'
  BY <1>1, <1>2, TableStays
<1>4. /\ admin' \in [Admins -> L!Request]
      /\ \A b \in Admins : admin'[b] = admin[b] \/ admin'[b] = r
  <2>1. r \in L!Request
    BY DEF L!Request, L!Targets
  <2>2. QED
    BY <2>1 DEF L!IInv, L!Typed
<1>5. L!RequestsAreSound'
  <2>0. r.at \in {"none", "found", "changed"} /\ r.of \in Flagged \cup Webhooks
    OBVIOUS
  <2>1. \A b \in Admins : admin'[b].at \in {"begun", "locked"} => admin'[b] = admin[b]
    BY <1>4, <2>0
  <2>2. QED
    BY <1>1, <1>2, <1>4, <2>0, <2>1 DEF L!IInv, L!RequestsAreSound
<1>6. L!TrailMatchesChanges'
  BY <1>1 DEF L!IInv, L!TrailMatchesChanges
<1>7. QED
  BY <1>1, <1>2, <1>3, <1>4, <1>5, <1>6 DEF L!IInv, L!Typed

\* A step of one admin leaves the other admins' requests sound, for the rows they hold stay.
LEMMA OtherRequestsKeep ==
  ASSUME L!Parameters, L!IInv, NEW a \in Admins, NEW x \in L!Targets,
         L!Review(a, x) \/ L!FindFailed(a, x) \/ L!Replay(a)
  PROVE  L!IInv'
<1>1. CASE L!Review(a, x)
  <2>1. L!Closed(x) \in {"Disputed", "open", "failed", "pending", "closed"}
    BY DEF L!Closed
  <2> DEFINE r == [at |-> "changed", of |-> x, began |-> 0]
  <2>2. r \in [at : {"none", "found", "changed"}, of : Flagged \cup Webhooks, began : Nat]
    BY <1>1 DEF L!Review
  <2>3. admin' = [admin EXCEPT ![a] = r] /\ status' = [status EXCEPT ![x] = L!Closed(x)] /\ x \in Flagged
        /\ UNCHANGED <<now, audit, recorded, reader>>
    BY <1>1 DEF L!Review
  <2> HIDE DEF r
  <2>4. QED
    BY <2>1, <2>2, <2>3, ChangeKeeps
<1>2. CASE L!FindFailed(a, x)
  <2> DEFINE r == [at |-> "found", of |-> x, began |-> 0]
  <2>2. r \in [at : {"none", "found", "changed"}, of : Flagged \cup Webhooks, began : Nat]
    BY <1>2 DEF L!FindFailed
  <2>3. admin' = [admin EXCEPT ![a] = r] /\ status' = status /\ x \in Webhooks
        /\ UNCHANGED <<now, audit, recorded, reader>>
    BY <1>2 DEF L!FindFailed
  <2> HIDE DEF r
  <2>4. QED
    BY <2>2, <2>3, ChangeKeeps
<1>3. CASE L!Replay(a)
  <2> DEFINE r == [admin[a] EXCEPT !.at = "changed"]
             y == admin[a].of
  <2>1. /\ admin[a].at = "found" /\ status' = [status EXCEPT ![y] = "pending"]
        /\ admin' = [admin EXCEPT ![a].at = "changed"]
        /\ UNCHANGED <<now, audit, recorded, reader>>
    BY <1>3 DEF L!Replay
  <2>2. /\ admin[a] \in L!Request
        /\ y \in Flagged \cup Webhooks
    BY <2>1 DEF L!IInv, L!Typed, L!RequestsAreSound
  <2>3. r \in [at : {"none", "found", "changed"}, of : Flagged \cup Webhooks, began : Nat]
    BY <2>2 DEF L!Request
  <2>4. admin' = [admin EXCEPT ![a] = r]
    BY <2>1
  <2> HIDE DEF r, y
  <2>5. QED
    BY <2>1, <2>2, <2>3, <2>4, ChangeKeeps
<1>4. QED
  BY <1>1, <1>2, <1>3

\* A change that fails is not recorded.
LEMMA ReplayFails ==
  ASSUME L!Parameters, L!IInv, NEW x \in Webhooks, L!Fail(x)
  PROVE  L!IInv'
<1>1. status' = [status EXCEPT ![x] = "failed"] /\ UNCHANGED <<now, audit, recorded, admin, reader>>
  BY DEF L!Fail
<1>2. /\ status' \in [L!Targets -> {"Disputed", "open", "failed", "pending", "closed"}]
      /\ \A y \in Offered : status'[y] = status[y]
  BY <1>1, OthersStatus
<1>3. now \in Nat /\ now' = now
  BY <1>1 DEF L!IInv, L!Typed
<1>4. L!EntriesAreOfThePast' /\ L!PagesAreSeen' /\ L!NothingIsSkipped'
  BY <1>1, <1>2, <1>3, TableStays
<1>5. L!RequestsAreSound' /\ L!TrailMatchesChanges'
  BY <1>1, <1>2 DEF L!IInv, L!RequestsAreSound, L!TrailMatchesChanges
<1>6. QED
  BY <1>1, <1>2, <1>4, <1>5 DEF L!IInv, L!Typed

\* A replay or a review is recorded after its change: it is the change the entry is for.
LEMMA RecordAfterKeeps ==
  ASSUME L!Parameters, L!IInv, NEW a \in Admins, L!RecordAfter(a)
  PROVE  L!IInv'
<1> DEFINE x == admin[a].of
           e == [at |-> now, of |-> x]
<1>1. /\ admin[a].at = "changed" /\ admin' = [admin EXCEPT ![a] = L!NoRequest]
      /\ UNCHANGED <<status, reader>>
      /\ \/ /\ now' = now + 1 /\ audit' = audit \cup {e}
            /\ recorded' = [y \in Offered |-> recorded[y] + (IF y = x THEN 1 ELSE 0)]
         \/ UNCHANGED <<now, audit, recorded>>
  BY DEF L!RecordAfter, L!Record, L!Stamp
<1>2. x \in Flagged \cup Webhooks /\ x \in L!Targets /\ x \notin Offered /\ now \in Nat
  BY <1>1 DEF L!IInv, L!Typed, L!RequestsAreSound, L!Targets, L!Parameters
<1>3. recorded' = recorded /\ now' \in Nat /\ now <= now'
  BY <1>1, <1>2 DEF L!IInv, L!Typed
<1>4. e \in L!Rows /\ e.at = now /\ e.of = x
  BY <1>2 DEF L!Rows
<1> HIDE DEF e
<1>5. /\ audit' \subseteq L!Rows /\ IsFiniteSet(audit')
      /\ L!EntriesAreOfThePast' /\ L!PagesAreSeen' /\ L!NothingIsSkipped'
  <2>1. CASE UNCHANGED <<now, audit, recorded>>
    BY <1>1, <1>3, <2>1, TableStays, TrailSets DEF L!IInv, L!Typed
  <2>2. CASE now' = now + 1 /\ audit' = audit \cup {e}
    <3>1. e \notin audit \cup reader.existed
      BY <1>2, <1>4 DEF L!IInv, L!EntriesAreOfThePast
    <3>2. e.at < now'
      BY <1>2, <1>4, <2>2
    <3>3. QED
      BY <1>1, <1>2, <1>3, <1>4, <2>2, <3>1, <3>2, EntryIsWritten
  <2>3. QED
    BY <1>1, <2>1, <2>2
<1>6. L!NoRequest \in L!Request /\ L!NoRequest.at = "none"
  BY DEF L!NoRequest, L!Request
<1>7. /\ L!RequestsAreSound'
      /\ admin' \in [Admins -> L!Request]
  BY <1>1, <1>3, <1>6, RequestMoves
<1>8. QED
  BY <1>1, <1>3, <1>5, <1>7, TrailSets DEF L!IInv, L!Typed, L!TrailMatchesChanges

\* A batch is of the oldest: what it leaves is not before anything in it.
LEMMA BatchIsLast ==
  ASSUME L!Parameters, L!IInv, NEW e \in audit, e \notin L!Batch, NEW f \in L!Batch
  PROVE  ~L!Precedes(f, e)
<1>1. SUFFICES ASSUME f.at > e.at PROVE FALSE
  BY DEF L!Precedes
<1>2. /\ audit \subseteq L!Rows /\ IsFiniteSet(audit) /\ now \in Nat /\ AuditWindow \in Nat /\ BatchSize \in Nat
  BY TrailSets DEF L!IInv, L!Typed, L!Parameters
<1>3. f \in L!Expired /\ f \in audit /\ f.at \in Nat /\ e.at \in Nat
  BY <1>2 DEF L!Batch, L!Expired, L!Rows
<1>4. e \in L!Expired
  BY <1>1, <1>2, <1>3 DEF L!Expired
<1> DEFINE P == {g \in L!Expired : g.at < e.at}
           Q == {g \in L!Expired : g.at < f.at}
<1>5. \A g \in L!Expired : g.at \in Nat
  BY <1>2 DEF L!Expired, L!Rows
<1>6. P \subseteq Q
  BY <1>1, <1>3, <1>5
<1>7. IsFiniteSet(L!Expired) /\ IsFiniteSet(Q) /\ IsFiniteSet(P)
  <2>1. IsFiniteSet(L!Expired)
    BY <1>2, TrailSets, FS_Subset DEF L!Expired
  <2>2. QED
    BY <2>1, FS_Subset
<1>8. Cardinality(P) <= Cardinality(Q) /\ Cardinality(P) \in Nat /\ Cardinality(Q) \in Nat
  BY <1>6, <1>7, FS_Subset, FS_CardinalityType
<1>9. Cardinality(Q) < BatchSize
  BY <1>3, TrailSets DEF L!Batch
<1>10. ~(Cardinality(P) < BatchSize)
  BY <1>4, TrailSets DEF L!Batch
<1>11. QED
  BY <1>2, <1>8, <1>9, <1>10

\* The purge takes the oldest entries, and those alone.
LEMMA PurgeKeeps ==
  ASSUME L!Parameters, L!IInv, L!Purge
  PROVE  L!IInv'
<1>1. audit' = audit \ L!Batch /\ UNCHANGED <<now, status, recorded, admin, reader>>
  BY DEF L!Purge
<1>2. audit \subseteq L!Rows /\ IsFiniteSet(audit) /\ audit' \subseteq L!Rows /\ IsFiniteSet(audit')
  BY <1>1, TrailSets, FS_Subset DEF L!IInv, L!Typed
<1>3. ASSUME NEW e \in audit \cap audit' PROVE L!Position(e, audit) <= L!Position(e, audit')
  <2>1. \A f \in audit : L!Precedes(f, e) => f \in audit'
    BY <1>1, BatchIsLast
  <2>2. QED
    BY <1>2, <2>1, TrailSets, PositionGrows
<1>4. L!PagesAreSeen'
  BY <1>1, <1>2, <1>3, TrailSets, PagesStay
<1>5. L!EntriesAreOfThePast' /\ L!NothingIsSkipped' /\ L!RequestsAreSound' /\ L!TrailMatchesChanges'
  BY <1>1 DEF L!IInv, L!EntriesAreOfThePast, L!NothingIsSkipped, L!RequestsAreSound, L!TrailMatchesChanges
<1>6. QED
  BY <1>1, <1>2, <1>4, <1>5, TrailSets DEF L!IInv, L!Typed

\* A page read in the order of time and of id continues where the last one ended.
LEMMA ReaderKeeps ==
  ASSUME L!Parameters, L!IInv, L!Ask \/ L!ListEntries \/ L!CountEntries
  PROVE  L!IInv'
<1>1. UNCHANGED <<now, status, audit, recorded, admin>>
  BY DEF L!Ask, L!ListEntries, L!CountEntries
<1>2. /\ audit \subseteq L!Rows /\ IsFiniteSet(audit) /\ Limit \in Nat /\ Limit > 0
      /\ reader \in [page : Nat, at : {"none", "asked", "listed"}, seen : SUBSET L!Rows,
                     existed : SUBSET L!Rows, skipped : SUBSET L!Rows]
  BY TrailSets DEF L!IInv, L!Typed, L!Parameters
<1>3. L!RequestsAreSound' /\ L!TrailMatchesChanges'
  BY <1>1 DEF L!IInv, L!RequestsAreSound, L!TrailMatchesChanges
<1>4. \A e : L!Position(e, audit) \in Nat /\ (e \in audit => L!Position(e, audit) < Cardinality(audit))
  BY <1>2, TrailSets, PositionBounds
<1>5. Cardinality(audit) \in Nat
  BY <1>2, TrailSets, FS_CardinalityType
<1> SUFFICES /\ reader' \in [page : Nat, at : {"none", "asked", "listed"}, seen : SUBSET L!Rows,
                             existed : SUBSET L!Rows, skipped : SUBSET L!Rows]
             /\ L!EntriesAreOfThePast' /\ L!PagesAreSeen' /\ L!NothingIsSkipped'
  BY <1>1, <1>3 DEF L!IInv, L!Typed
<1>6. CASE L!Ask
  <2>1. reader' = [page |-> 1, at |-> "asked", seen |-> {}, existed |-> audit, skipped |-> {}]
    BY <1>6 DEF L!Ask
  <2>2. L!EntriesAreOfThePast' /\ L!NothingIsSkipped'
    BY <1>1, <2>1 DEF L!IInv, L!EntriesAreOfThePast, L!NothingIsSkipped
  <2>3. L!PagesAreSeen'
    <3>1. (1 - 1) * Limit = 0 /\ \A e : ~(L!Position(e, audit) < 0)
      BY <1>2, <1>4
    <3>2. QED
      BY <1>1, <2>1, <3>1 DEF L!PagesAreSeen
  <2>4. QED
    BY <1>2, <2>1, <2>2, <2>3
<1>7. CASE L!ListEntries
  <2>1. reader.at = "asked" /\ reader' = [reader EXCEPT !.at = "listed", !.seen = @ \cup L!OnPage(reader.page)]
    BY <1>7 DEF L!ListEntries
  <2>2. L!OnPage(reader.page) \subseteq audit
    BY DEF L!OnPage
  <2>3. /\ reader'.at = "listed" /\ reader'.page = reader.page /\ reader'.existed = reader.existed
        /\ reader'.skipped = reader.skipped /\ reader'.seen = reader.seen \cup L!OnPage(reader.page)
        /\ reader' \in [page : Nat, at : {"none", "asked", "listed"}, seen : SUBSET L!Rows,
                        existed : SUBSET L!Rows, skipped : SUBSET L!Rows]
    BY <1>2, <2>1, <2>2
  <2>4. L!EntriesAreOfThePast' /\ L!NothingIsSkipped'
    BY <1>1, <2>3 DEF L!IInv, L!EntriesAreOfThePast, L!NothingIsSkipped
  <2>5. ASSUME NEW e \in reader.existed \cap audit, L!Position(e, audit) < reader.page * Limit
        PROVE  e \in reader.seen \cup L!OnPage(reader.page)
    <3>1. CASE L!Position(e, audit) < (reader.page - 1) * Limit
      BY <2>1, <3>1 DEF L!IInv, L!PagesAreSeen
    <3>2. CASE ~(L!Position(e, audit) < (reader.page - 1) * Limit)
      <4>1. (reader.page - 1) * Limit \in Int /\ L!Position(e, audit) \in Nat
        BY <1>2, <1>4
      <4>2. (reader.page - 1) * Limit <= L!Position(e, audit)
        BY <3>2, <4>1
      <4>3. e \in L!OnPage(reader.page)
        BY <2>5, <4>2, TrailSets DEF L!OnPage, L!Position
      <4>4. QED
        BY <4>3
    <3>3. QED
      BY <3>1, <3>2
  <2>6. reader.page > 0
    BY <2>1 DEF L!IInv, L!PagesAreSeen
  <2>7. L!PagesAreSeen'
    BY <1>1, <2>3, <2>5, <2>6 DEF L!PagesAreSeen
  <2>8. QED
    BY <2>3, <2>4, <2>7
<1>8. CASE L!CountEntries
  <2>1. reader.at = "listed" /\ reader.page > 0
        /\ \A e \in reader.existed \cap audit : L!Position(e, audit) < reader.page * Limit => e \in reader.seen
    BY <1>8 DEF L!CountEntries, L!IInv, L!PagesAreSeen
  <2>2. CASE reader.page * Limit < Cardinality(audit)
    <3>1. reader' = [reader EXCEPT !.page = @ + 1, !.at = "asked"]
      BY <1>8, <2>2, TrailSets DEF L!CountEntries
    <3>2. /\ reader'.at = "asked" /\ reader'.page = reader.page + 1 /\ reader'.existed = reader.existed
          /\ reader'.skipped = reader.skipped /\ reader'.seen = reader.seen
          /\ reader' \in [page : Nat, at : {"none", "asked", "listed"}, seen : SUBSET L!Rows,
                          existed : SUBSET L!Rows, skipped : SUBSET L!Rows]
      <4>1. reader.page + 1 \in Nat
        BY <1>2
      <4>2. QED
        BY <1>2, <3>1, <4>1
    <3>3. L!EntriesAreOfThePast' /\ L!NothingIsSkipped'
      BY <1>1, <3>2 DEF L!IInv, L!EntriesAreOfThePast, L!NothingIsSkipped
    <3>4. reader'.page - 1 = reader.page /\ reader'.page > 0
      BY <1>2, <3>2
    <3>5. L!PagesAreSeen'
      BY <1>1, <2>1, <3>2, <3>4 DEF L!PagesAreSeen
    <3>6. QED
      BY <3>2, <3>3, <3>5
  <2>3. CASE ~(reader.page * Limit < Cardinality(audit))
    <3>1. reader' = [L!NotReading EXCEPT !.skipped = (reader.existed \cap audit) \ reader.seen]
      BY <1>8, <2>3, TrailSets DEF L!CountEntries
    <3>2. ASSUME NEW e \in reader.existed \cap audit PROVE e \in reader.seen
      <4>1. reader.page * Limit \in Nat
        BY <1>2
      <4>2. L!Position(e, audit) < reader.page * Limit
        BY <1>4, <1>5, <2>3, <4>1
      <4>3. QED
        BY <2>1, <4>2
    <3>3. (reader.existed \cap audit) \ reader.seen = {}
      BY <3>2
    <3>4. /\ reader'.at = "none" /\ reader'.existed = {} /\ reader'.skipped = {}
          /\ reader' \in [page : Nat, at : {"none", "asked", "listed"}, seen : SUBSET L!Rows,
                          existed : SUBSET L!Rows, skipped : SUBSET L!Rows]
      BY <3>1, <3>3 DEF L!NotReading
    <3>5. QED
      BY <1>1, <3>4 DEF L!IInv, L!EntriesAreOfThePast, L!PagesAreSeen, L!NothingIsSkipped
  <2>4. QED
    BY <2>2, <2>3
<1>9. QED
  BY <1>6, <1>7, <1>8

\* AuditLog: its invariant is inductive.
LEMMA TrailStep == L!Parameters /\ L!IInv /\ [L!Next]_L!vars => L!IInv'
<1> SUFFICES ASSUME L!Parameters, L!IInv, [L!Next]_L!vars PROVE L!IInv'
  OBVIOUS
<1>1. CASE UNCHANGED L!vars \/ L!Tick
  <2>1. UNCHANGED <<status, audit, recorded, admin, reader>> /\ now' \in Nat /\ now <= now'
    BY <1>1 DEF L!vars, L!Tick, L!Stamp, L!IInv, L!Typed
  <2>2. L!EntriesAreOfThePast' /\ L!PagesAreSeen' /\ L!NothingIsSkipped'
    BY <2>1, TableStays
  <2>3. \A a \in Admins : admin[a].began \in Nat /\ now \in Nat
    BY DEF L!IInv, L!Typed, L!Request
  <2>4. L!RequestsAreSound' /\ L!TrailMatchesChanges'
    BY <2>1, <2>3 DEF L!IInv, L!RequestsAreSound, L!TrailMatchesChanges
  <2>5. QED
    BY <2>1, <2>2, <2>4 DEF L!IInv, L!Typed
<1>2. CASE \E a \in Admins : L!LockRow(a) \/ L!Commit(a) \/ L!Rollback(a) \/ L!RecordAfter(a)
  BY <1>2, LockRowKeeps, ResolutionCommits, ResolutionEnds, RecordAfterKeeps
<1>3. CASE \E a \in Admins : L!Replay(a)
  <2>1. PICK a \in Admins : L!Replay(a)
    BY <1>3
  <2>2. admin[a].of \in L!Targets
    BY <2>1 DEF L!Replay, L!IInv, L!RequestsAreSound, L!Targets
  <2>3. QED
    BY <2>1, <2>2, OtherRequestsKeep
<1>4. CASE \E a \in Admins : \E x \in L!Targets : L!Begin(a, x) \/ L!Review(a, x) \/ L!FindFailed(a, x)
  BY <1>4, BeginKeeps, OtherRequestsKeep
<1>5. CASE \E x \in Webhooks : L!Fail(x)
  BY <1>5, ReplayFails
<1>6. CASE L!Purge \/ L!Ask \/ L!ListEntries \/ L!CountEntries
  BY <1>6, PurgeKeeps, ReaderKeeps
<1>7. QED
  BY <1>1, <1>2, <1>3, <1>4, <1>5, <1>6 DEF L!Next

\* AuditLog: its invariant implies that the trail matches the changes, and that no entry is skipped.
LEMMA TrailIsSafe == L!IInv => L!TrailMatchesChanges /\ L!NothingIsSkipped
BY DEF L!IInv

-----------------------------------------------------------------------------
(* The services: each behaviour is one component's.                        *)

everything == <<focus, now, faults, jobs, data, events, fraud, orders, chain, trail, books, charts,
                tables>>

\* fraudDetection.ts: with Redis or without it, and however the processes interleave, a flagged
\* account has that many failures within one window.
THEOREM FlagsAreAlwaysEarned == Spec => []FlagsAreEarned
<1> DEFINE Sound == focus = "fraud" => F!IInv
<1>1. Init => Sound
  BY InstancesAssumption, FraudInit DEF Init, InstancesAssumption
<1>2. Sound /\ [Next]_everything => Sound'
  <2>1. SUFFICES ASSUME Sound, [Next]_everything, focus' = "fraud" PROVE F!IInv'
    OBVIOUS
  <2>2. focus = "fraud" /\ F!IInv
    BY <2>1 DEF Next, everything
  <2>3. [F!Next]_(F!vars)
    <3>1. CASE UNCHANGED everything
      BY <3>1 DEF everything, fraud, F!vars
    <3>2. CASE Next
      BY <2>2, <3>2 DEF Next, Services, Reports
    <3>3. QED
      BY <2>1, <3>1, <3>2
  <2>4. QED
    BY <2>2, <2>3, InstancesAssumption, FraudStep DEF InstancesAssumption
<1>3. Sound => FlagsAreEarned
  BY InstancesAssumption, FraudIsSafe DEF FlagsAreEarned, InstancesAssumption
<1>4. QED
  BY <1>1, <1>2, <1>3, PTL DEF Spec, everything

\* sseEmitter.ts: across connections that break and servers that restart, what a listener reads
\* of one run of the server is in order, without repetitions, and without gaps, in this run and when
\* it comes to the next, but of what the buffer had lost and, after a restart, of events whose new
\* ids were not above the id it came back with.
THEOREM StreamsAreInOrder == Spec => []NoGapsNorRepeats
<1> DEFINE Sound == focus = "events" => V!IInv
<1>1. Init => Sound
  BY InstancesAssumption, EventsInit DEF Init, InstancesAssumption
<1>2. Sound /\ [Next]_everything => Sound'
  <2>1. SUFFICES ASSUME Sound, [Next]_everything, focus' = "events" PROVE V!IInv'
    OBVIOUS
  <2>2. focus = "events" /\ V!IInv
    BY <2>1 DEF Next, everything
  <2>3. [V!Next]_(V!vars)
    <3>1. CASE UNCHANGED everything
      BY <3>1 DEF everything, events, V!vars, V!hub
    <3>2. CASE Next
      BY <2>2, <3>2 DEF Next, Services, Reports
    <3>3. QED
      BY <2>1, <3>1, <3>2
  <2>4. QED
    BY <2>2, <2>3, InstancesAssumption, EventsStep DEF InstancesAssumption
<1>3. Sound => NoGapsNorRepeats
  BY InstancesAssumption, EventsAreSafe DEF NoGapsNorRepeats, InstancesAssumption
<1>4. QED
  BY <1>1, <1>2, <1>3, PTL DEF Spec, everything

\* admin.ts, auditLog.ts: however the admins' requests interleave and fail, and while old entries
\* are purged, each trade that was resolved was recorded once and no other was, and a reader who
\* turns the pages misses no entry.
THEOREM TheTrailIsKeptWhole == Spec => []AuditTrailIsWhole
<1> DEFINE Sound == focus = "audit" => L!IInv
<1>1. Init => Sound
  BY InstancesAssumption, TrailInit DEF Init, InstancesAssumption
<1>2. Sound /\ [Next]_everything => Sound'
  <2>1. SUFFICES ASSUME Sound, [Next]_everything, focus' = "audit" PROVE L!IInv'
    OBVIOUS
  <2>2. focus = "audit" /\ L!IInv
    BY <2>1 DEF Next, everything
  <2>3. [L!Next]_(L!vars)
    <3>1. CASE UNCHANGED everything
      BY <3>1 DEF everything, trail, L!vars
    <3>2. CASE Next
      BY <2>2, <3>2 DEF Next, Services, Reports
    <3>3. QED
      BY <2>1, <3>1, <3>2
  <2>4. QED
    BY <2>2, <2>3, InstancesAssumption, TrailStep DEF InstancesAssumption
<1>3. Sound => AuditTrailIsWhole
  BY InstancesAssumption, TrailIsSafe DEF AuditTrailIsWhole, InstancesAssumption
<1>4. QED
  BY <1>1, <1>2, <1>3, PTL DEF Spec, everything

===============================================================================
