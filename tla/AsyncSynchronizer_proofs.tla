----------------------- MODULE AsyncSynchronizer_proofs -----------------------
(***************************************************************************)
(* Proofs about AsyncSynchronizer for any set of callers and any kinds of  *)
(* callbacks.                                                              *)
(*                                                                         *)
(* Every stretch of run() that starts or ends a wait begins in a state in  *)
(* which its caller has been taken out of (or was never in) the microtask  *)
(* queue: Ready.  Calls and microtasks lead from the invariant to Ready    *)
(* (CallIsReady, TaskIsReady); the stretches lead from Ready back to the   *)
(* invariant (AwaitPreserves, RunPreserves, ReleasePreserves).             *)
(***************************************************************************)
EXTENDS AsyncSynchronizer, SequenceFacts

IsIn(x, s) == \E i \in 1..Len(s) : s[i] = x

TaskIn(c, outcomes, m) ==
    \E i \in 1..Len(m) : m[i].caller = c /\ m[i].then \in outcomes

\* The invariant of everybody but c, whose run() continues with queue q and
\* microtask queue m.
Ready(c, q, m) ==
    /\ c \in Callers
    /\ q \in Seq(Callers)
    /\ m \in Seq(Microtask)
    /\ waitLockRelease \in PromiseStates
    /\ releaseLockQueue \in BOOLEAN
    /\ reactions \in Seq(Callers)
    /\ pc \in [Callers -> Returned \cup Executing \cup {"waiting"}]
    /\ q # <<>>
    /\ NoDuplicates(q)
    /\ NoDuplicates(reactions)
    /\ \A d \in Callers : IsIn(d, q) <=> d = c \/ pc[d] \notin Returned
    /\ \A d \in Callers : d # c /\ pc[d] \in Executing => Head(q) = d
    /\ \/ Head(q) = c
       \/ pc[Head(q)] \in Executing
       \/ pc[Head(q)] = "waiting" /\ TaskIn(Head(q), {"resume"}, m)
    /\ releaseLockQueue <=> reactions # <<>>
    /\ releaseLockQueue <=> waitLockRelease = "pending"
    /\ \A i, j \in 1..Len(m) : m[i].caller = m[j].caller => i = j
    /\ \A i \in 1..Len(m) :
          /\ m[i].caller # c
          /\ pc[m[i].caller] = IF m[i].then = "resume" THEN "waiting" ELSE "settling"
    /\ \A d \in Callers : d # c /\ pc[d] = "waiting"
                            => IsIn(d, reactions) \/ TaskIn(d, {"resume"}, m)
    /\ \A d \in Callers : d # c /\ pc[d] = "settling" => TaskIn(d, Outcomes, m)
    /\ \A i \in 1..Len(reactions) :
          /\ reactions[i] # c
          /\ pc[reactions[i]] = "waiting"
          /\ ~TaskIn(reactions[i], {"resume"}, m)

------------------------------------------------------------------------------
\* From the invariant to Ready.

\* A caller that has returned and calls run() again is in nobody's way: its new
\* lock goes to the end of the queue (AsyncSynchronizerImpl.run, the push).
LEMMA CallIsReady ==
    ASSUME IndInv, NEW c \in Callers, pc[c] \in Returned
    PROVE  Ready(c, Append(queue, c), micro)
  <1> DEFINE q == Append(queue, c)
  <1>1. TypeOK /\ LocksAreKept /\ NoLostWakeup
    BY DEF IndInv
  <1>2. queue \in Seq(Callers) /\ pc \in [Callers -> Returned \cup Executing \cup {"waiting"}]
    BY <1>1 DEF TypeOK
  <1>3. /\ q \in Seq(Callers) /\ Len(queue) \in Nat
        /\ Len(q) = Len(queue) + 1
        /\ \A i \in 1..Len(queue) : q[i] = queue[i]
        /\ q[Len(queue) + 1] = c
        /\ q # <<>>
        /\ queue # <<>> => Head(q) = Head(queue)
        /\ queue = <<>> => Head(q) = c
    BY <1>2, AppendByIndex
  <1> HIDE DEF q
  <1>4. ~IsIn(c, queue)
    BY <1>1 DEF LocksAreKept, IsQueued, IsIn
  <1>5. NoDuplicates(q)
    <2>1. SUFFICES ASSUME NEW i \in 1..Len(q), NEW j \in 1..Len(q), q[i] = q[j]
                   PROVE  i = j
      BY DEF NoDuplicates
    <2>2. NoDuplicates(queue)
      BY DEF IndInv
    <2> QED BY <1>3, <1>4, <2>1, <2>2 DEF NoDuplicates, IsIn
  <1>6. \A d \in Callers : IsIn(d, q) <=> d = c \/ pc[d] \notin Returned
    <2>1. \A d \in Callers : IsIn(d, q) <=> d = c \/ IsIn(d, queue)
      BY <1>3 DEF IsIn
    <2> QED BY <1>1, <2>1 DEF LocksAreKept, IsQueued, IsIn
  <1>7. \A d \in Callers : d # c /\ pc[d] \in Executing => Head(q) = d
    <2>1. SUFFICES ASSUME NEW d \in Callers, d # c, pc[d] \in Executing
                   PROVE  Head(q) = d
      OBVIOUS
    <2>2. Head(queue) = d
      BY <1>1, <2>1 DEF LocksAreKept
    <2>3. IsQueued(d)
      BY <1>1, <2>1 DEF LocksAreKept, Executing, Returned, Outcomes
    <2>4. queue # <<>>
      BY <1>2, <2>3, EmptySeq DEF IsQueued
    <2> QED BY <1>3, <2>2, <2>4
  <1>8. \/ Head(q) = c
        \/ pc[Head(q)] \in Executing
        \/ pc[Head(q)] = "waiting" /\ TaskIn(Head(q), {"resume"}, micro)
    BY <1>1, <1>3 DEF NoLostWakeup, HasTask, TaskIn
  <1>9. \A i \in 1..Len(micro) : micro[i].caller # c
    BY DEF IndInv, TasksMatch, Returned, Outcomes
  <1>10. \A i \in 1..Len(reactions) : reactions[i] # c
    BY DEF IndInv, SuspendedWait, Returned, Outcomes
  <1> QED
    BY <1>1, <1>3, <1>5, <1>6, <1>7, <1>8, <1>9, <1>10
    DEF Ready, IndInv, TypeOK, LocksAreKept, OneTaskEach, TasksMatch,
        WaitersAreScheduled, SettlingIsScheduled, SuspendedWait, HasTask,
        TaskIn, IsSuspended, IsIn, q

\* When the event loop takes the first microtask, the queue and the remaining
\* microtasks satisfy the invariant of everybody but its caller.
LEMMA TaskIsReady ==
    ASSUME IndInv, micro # <<>>
    PROVE  Ready(Head(micro).caller, queue, Tail(micro))
  <1> DEFINE c == Head(micro).caller
             m == Tail(micro)
  <1>1. /\ TypeOK /\ LocksAreKept /\ NoLostWakeup /\ OneTaskEach
        /\ TasksMatch /\ SuspendedWait
    BY DEF IndInv
  <1>2. /\ micro \in Seq(Microtask) /\ queue \in Seq(Callers)
        /\ reactions \in Seq(Callers)
        /\ pc \in [Callers -> Returned \cup Executing \cup {"waiting"}]
    BY <1>1 DEF TypeOK
  <1>3. /\ Len(micro) \in Nat /\ Len(micro) > 0
        /\ Head(micro) = micro[1] /\ Head(micro) \in Microtask
        /\ m \in Seq(Microtask)
        /\ Len(m) = Len(micro) - 1
        /\ \A i \in 1..Len(micro) - 1 : m[i] = micro[i + 1]
    BY <1>2, TailByIndex
  <1>4. c \in Callers /\ c = micro[1].caller
    BY <1>3 DEF Microtask
  <1> HIDE DEF c, m
  <1>5. pc[c] = "waiting" \/ pc[c] = "settling"
    BY <1>1, <1>3, <1>4 DEF TasksMatch
  <1>6. \A i \in 1..Len(m) : m[i].caller # c
    BY <1>1, <1>3, <1>4 DEF OneTaskEach
  <1>7. \A outcomes : \A d \in Callers :
            d # c => (TaskIn(d, outcomes, m) <=> HasTask(d, outcomes))
    <2>1. SUFFICES ASSUME NEW d \in Callers, NEW outcomes, d # c
                   PROVE  TaskIn(d, outcomes, m) <=> HasTask(d, outcomes)
      OBVIOUS
    <2>2. ASSUME TaskIn(d, outcomes, m)
          PROVE  HasTask(d, outcomes)
      BY <1>3, <2>2 DEF TaskIn, HasTask
    <2>3. ASSUME HasTask(d, outcomes)
          PROVE  TaskIn(d, outcomes, m)
      <3>1. PICK i \in 1..Len(micro) : micro[i].caller = d /\ micro[i].then \in outcomes
        BY <2>3 DEF HasTask
      <3>2. i # 1
        BY <1>4, <2>1, <3>1
      <3>3. i - 1 \in 1..Len(m) /\ m[i - 1] = micro[i]
        BY <1>3, <3>2
      <3> QED BY <3>1, <3>3 DEF TaskIn
    <2> QED BY <2>2, <2>3
  <1>8. queue # <<>>
    <2>1. IsQueued(c)
      BY <1>1, <1>4, <1>5 DEF LocksAreKept, Returned, Outcomes
    <2> QED BY <2>1, <1>2, EmptySeq DEF IsQueued
  <1>9. Head(queue) \in Callers
    BY <1>2, <1>8
  <1>10. \A i \in 1..Len(reactions) : reactions[i] \in Callers /\ reactions[i] # c
    <2>1. SUFFICES ASSUME NEW i \in 1..Len(reactions), reactions[i] = c
                   PROVE  FALSE
      BY <1>2
    <2>2. pc[c] = "waiting" /\ ~HasTask(c, {"resume"})
      BY <1>1, <2>1 DEF SuspendedWait
    <2>3. micro[1].then = "resume"
      BY <1>1, <1>3, <1>4, <2>2 DEF TasksMatch
    <2> QED BY <1>3, <1>4, <2>2, <2>3 DEF HasTask
  <1>11. \A i \in 1..Len(m) : pc[m[i].caller] = IF m[i].then = "resume" THEN "waiting" ELSE "settling"
    BY <1>1, <1>3 DEF TasksMatch
  <1>12. \A i, j \in 1..Len(m) : m[i].caller = m[j].caller => i = j
    BY <1>1, <1>3 DEF OneTaskEach
  <1>13. \A d \in Callers : IsIn(d, queue) <=> d = c \/ pc[d] \notin Returned
    BY <1>1, <1>4, <1>5 DEF LocksAreKept, IsQueued, IsIn, Returned, Outcomes
  <1>14. \/ Head(queue) = c
         \/ pc[Head(queue)] \in Executing
         \/ pc[Head(queue)] = "waiting" /\ TaskIn(Head(queue), {"resume"}, m)
    BY <1>1, <1>7, <1>8, <1>9 DEF NoLostWakeup
  <1>15. \A d \in Callers : d # c /\ pc[d] = "waiting"
                                => IsIn(d, reactions) \/ TaskIn(d, {"resume"}, m)
    BY <1>7 DEF IndInv, WaitersAreScheduled, IsSuspended, IsIn
  <1>16. \A d \in Callers : d # c /\ pc[d] = "settling" => TaskIn(d, Outcomes, m)
    BY <1>7 DEF IndInv, SettlingIsScheduled
  <1>17. \A i \in 1..Len(reactions) : pc[reactions[i]] = "waiting" /\ ~TaskIn(reactions[i], {"resume"}, m)
    BY <1>1, <1>7, <1>10 DEF SuspendedWait
  <1>18. Ready(c, queue, m)
    BY <1>1, <1>3, <1>4, <1>6, <1>8, <1>10, <1>11, <1>12, <1>13, <1>14, <1>15, <1>16, <1>17
    DEF Ready, IndInv, TypeOK, LocksAreKept
  <1> QED BY <1>18 DEF c, m

------------------------------------------------------------------------------
\* From Ready back to the invariant.

\* A caller that is not the first suspends itself (the body of the loop).
LEMMA AwaitPreserves ==
    ASSUME NEW c, NEW q, NEW m, Ready(c, q, m), Head(q) # c, AwaitRelease(c, q, m)
    PROVE  IndInv'
  <1>1. /\ c \in Callers /\ q \in Seq(Callers) /\ m \in Seq(Microtask)
        /\ reactions \in Seq(Callers)
        /\ pc \in [Callers -> Returned \cup Executing \cup {"waiting"}]
        /\ q # <<>> /\ Head(q) \in Callers
    BY DEF Ready
  <1>2. queue' = q /\ pc' = [pc EXCEPT ![c] = "waiting"]
    BY DEF AwaitRelease
  <1>3. /\ pc' \in [Callers -> Returned \cup Executing \cup {"waiting"}]
        /\ pc'[c] = "waiting"
        /\ \A d \in Callers : d # c => pc'[d] = pc[d]
    BY <1>1, <1>2
  <1>4. \A i \in 1..Len(m) : m[i] \in Microtask /\ m[i].caller \in Callers
    <2>1. \A i \in 1..Len(m) : m[i] \in Microtask
      BY <1>1, ElementOfSeq
    <2> QED BY <2>1 DEF Microtask
  <1>5. \A i \in 1..Len(reactions) : reactions[i] \in Callers
    BY <1>1
  <1>6. \A outcomes : ~TaskIn(c, outcomes, m)
    BY DEF Ready, TaskIn
  <1>7. NoDuplicates(queue') /\ \A d \in Callers : IsQueued(d)' <=> pc'[d] \notin Returned
    BY <1>2, <1>3 DEF Ready, IsQueued, IsIn, NoDuplicates, Returned, Outcomes
  <1>8. \A d \in Callers : pc'[d] \in Executing => Head(queue') = d
    BY <1>2, <1>3 DEF Ready, Executing
  <1>9. \/ pc'[Head(q)] \in Executing
        \/ pc'[Head(q)] = "waiting" /\ TaskIn(Head(q), {"resume"}, m)
    BY <1>1, <1>3 DEF Ready
  <1>10. CASE waitLockRelease # "resolved"
    <2>1. /\ waitLockRelease' = "pending" /\ releaseLockQueue' = TRUE
          /\ reactions' = Append(reactions, c) /\ micro' = m
      BY <1>10 DEF AwaitRelease
    <2>2. /\ reactions' \in Seq(Callers) /\ Len(reactions) \in Nat
          /\ Len(reactions') = Len(reactions) + 1
          /\ \A i \in 1..Len(reactions) : reactions'[i] = reactions[i]
          /\ reactions'[Len(reactions) + 1] = c
          /\ reactions' # <<>>
      BY <1>1, <2>1, AppendByIndex
    <2>3. TypeOK'
      BY <1>1, <1>2, <1>3, <2>1, <2>2 DEF TypeOK, PromiseStates
    <2>4. NoDuplicates(reactions')
      <3>1. SUFFICES ASSUME NEW i \in 1..Len(reactions'), NEW j \in 1..Len(reactions'),
                            reactions'[i] = reactions'[j]
                     PROVE  i = j
        BY DEF NoDuplicates
      <3> QED BY <2>2, <3>1 DEF Ready, NoDuplicates
    <2>5. OneTaskEach' /\ TasksMatch'
      BY <1>3, <1>4, <2>1 DEF Ready, OneTaskEach, TasksMatch
    <2>6. WaitersAreScheduled'
      <3>1. SUFFICES ASSUME NEW d \in Callers, pc'[d] = "waiting"
                     PROVE  IsIn(d, reactions') \/ TaskIn(d, {"resume"}, m)
        BY <2>1 DEF WaitersAreScheduled, IsSuspended, IsIn, HasTask, TaskIn
      <3>2. CASE d = c
        BY <2>2, <3>2 DEF IsIn
      <3>3. CASE d # c
        <4>1. IsIn(d, reactions) \/ TaskIn(d, {"resume"}, m)
          BY <1>3, <3>1, <3>3 DEF Ready
        <4> QED BY <2>2, <4>1 DEF IsIn
      <3> QED BY <3>2, <3>3
    <2>7. SettlingIsScheduled'
      BY <1>3, <2>1 DEF Ready, SettlingIsScheduled, HasTask, TaskIn
    <2>8. SuspendedWait'
      <3>1. SUFFICES ASSUME NEW i \in 1..Len(reactions')
                     PROVE  pc'[reactions'[i]] = "waiting" /\ ~TaskIn(reactions'[i], {"resume"}, m)
        BY <2>1 DEF SuspendedWait, HasTask, TaskIn
      <3>2. CASE i = Len(reactions) + 1
        BY <1>3, <1>6, <2>2, <3>2
      <3>3. CASE i \in 1..Len(reactions)
        BY <1>3, <1>5, <2>2, <3>3 DEF Ready
      <3> QED BY <2>2, <3>1, <3>2, <3>3
    <2>9. NoLostWakeup' /\ LocksAreKept'
      BY <1>2, <1>7, <1>8, <1>9, <2>1, <2>2 DEF NoLostWakeup, LocksAreKept, HasTask, TaskIn
    <2> QED BY <1>2, <1>7, <2>3, <2>4, <2>5, <2>6, <2>7, <2>8, <2>9 DEF IndInv
  <1>11. CASE waitLockRelease = "resolved"
    <2> DEFINE t == [caller |-> c, then |-> "resume"]
    <2>1. /\ waitLockRelease' = waitLockRelease /\ releaseLockQueue' = releaseLockQueue
          /\ reactions' = reactions /\ micro' = Append(m, t)
      BY <1>11 DEF AwaitRelease
    <2>2. t \in Microtask /\ t.caller = c /\ t.then = "resume"
      BY <1>1 DEF Microtask
    <2> HIDE DEF t
    <2>3. /\ micro' \in Seq(Microtask) /\ Len(m) \in Nat
          /\ Len(micro') = Len(m) + 1
          /\ \A i \in 1..Len(m) : micro'[i] = m[i]
          /\ micro'[Len(m) + 1] = t
      BY <1>1, <2>1, <2>2, AppendByIndex
    <2>4. TypeOK'
      BY <1>1, <1>2, <1>3, <2>1, <2>3 DEF Ready, TypeOK
    <2>5. OneTaskEach'
      <3>1. SUFFICES ASSUME NEW i \in 1..Len(micro'), NEW j \in 1..Len(micro'),
                            micro'[i].caller = micro'[j].caller
                     PROVE  i = j
        BY DEF OneTaskEach
      <3>2. /\ \A k, l \in 1..Len(m) : m[k].caller = m[l].caller => k = l
            /\ \A k \in 1..Len(m) : m[k].caller # c
        BY DEF Ready
      <3>3. CASE i \in 1..Len(m) /\ j \in 1..Len(m)
        BY <2>3, <3>1, <3>2, <3>3
      <3>4. CASE i = Len(m) + 1 /\ j = Len(m) + 1
        BY <3>4
      <3>5. CASE i = Len(m) + 1 /\ j \in 1..Len(m)
        BY <2>2, <2>3, <3>1, <3>2, <3>5
      <3>6. CASE i \in 1..Len(m) /\ j = Len(m) + 1
        BY <2>2, <2>3, <3>1, <3>2, <3>6
      <3> QED BY <2>3, <3>1, <3>3, <3>4, <3>5, <3>6
    <2>6. TasksMatch'
      <3>1. SUFFICES ASSUME NEW i \in 1..Len(micro')
                     PROVE  pc'[micro'[i].caller] = IF micro'[i].then = "resume" THEN "waiting" ELSE "settling"
        BY DEF TasksMatch
      <3>2. \A k \in 1..Len(m) :
                /\ m[k].caller # c
                /\ pc[m[k].caller] = IF m[k].then = "resume" THEN "waiting" ELSE "settling"
        BY DEF Ready
      <3>3. CASE i \in 1..Len(m)
        <4>1. m[i].caller \in Callers /\ m[i].caller # c /\ micro'[i] = m[i]
          BY <1>4, <2>3, <3>2, <3>3
        <4>2. pc'[m[i].caller] = pc[m[i].caller]
          BY <1>3, <4>1
        <4> QED BY <3>2, <3>3, <4>1, <4>2
      <3>4. CASE i = Len(m) + 1
        BY <1>3, <2>2, <2>3, <3>4
      <3> QED BY <2>3, <3>1, <3>3, <3>4
    <2>7. \A outcomes : \A d \in Callers : TaskIn(d, outcomes, m) => HasTask(d, outcomes)'
      BY <2>3 DEF TaskIn, HasTask
    <2>8. HasTask(c, {"resume"})'
      BY <2>2, <2>3 DEF HasTask
    <2>9. \A d \in Callers : d # c /\ HasTask(d, {"resume"})' => TaskIn(d, {"resume"}, m)
      BY <2>2, <2>3 DEF TaskIn, HasTask
    <2>10. WaitersAreScheduled' /\ SettlingIsScheduled'
      <3>1. \A d \in Callers : pc'[d] = "waiting" => IsIn(d, reactions') \/ HasTask(d, {"resume"})'
        BY <1>3, <2>1, <2>7, <2>8 DEF Ready
      <3>2. \A d \in Callers : pc'[d] = "settling" => HasTask(d, Outcomes)'
        BY <1>3, <2>7 DEF Ready
      <3> QED BY <3>1, <3>2 DEF WaitersAreScheduled, SettlingIsScheduled, IsSuspended, IsIn
    <2>11. SuspendedWait' /\ NoDuplicates(reactions')
      BY <1>3, <1>5, <2>1, <2>9 DEF Ready, SuspendedWait
    <2>12. NoLostWakeup'
      BY <1>1, <1>2, <1>9, <2>7 DEF NoLostWakeup
    <2>13. LocksAreKept'
      BY <1>7, <1>8, <2>1 DEF Ready, LocksAreKept
    <2> QED BY <1>7, <2>4, <2>5, <2>6, <2>10, <2>11, <2>12, <2>13 DEF IndInv
  <1> QED BY <1>10, <1>11

\* The first in the queue executes its callback, which does not throw: it waits
\* for a macrotask, or the continuation is in the microtask queue already.
LEMMA RunPreserves ==
    ASSUME NEW c, NEW q, NEW m, Ready(c, q, m), Head(q) = c,
           queue' = q,
           UNCHANGED <<waitLockRelease, releaseLockQueue, reactions>>,
           \/ pc' = [pc EXCEPT ![c] = "running"] /\ micro' = m
           \/ /\ pc' = [pc EXCEPT ![c] = "settling"]
              /\ \E o \in Outcomes : micro' = Append(m, [caller |-> c, then |-> o])
    PROVE  IndInv'
  <1>1. /\ c \in Callers /\ q \in Seq(Callers) /\ m \in Seq(Microtask)
        /\ reactions \in Seq(Callers)
        /\ pc \in [Callers -> Returned \cup Executing \cup {"waiting"}]
        /\ q # <<>>
    BY DEF Ready
  <1>2. /\ pc' \in [Callers -> Returned \cup Executing \cup {"waiting"}]
        /\ pc'[c] \in Executing
        /\ \A d \in Callers : d # c => pc'[d] = pc[d]
    BY <1>1 DEF Executing
  <1>3. \A i \in 1..Len(m) : m[i] \in Microtask /\ m[i].caller \in Callers
    <2>1. \A i \in 1..Len(m) : m[i] \in Microtask
      BY <1>1, ElementOfSeq
    <2> QED BY <2>1 DEF Microtask
  <1>4. \A i \in 1..Len(reactions) : reactions[i] \in Callers
    BY <1>1
  <1>5. \A d \in Callers : IsQueued(d)' <=> pc'[d] \notin Returned
    BY <1>2 DEF Ready, IsQueued, IsIn, Returned, Outcomes, Executing
  <1>6. \A d \in Callers : pc'[d] \in Executing => Head(queue') = d
    BY <1>1, <1>2 DEF Ready
  <1>7. LocksAreKept' /\ NoLostWakeup' /\ NoDuplicates(queue') /\ NoDuplicates(reactions')
    BY <1>2, <1>5, <1>6 DEF Ready, LocksAreKept, NoLostWakeup
  <1>8. CASE pc' = [pc EXCEPT ![c] = "running"] /\ micro' = m
    <2>1. pc'[c] = "running"
      BY <1>1, <1>8
    <2>2. TypeOK'
      BY <1>1, <1>2, <1>8 DEF Ready, TypeOK
    <2>3. OneTaskEach' /\ TasksMatch'
      BY <1>2, <1>3, <1>8 DEF Ready, OneTaskEach, TasksMatch
    <2>4. WaitersAreScheduled' /\ SettlingIsScheduled' /\ SuspendedWait'
      BY <1>2, <1>4, <1>8, <2>1 DEF Ready, WaitersAreScheduled, SettlingIsScheduled,
         SuspendedWait, IsSuspended, IsIn, HasTask, TaskIn
    <2> QED BY <1>7, <2>2, <2>3, <2>4 DEF IndInv
  <1>9. ASSUME NEW o \in Outcomes, pc' = [pc EXCEPT ![c] = "settling"],
               micro' = Append(m, [caller |-> c, then |-> o])
        PROVE  IndInv'
    <2> DEFINE t == [caller |-> c, then |-> o]
    <2>1. pc'[c] = "settling"
      BY <1>1, <1>9
    <2>2. t \in Microtask /\ t.caller = c /\ t.then = o /\ o # "resume"
      BY <1>1 DEF Microtask, Outcomes
    <2>3. micro' = Append(m, t)
      BY <1>9
    <2> HIDE DEF t
    <2>4. /\ micro' \in Seq(Microtask) /\ Len(m) \in Nat
          /\ Len(micro') = Len(m) + 1
          /\ \A i \in 1..Len(m) : micro'[i] = m[i]
          /\ micro'[Len(m) + 1] = t
      BY <1>1, <2>2, <2>3, AppendByIndex
    <2>5. TypeOK'
      BY <1>1, <1>2, <2>4 DEF Ready, TypeOK
    <2>6. OneTaskEach'
      <3>1. SUFFICES ASSUME NEW i \in 1..Len(micro'), NEW j \in 1..Len(micro'),
                            micro'[i].caller = micro'[j].caller
                     PROVE  i = j
        BY DEF OneTaskEach
      <3>2. \A k \in 1..Len(m) : micro'[k].caller # c
        BY <2>4 DEF Ready
      <3>3. CASE i = Len(m) + 1 /\ j = Len(m) + 1
        BY <3>3
      <3>4. CASE i = Len(m) + 1 /\ j \in 1..Len(m)
        BY <2>2, <2>4, <3>1, <3>2, <3>4
      <3>5. CASE i \in 1..Len(m) /\ j = Len(m) + 1
        BY <2>2, <2>4, <3>1, <3>2, <3>5
      <3>6. CASE i \in 1..Len(m) /\ j \in 1..Len(m)
        <4>1. \A k, l \in 1..Len(m) : m[k].caller = m[l].caller => k = l
          BY DEF Ready
        <4> QED BY <2>4, <3>1, <3>6, <4>1
      <3> QED BY <2>4, <3>1, <3>3, <3>4, <3>5, <3>6
    <2>7. TasksMatch'
      <3>1. SUFFICES ASSUME NEW i \in 1..Len(micro')
                     PROVE  pc'[micro'[i].caller] = IF micro'[i].then = "resume" THEN "waiting" ELSE "settling"
        BY DEF TasksMatch
      <3>2. \A k \in 1..Len(m) :
                /\ m[k].caller # c
                /\ pc[m[k].caller] = IF m[k].then = "resume" THEN "waiting" ELSE "settling"
        BY DEF Ready
      <3>3. CASE i \in 1..Len(m)
        <4>1. m[i].caller \in Callers /\ m[i].caller # c /\ micro'[i] = m[i]
          BY <1>3, <2>4, <3>2, <3>3
        <4>2. pc'[m[i].caller] = pc[m[i].caller]
          BY <1>2, <2>1, <4>1
        <4> QED BY <3>2, <3>3, <4>1, <4>2
      <3>4. CASE i = Len(m) + 1
        BY <1>2, <2>1, <2>2, <2>4, <3>4
      <3> QED BY <2>4, <3>1, <3>3, <3>4
    <2>8. \A outcomes : \A d \in Callers : TaskIn(d, outcomes, m) => HasTask(d, outcomes)'
      BY <2>4 DEF TaskIn, HasTask
    <2>9. HasTask(c, Outcomes)'
      BY <2>2, <2>4 DEF HasTask
    <2>10. \A d \in Callers : HasTask(d, {"resume"})' => TaskIn(d, {"resume"}, m)
      BY <2>2, <2>4 DEF TaskIn, HasTask
    <2>11. WaitersAreScheduled' /\ SettlingIsScheduled'
      <3>1. \A d \in Callers : pc'[d] = "waiting" => IsIn(d, reactions') \/ HasTask(d, {"resume"})'
        BY <1>2, <2>1, <2>8 DEF Ready
      <3>2. \A d \in Callers : pc'[d] = "settling" => HasTask(d, Outcomes)'
        BY <1>2, <2>8, <2>9 DEF Ready
      <3> QED BY <3>1, <3>2 DEF WaitersAreScheduled, SettlingIsScheduled, IsSuspended, IsIn
    <2>12. SuspendedWait'
      BY <1>2, <1>4, <2>10 DEF Ready, SuspendedWait
    <2> QED BY <1>7, <2>5, <2>6, <2>7, <2>11, <2>12 DEF IndInv
  <1> QED BY <1>8, <1>9

\* The finally block of the first in the queue: it leaves the queue with
\* outcome o, and whoever is suspended on the release promise gets a microtask.
LEMMA ReleasePreserves ==
    ASSUME NEW c, NEW q, NEW m, Ready(c, q, m), Head(q) = c,
           NEW o \in Outcomes, pc' = [pc EXCEPT ![c] = o], Release(c, q, m)
    PROVE  IndInv'
  <1>1. /\ c \in Callers /\ q \in Seq(Callers) /\ m \in Seq(Microtask)
        /\ reactions \in Seq(Callers)
        /\ pc \in [Callers -> Returned \cup Executing \cup {"waiting"}]
        /\ q # <<>>
    BY DEF Ready
  <1>2. /\ pc' \in [Callers -> Returned \cup Executing \cup {"waiting"}]
        /\ pc'[c] = o /\ o \in Returned
        /\ \A d \in Callers : d # c => pc'[d] = pc[d]
    BY <1>1 DEF Returned
  <1>3. \A i \in 1..Len(m) : m[i] \in Microtask /\ m[i].caller \in Callers
    <2>1. \A i \in 1..Len(m) : m[i] \in Microtask
      BY <1>1, ElementOfSeq
    <2> QED BY <2>1 DEF Microtask
  <1>4. /\ Len(reactions) \in Nat /\ Len(m) \in Nat
        /\ \A i \in 1..Len(reactions) : reactions[i] \in Callers
    BY <1>1
  <1>5. /\ queue' = Tail(q) /\ queue' \in Seq(Callers)
        /\ Len(q) \in Nat /\ Len(q) > 0
        /\ q[1] = c
        /\ Len(queue') = Len(q) - 1
        /\ \A i \in 1..Len(q) - 1 : queue'[i] = q[i + 1]
    BY <1>1, TailByIndex DEF Release
  <1>6. NoDuplicates(queue')
    BY <1>5 DEF Ready, NoDuplicates
  <1>7. \A d \in Callers : IsQueued(d)' <=> pc'[d] \notin Returned
    <2>1. SUFFICES ASSUME NEW d \in Callers
                   PROVE  IsQueued(d)' <=> d # c /\ IsIn(d, q)
      BY <1>2 DEF Ready
    <2>2. ASSUME IsQueued(d)'
          PROVE  d # c /\ IsIn(d, q)
      <3>1. PICK i \in 1..Len(queue') : queue'[i] = d
        BY <2>2 DEF IsQueued
      <3>2. i + 1 \in 1..Len(q) /\ q[i + 1] = d
        BY <1>5, <3>1
      <3>3. d # c
        <4>1. SUFFICES ASSUME d = c PROVE FALSE
          OBVIOUS
        <4>2. 1 \in 1..Len(q) /\ q[i + 1] = q[1] /\ i + 1 # 1
          BY <1>5, <3>1, <3>2, <4>1
        <4> QED BY <3>2, <4>2 DEF Ready, NoDuplicates
      <3> QED BY <3>2, <3>3 DEF IsIn
    <2>3. ASSUME d # c, IsIn(d, q)
          PROVE  IsQueued(d)'
      <3>1. PICK i \in 1..Len(q) : q[i] = d
        BY <2>3 DEF IsIn
      <3>2. i - 1 \in 1..Len(queue') /\ queue'[i - 1] = d
        BY <1>5, <2>3, <3>1
      <3> QED BY <3>2 DEF IsQueued
    <2> QED BY <2>2, <2>3
  <1>8. \A d \in Callers : pc'[d] \notin Executing
    BY <1>2 DEF Ready, Executing, Outcomes
  <1>9. queue' # <<>> =>
            /\ Head(queue') \in Callers /\ Head(queue') # c
            /\ pc'[Head(queue')] = "waiting" /\ pc[Head(queue')] = "waiting"
    <2>1. SUFFICES ASSUME queue' # <<>>
                   PROVE  /\ Head(queue') \in Callers /\ Head(queue') # c
                          /\ pc'[Head(queue')] = "waiting" /\ pc[Head(queue')] = "waiting"
      OBVIOUS
    <2>2. Head(queue') \in Callers /\ 1 \in 1..Len(queue') /\ Head(queue') = queue'[1]
      BY <1>5, <2>1, TailByIndex
    <2>3. pc'[Head(queue')] \notin Returned
      BY <1>7, <2>2 DEF IsQueued
    <2> QED BY <1>2, <1>8, <2>2, <2>3
  <1>10. CASE releaseLockQueue
    <2>1. /\ micro' = m \o Resumptions /\ reactions' = <<>>
          /\ waitLockRelease' = "resolved" /\ releaseLockQueue' = FALSE
      BY <1>10 DEF Release
    <2>2. /\ Resumptions \in Seq(Microtask) /\ Len(Resumptions) = Len(reactions)
          /\ \A i \in 1..Len(reactions) : Resumptions[i] = [caller |-> reactions[i], then |-> "resume"]
      BY <1>4 DEF Resumptions, Microtask
    <2>3. \A i \in 1..Len(reactions) :
              Resumptions[i].caller = reactions[i] /\ Resumptions[i].then = "resume"
      <3>1. SUFFICES ASSUME NEW i \in 1..Len(reactions)
                     PROVE  Resumptions[i].caller = reactions[i] /\ Resumptions[i].then = "resume"
        OBVIOUS
      <3>2. Resumptions[i] = [caller |-> reactions[i], then |-> "resume"]
        BY <2>2
      <3> QED BY <3>2
    <2>4. /\ micro' \in Seq(Microtask)
          /\ Len(micro') = Len(m) + Len(reactions)
          /\ \A i \in 1..Len(m) : micro'[i] = m[i]
          /\ \A i \in 1..Len(reactions) : micro'[Len(m) + i] = Resumptions[i]
      <3>1. ASSUME NEW t \in Seq(Microtask)
            PROVE  /\ m \o t \in Seq(Microtask)
                   /\ Len(m \o t) = Len(m) + Len(t)
                   /\ \A i \in 1..Len(m) : (m \o t)[i] = m[i]
                   /\ \A i \in 1..Len(t) : (m \o t)[Len(m) + i] = t[i]
        BY <1>1, ConcatByIndex
      <3> QED BY <2>1, <2>2, <3>1
    <2>5. \A i \in 1..Len(micro') :
              \/ i \in 1..Len(m) /\ micro'[i] = m[i]
              \/ /\ i - Len(m) \in 1..Len(reactions)
                 /\ micro'[i].caller = reactions[i - Len(m)]
                 /\ micro'[i].then = "resume"
      <3>1. SUFFICES ASSUME NEW i \in 1..Len(micro'), i \notin 1..Len(m)
                     PROVE  /\ i - Len(m) \in 1..Len(reactions)
                            /\ micro'[i].caller = reactions[i - Len(m)]
                            /\ micro'[i].then = "resume"
        BY <2>4
      <3>2. i - Len(m) \in 1..Len(reactions) /\ i = Len(m) + (i - Len(m))
        BY <1>4, <2>4, <3>1
      <3> QED BY <2>3, <2>4, <3>2
    <2>6. TypeOK'
      BY <1>2, <1>5, <2>1, <2>4, EmptySeq DEF TypeOK, PromiseStates
    <2>7. \A i \in 1..Len(m), j \in 1..Len(reactions) : m[i].caller # reactions[j]
      <3>1. SUFFICES ASSUME NEW i \in 1..Len(m), NEW j \in 1..Len(reactions),
                            m[i].caller = reactions[j]
                     PROVE  FALSE
        OBVIOUS
      <3>2. pc[m[i].caller] = "waiting" /\ ~TaskIn(m[i].caller, {"resume"}, m)
        BY <3>1 DEF Ready
      <3>3. m[i].then = "resume"
        BY <3>2 DEF Ready
      <3> QED BY <3>2, <3>3 DEF TaskIn
    <2>8. OneTaskEach'
      <3>1. SUFFICES ASSUME NEW i \in 1..Len(micro'), NEW j \in 1..Len(micro'),
                            micro'[i].caller = micro'[j].caller
                     PROVE  i = j
        BY DEF OneTaskEach
      <3>2. CASE i \in 1..Len(m) /\ j \in 1..Len(m)
        <4>1. \A k, l \in 1..Len(m) : m[k].caller = m[l].caller => k = l
          BY DEF Ready
        <4> QED BY <2>4, <3>1, <3>2, <4>1
      <3>3. CASE i \notin 1..Len(m) /\ j \notin 1..Len(m)
        <4>1. /\ i - Len(m) \in 1..Len(reactions) /\ j - Len(m) \in 1..Len(reactions)
              /\ reactions[i - Len(m)] = reactions[j - Len(m)]
          BY <2>5, <3>1, <3>3
        <4>2. i - Len(m) = j - Len(m)
          BY <4>1 DEF Ready, NoDuplicates
        <4> QED BY <1>4, <2>4, <3>1, <4>2
      <3>4. CASE i \in 1..Len(m) /\ j \notin 1..Len(m)
        BY <2>4, <2>5, <2>7, <3>1, <3>4
      <3>5. CASE i \notin 1..Len(m) /\ j \in 1..Len(m)
        BY <2>4, <2>5, <2>7, <3>1, <3>5
      <3> QED BY <3>2, <3>3, <3>4, <3>5
    <2>9. TasksMatch'
      <3>1. SUFFICES ASSUME NEW i \in 1..Len(micro')
                     PROVE  pc'[micro'[i].caller] = IF micro'[i].then = "resume" THEN "waiting" ELSE "settling"
        BY DEF TasksMatch
      <3>2. CASE i \in 1..Len(m)
        <4>1. /\ m[i].caller # c
              /\ pc[m[i].caller] = IF m[i].then = "resume" THEN "waiting" ELSE "settling"
          BY <3>2 DEF Ready
        <4> QED BY <1>2, <1>3, <2>4, <3>2, <4>1
      <3>3. CASE i \notin 1..Len(m)
        BY <1>2, <1>4, <2>5, <3>1, <3>3 DEF Ready
      <3> QED BY <3>2, <3>3
    <2>10. \A outcomes : \A d \in Callers : TaskIn(d, outcomes, m) => HasTask(d, outcomes)'
      BY <1>4, <2>4 DEF TaskIn, HasTask
    <2>11. \A d \in Callers : IsIn(d, reactions) => HasTask(d, {"resume"})'
      <3>1. SUFFICES ASSUME NEW d \in Callers, IsIn(d, reactions)
                     PROVE  HasTask(d, {"resume"})'
        OBVIOUS
      <3>2. PICK i \in 1..Len(reactions) : reactions[i] = d
        BY <3>1 DEF IsIn
      <3>3. Len(m) + i \in 1..Len(micro')
        BY <1>4, <2>4
      <3>4. micro'[Len(m) + i].caller = d /\ micro'[Len(m) + i].then \in {"resume"}
        BY <2>3, <2>4, <3>2
      <3> QED BY <3>3, <3>4 DEF HasTask
    <2>12. \A d \in Callers : pc'[d] = "waiting" => HasTask(d, {"resume"})'
      BY <1>2, <2>10, <2>11 DEF Ready, Outcomes
    <2>13. \A d \in Callers : pc'[d] = "settling" => HasTask(d, Outcomes)'
      BY <1>2, <2>10 DEF Ready, Outcomes
    <2>14. WaitersAreScheduled' /\ SettlingIsScheduled'
      BY <2>12, <2>13 DEF WaitersAreScheduled, SettlingIsScheduled
    <2>15. SuspendedWait' /\ NoDuplicates(reactions')
      BY <2>1 DEF SuspendedWait, NoDuplicates
    <2>16. NoLostWakeup'
      BY <1>9, <2>12 DEF NoLostWakeup
    <2>17. LocksAreKept'
      BY <1>7, <1>8, <2>1 DEF LocksAreKept
    <2> QED BY <1>6, <2>6, <2>8, <2>9, <2>14, <2>15, <2>16, <2>17 DEF IndInv
  <1>11. CASE ~releaseLockQueue
    <2>1. /\ micro' = m
          /\ UNCHANGED <<waitLockRelease, releaseLockQueue, reactions>>
          /\ reactions = <<>>
      BY <1>11 DEF Release, Ready
    <2>2. TypeOK'
      BY <1>1, <1>2, <1>5, <2>1 DEF Ready, TypeOK
    <2>3. OneTaskEach' /\ TasksMatch'
      BY <1>2, <1>3, <2>1 DEF Ready, OneTaskEach, TasksMatch
    <2>4. \A d \in Callers : ~IsIn(d, reactions)
      BY <2>1, EmptySeq DEF IsIn
    <2>5. \A d \in Callers : pc'[d] = "waiting" => HasTask(d, {"resume"})'
      BY <1>2, <2>1, <2>4 DEF Ready, HasTask, TaskIn, Outcomes
    <2>6. \A d \in Callers : pc'[d] = "settling" => HasTask(d, Outcomes)'
      BY <1>2, <2>1 DEF Ready, HasTask, TaskIn, Outcomes
    <2>7. WaitersAreScheduled' /\ SettlingIsScheduled'
      BY <2>5, <2>6 DEF WaitersAreScheduled, SettlingIsScheduled
    <2>8. SuspendedWait' /\ NoDuplicates(reactions')
      BY <2>1 DEF SuspendedWait, NoDuplicates
    <2>9. NoLostWakeup'
      BY <1>9, <2>5 DEF NoLostWakeup
    <2>10. LocksAreKept'
      BY <1>7, <1>8, <2>1 DEF Ready, LocksAreKept
    <2> QED BY <1>6, <2>2, <2>3, <2>7, <2>8, <2>9, <2>10 DEF IndInv
  <1> QED BY <1>10, <1>11

------------------------------------------------------------------------------
\* The actions.

\* A stretch of run() that starts with the loop test preserves the invariant.
LEMMA LoopPreserves ==
    ASSUME NEW c, NEW q, NEW m, Ready(c, q, m), LockLoop(c, q, m)
    PROVE  IndInv'
  <1>1. q # <<>> /\ c \in Callers
    BY DEF Ready
  <1>2. CASE Head(q) # c
    BY <1>1, <1>2, AwaitPreserves DEF LockLoop
  <1>3. CASE Head(q) = c
    <2>1. RunCallback(c, q, m)
      BY <1>1, <1>3 DEF LockLoop
    <2>2. CASE pc' = [pc EXCEPT ![c] = "rejected"] /\ Release(c, q, m)
      <3>1. "rejected" \in Outcomes
        BY DEF Outcomes
      <3> QED BY <1>3, <2>2, <3>1, ReleasePreserves
    <2>3. CASE /\ queue' = q
               /\ UNCHANGED <<waitLockRelease, releaseLockQueue, reactions>>
               /\ \/ pc' = [pc EXCEPT ![c] = "running"] /\ micro' = m
                  \/ /\ pc' = [pc EXCEPT ![c] = "settling"]
                     /\ \E o \in Outcomes : micro' = Append(m, [caller |-> c, then |-> o])
      BY <1>3, <2>3, RunPreserves
    <2> QED BY <2>1, <2>2, <2>3 DEF RunCallback
  <1> QED BY <1>2, <1>3

\* Every step preserves the inductive invariant.
LEMMA StepPreserves ==
    ASSUME IndInv, [Next]_vars
    PROVE  IndInv'
  <1>1. ASSUME NEW c \in Callers, Call(c)
        PROVE  IndInv'
    <2>1. Ready(c, Append(queue, c), micro)
      BY <1>1, CallIsReady DEF Call
    <2> QED BY <1>1, <2>1, LoopPreserves DEF Call
  <1>2. CASE ResumeWaiter
    <2>1. Ready(Head(micro).caller, queue, Tail(micro))
      BY <1>2, TaskIsReady DEF ResumeWaiter
    <2> QED BY <1>2, <2>1, LoopPreserves DEF ResumeWaiter
  <1>3. CASE FinishCallback
    <2> DEFINE c == Head(micro).caller
               o == Head(micro).then
    <2>1. Ready(c, queue, Tail(micro))
      BY <1>3, TaskIsReady DEF FinishCallback
    <2>2. /\ o \in Outcomes /\ micro # <<>>
          /\ pc' = [pc EXCEPT ![c] = o]
          /\ Release(c, queue, Tail(micro))
      BY <1>3 DEF FinishCallback
    <2>3. Head(micro) = micro[1] /\ 1 \in 1..Len(micro) /\ c \in Callers
      BY <2>1, <2>2, TailByIndex DEF IndInv, TypeOK, Ready
    <2> HIDE DEF c
    <2>4. pc[c] = "settling"
      BY <2>2, <2>3 DEF IndInv, TasksMatch, Outcomes, c
    <2>5. Head(queue) = c
      BY <2>3, <2>4 DEF IndInv, LocksAreKept, Executing
    <2> QED BY <2>1, <2>2, <2>5, ReleasePreserves
  <1>4. ASSUME NEW c \in Callers, NEW o \in Outcomes, SettleCallback(c, o)
        PROVE  IndInv'
    <2> DEFINE t == [caller |-> c, then |-> o]
    <2>1. /\ micro = <<>> /\ pc[c] = "running" /\ pc' = [pc EXCEPT ![c] = "settling"]
          /\ micro' = <<t>>
          /\ UNCHANGED <<queue, waitLockRelease, releaseLockQueue, reactions>>
      BY <1>4 DEF SettleCallback
    <2>2. t \in Microtask /\ t.caller = c /\ t.then = o /\ o # "resume"
      BY DEF Microtask, Outcomes
    <2> HIDE DEF t
    <2>3. /\ Len(micro') = 1 /\ micro'[1] = t /\ micro' \in Seq(Microtask)
          /\ \A i \in 1..Len(micro') : i = 1 /\ micro'[i] = t
      BY <2>1, <2>2
    <2>4. pc \in [Callers -> Returned \cup Executing \cup {"waiting"}]
      BY DEF IndInv, TypeOK
    <2>5. /\ pc' \in [Callers -> Returned \cup Executing \cup {"waiting"}]
          /\ pc'[c] = "settling"
          /\ \A d \in Callers : d # c => pc'[d] = pc[d]
      BY <2>1, <2>4 DEF Executing
    <2>6. \A outcomes : \A d \in Callers : ~HasTask(d, outcomes)
      BY <2>1, EmptySeq DEF HasTask
    <2>7. TypeOK' /\ NoDuplicates(queue') /\ NoDuplicates(reactions')
      BY <2>1, <2>3, <2>5 DEF IndInv, TypeOK
    <2>8. OneTaskEach'
      BY <2>3 DEF OneTaskEach
    <2>9. TasksMatch'
      BY <2>2, <2>3, <2>5 DEF TasksMatch
    <2>10. LocksAreKept'
      <3>1. /\ \A d \in Callers : pc'[d] \in Executing <=> pc[d] \in Executing
            /\ \A d \in Callers : pc'[d] \in Returned <=> pc[d] \in Returned
        BY <2>1, <2>5 DEF Executing, Returned, Outcomes
      <3> QED BY <2>1, <3>1 DEF IndInv, LocksAreKept, IsQueued
    <2>11. Head(queue) = c
      BY <2>1 DEF IndInv, LocksAreKept, Executing
    <2>12. NoLostWakeup'
      BY <2>1, <2>5, <2>11 DEF NoLostWakeup, Executing
    <2>13. HasTask(c, Outcomes)'
      BY <2>2, <2>3 DEF HasTask
    <2>14. \A d \in Callers : ~HasTask(d, {"resume"})'
      BY <2>2, <2>3 DEF HasTask
    <2>15. WaitersAreScheduled'
      <3>1. \A d \in Callers : pc'[d] = "waiting" => IsSuspended(d)
        BY <2>5, <2>6 DEF IndInv, WaitersAreScheduled
      <3> QED BY <2>1, <3>1 DEF WaitersAreScheduled, IsSuspended
    <2>16. SettlingIsScheduled'
      BY <2>5, <2>6, <2>13 DEF IndInv, SettlingIsScheduled
    <2>17. SuspendedWait'
      <3>1. SUFFICES ASSUME NEW i \in 1..Len(reactions)
                     PROVE  pc'[reactions[i]] = "waiting" /\ ~HasTask(reactions[i], {"resume"})'
        BY <2>1 DEF SuspendedWait
      <3>2. reactions[i] \in Callers /\ pc[reactions[i]] = "waiting"
        BY DEF IndInv, TypeOK, SuspendedWait
      <3> QED BY <2>1, <2>5, <2>14, <3>2
    <2> QED BY <2>7, <2>8, <2>9, <2>10, <2>12, <2>15, <2>16, <2>17 DEF IndInv
  <1>5. CASE UNCHANGED vars
    BY <1>5 DEF IndInv, vars, TypeOK, NoDuplicates, OneTaskEach, LocksAreKept, NoLostWakeup,
       TasksMatch, WaitersAreScheduled, SettlingIsScheduled, SuspendedWait,
       IsQueued, IsSuspended, HasTask
  <1> QED BY <1>1, <1>2, <1>3, <1>4, <1>5 DEF Next

\* The inductive invariant holds initially.
LEMMA InitEstablishes == Init => IndInv
  <1> SUFFICES ASSUME Init PROVE IndInv
    OBVIOUS
  <1>1. queue = <<>> /\ micro = <<>> /\ reactions = <<>> /\ ~releaseLockQueue
    BY DEF Init
  <1>2. \A c \in Callers : pc[c] = "idle"
    BY DEF Init
  <1>3. TypeOK
    BY EmptySeq DEF Init, TypeOK, PromiseStates, Returned
  <1>4. LocksAreKept
    BY <1>1, <1>2, EmptySeq DEF Init, LocksAreKept, IsQueued, Returned, Executing, Outcomes
  <1> QED BY <1>1, <1>2, <1>3, <1>4, EmptySeq
    DEF IndInv, NoDuplicates, OneTaskEach, NoLostWakeup, TasksMatch,
        WaitersAreScheduled, SettlingIsScheduled, SuspendedWait

\* The invariant behind the synchronizer: locks are kept in the queue until
\* their call returns, and everybody who waits is going to be woken up.
THEOREM IndInvAlways == Spec => []IndInv
  <1>1. IndInv /\ [Next]_vars => IndInv'
    BY StepPreserves
  <1> QED BY InitEstablishes, <1>1, PTL DEF Spec

\* The fields of the synchronizer and the suspended calls keep their types.
THEOREM TypeCorrect == Spec => []TypeOK
  <1>1. IndInv => TypeOK
    BY DEF IndInv
  <1> QED BY IndInvAlways, <1>1, PTL

\* The callbacks given to run() never overlap, however many callers there are
\* and however their callbacks settle: whoever executes is the first in the queue.
THEOREM NeverTwoCallbacks == Spec => []MutualExclusion
  <1>1. IndInv => MutualExclusion
    BY DEF IndInv, LocksAreKept, MutualExclusion
  <1> QED BY IndInvAlways, <1>1, PTL

\* The first in the queue is never left asleep.
THEOREM NoWakeupIsLost == Spec => []NoLostWakeup
  <1>1. IndInv => NoLostWakeup
    BY DEF IndInv
  <1> QED BY IndInvAlways, <1>1, PTL

\* The error path and the warning path of run() are unreachable.
THEOREM LocksAreAlwaysKept == Spec => []LocksAreKept
  <1>1. IndInv => LocksAreKept
    BY DEF IndInv
  <1> QED BY IndInvAlways, <1>1, PTL

\* Once the release promise is resolved, a waiting call blocks the event loop.
THEOREM WaitersAlwaysSpin == Spec => []WaitersSpin
  <1>1. IndInv => WaitersSpin
    <2>1. SUFFICES ASSUME IndInv, waitLockRelease = "resolved",
                          NEW c \in Callers, pc[c] = "waiting"
                   PROVE  micro # <<>>
      BY DEF WaitersSpin
    <2>2. reactions = <<>>
      BY <2>1 DEF IndInv, LocksAreKept
    <2>3. HasTask(c, {"resume"})
      BY <2>1, <2>2, EmptySeq DEF IndInv, WaitersAreScheduled, IsSuspended
    <2> QED BY <2>3, EmptySeq DEF HasTask
  <1> QED BY IndInvAlways, <1>1, PTL

------------------------------------------------------------------------------
\* Refinement of the serial queue.

\* Updating the place of one caller updates its stage, and no other's.
LEMMA StageUpdate ==
    ASSUME pc \in [Callers -> Returned \cup Executing \cup {"waiting"}],
           NEW c \in Callers, NEW p, pc' = [pc EXCEPT ![c] = p]
    PROVE  /\ stages' = [stages EXCEPT ![c] = StageOf(p)]
           /\ stages[c] = StageOf(pc[c])
  BY DEF stages

\* Each step of run() is a step of the serial queue, or none.
LEMMA StepRefines ==
    ASSUME IndInv, [Next]_vars
    PROVE  [Serial!Next]_(Serial!vars)
  <1> USE DEF Serial!Finished, Serial!Outcomes
  <1>1. /\ queue \in Seq(Callers)
        /\ pc \in [Callers -> Returned \cup Executing \cup {"waiting"}]
    BY DEF IndInv, TypeOK
  <1>2. ASSUME NEW c \in Callers, Call(c)
        PROVE  Serial!Step(c)
    <2> DEFINE q == Append(queue, c)
    <2>1. /\ q # <<>> /\ q = Append(queue, c)
          /\ queue # <<>> => Head(q) = Head(queue)
          /\ queue = <<>> => q = <<c>> /\ Head(q) = c /\ Tail(q) = <<>>
      <3>1. q # <<>> /\ (queue # <<>> => Head(q) = Head(queue))
        BY <1>1, AppendByIndex
      <3>2. CASE queue = <<>>
        <4>1. q = <<c>>
          BY <3>2, SingletonByIndex
        <4> HIDE DEF q
        <4>2. Head(q) = c /\ Tail(q) = <<>>
          BY <4>1, SingletonByIndex
        <4> QED BY <3>1, <3>2, <4>1, <4>2 DEF q
      <3> QED BY <3>1, <3>2
    <2>2. pc[c] \in Returned /\ LockLoop(c, q, micro)
      BY <1>2 DEF Call
    <2> HIDE DEF q
    <2>3. stages[c] \in Serial!Finished
      BY <2>2 DEF stages, StageOf, Returned, Outcomes, Executing
    <2>4. queue # <<>> => Head(queue) # c
      <3>1. SUFFICES ASSUME queue # <<>> PROVE Head(queue) # c
        OBVIOUS
      <3>2. 1 \in 1..Len(queue) /\ Head(queue) = queue[1]
        BY <1>1, <3>1, TailByIndex
      <3>3. ~IsQueued(c)
        BY <2>2 DEF IndInv, LocksAreKept
      <3> QED BY <3>2, <3>3 DEF IsQueued
    <2>5. CASE queue # <<>>
      <3>1. AwaitRelease(c, q, micro)
        BY <2>1, <2>2, <2>4, <2>5 DEF LockLoop
      <3>2. queue' = Append(queue, c) /\ pc' = [pc EXCEPT ![c] = "waiting"]
        BY <2>1, <3>1 DEF AwaitRelease
      <3>3. stages' = [stages EXCEPT ![c] = "queued"]
        BY <1>1, <3>2, StageUpdate DEF StageOf
      <3> QED BY <2>3, <2>5, <3>2, <3>3 DEF Serial!Step, Serial!Enqueue
    <2>6. CASE queue = <<>>
      <3>1. RunCallback(c, q, micro) /\ Head(q) = c /\ q = <<c>> /\ Tail(q) = <<>>
        BY <2>1, <2>2, <2>6 DEF LockLoop
      <3>2. CASE pc' = [pc EXCEPT ![c] = "rejected"] /\ Release(c, q, micro)
        <4>1. queue' = <<>>
          BY <2>1, <3>1, <3>2 DEF Release
        <4>2. stages' = [stages EXCEPT ![c] = "rejected"]
          BY <1>1, <3>2, StageUpdate DEF StageOf, Executing
        <4> QED BY <2>3, <2>6, <4>1, <4>2 DEF Serial!Step, Serial!FailIdle
      <3>3. CASE /\ queue' = q
                 /\ pc' = [pc EXCEPT ![c] = "running"] \/ pc' = [pc EXCEPT ![c] = "settling"]
        <4>1. stages' = [stages EXCEPT ![c] = "executing"]
          BY <1>1, <3>3, StageUpdate DEF StageOf, Executing
        <4> QED BY <2>3, <2>6, <3>1, <3>3, <4>1 DEF Serial!Step, Serial!EnterIdle
      <3> QED BY <3>1, <3>2, <3>3 DEF RunCallback
    <2> QED BY <2>5, <2>6
  <1>3. CASE ResumeWaiter \/ FinishCallback
    <2> DEFINE c == Head(micro).caller
               o == Head(micro).then
               m == Tail(micro)
    <2>1. micro # <<>>
      BY <1>3 DEF ResumeWaiter, FinishCallback
    <2>2. c \in Callers /\ queue # <<>>
      BY <2>1, TaskIsReady DEF Ready
    <2>3. /\ Head(micro) = micro[1] /\ 1 \in 1..Len(micro)
      BY <2>1, TailByIndex DEF IndInv, TypeOK
    <2>4. pc[c] = IF o = "resume" THEN "waiting" ELSE "settling"
      BY <2>3 DEF IndInv, TasksMatch
    <2>5. CASE ResumeWaiter
      <3>1. o = "resume" /\ LockLoop(c, queue, m)
        BY <2>5 DEF ResumeWaiter
      <3>2. stages[c] = "queued" /\ pc[c] = "waiting"
        BY <2>2, <2>4, <3>1 DEF stages, StageOf
      <3> HIDE DEF c, o, m
      <3>3. CASE Head(queue) # c
        <4>1. queue' = queue /\ pc' = [pc EXCEPT ![c] = "waiting"]
          BY <2>2, <3>1, <3>3 DEF LockLoop, AwaitRelease
        <4>2. pc' = pc
          BY <1>1, <2>2, <3>2, <4>1
        <4> QED BY <4>1, <4>2 DEF Serial!vars, stages
      <3>4. CASE Head(queue) = c
        <4>1. RunCallback(c, queue, m)
          BY <2>2, <3>1, <3>4 DEF LockLoop
        <4>2. CASE pc' = [pc EXCEPT ![c] = "rejected"] /\ Release(c, queue, m)
          <5>1. queue' = Tail(queue)
            BY <2>2, <3>4, <4>2 DEF Release
          <5>2. stages' = [stages EXCEPT ![c] = "rejected"]
            BY <1>1, <2>2, <4>2, StageUpdate DEF StageOf, Executing
          <5> QED BY <2>2, <3>2, <3>4, <5>1, <5>2 DEF Serial!Next, Serial!Step, Serial!BeginAndFail
        <4>3. CASE /\ queue' = queue
                   /\ pc' = [pc EXCEPT ![c] = "running"] \/ pc' = [pc EXCEPT ![c] = "settling"]
          <5>1. stages' = [stages EXCEPT ![c] = "executing"]
            BY <1>1, <2>2, <4>3, StageUpdate DEF StageOf, Executing
          <5> QED BY <2>2, <3>2, <3>4, <4>3, <5>1 DEF Serial!Next, Serial!Step, Serial!Begin
        <4> QED BY <4>1, <4>2, <4>3 DEF RunCallback
      <3> QED BY <3>3, <3>4
    <2>6. CASE FinishCallback
      <3>1. /\ o \in Outcomes /\ pc' = [pc EXCEPT ![c] = o]
            /\ Release(c, queue, m)
        BY <2>6 DEF FinishCallback
      <3>2. pc[c] = "settling"
        BY <2>4, <3>1 DEF Outcomes
      <3> HIDE DEF c, o, m
      <3>3. Head(queue) = c
        BY <2>2, <3>2 DEF IndInv, LocksAreKept, Executing
      <3>4. queue' = Tail(queue)
        BY <2>2, <3>1, <3>3 DEF Release
      <3>5. stages' = [stages EXCEPT ![c] = o] /\ stages[c] = "executing"
        BY <1>1, <2>2, <3>1, <3>2, StageUpdate DEF StageOf, Outcomes, Executing
      <3> QED BY <2>2, <3>1, <3>3, <3>4, <3>5 DEF Serial!Next, Serial!Step, Serial!End, Outcomes
    <2> QED BY <1>3, <2>5, <2>6
  <1>4. ASSUME NEW c \in Callers, NEW o \in Outcomes, SettleCallback(c, o)
        PROVE  UNCHANGED Serial!vars
    <2>1. queue' = queue /\ pc' = [pc EXCEPT ![c] = "settling"] /\ pc[c] = "running"
      BY <1>4 DEF SettleCallback
    <2>2. \A d \in Callers : StageOf(pc'[d]) = StageOf(pc[d])
      BY <1>1, <2>1 DEF StageOf, Executing
    <2> QED BY <2>1, <2>2 DEF Serial!vars, stages
  <1>5. CASE UNCHANGED vars
    BY <1>5 DEF vars, Serial!vars, stages
  <1> QED BY <1>2, <1>3, <1>4, <1>5 DEF Next, Serial!Next

\* run() implements the serial queue: callbacks are executed one at a time, in
\* the order of the calls, and once per call.
THEOREM ImplementsSerialQueue == Spec => ServesInOrder
  <1>1. Init => Serial!Init
    BY DEF Init, Serial!Init, stages, StageOf, Executing
  <1>2. IndInv /\ [Next]_vars => [Serial!Next]_(Serial!vars)
    BY StepRefines
  <1> QED BY <1>1, <1>2, IndInvAlways, PTL DEF Spec, ServesInOrder, Serial!Spec
==============================================================================
