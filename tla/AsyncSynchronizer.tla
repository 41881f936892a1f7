-------------------------- MODULE AsyncSynchronizer --------------------------
(***************************************************************************)
(* AsyncSynchronizerImpl.run() on the JavaScript event loop.               *)
(*                                                                         *)
(* One action is one run-to-completion stretch of JavaScript: the code of  *)
(* run() between two suspensions.  Promise continuations are kept in the   *)
(* microtask queue, first in first out; an I/O or timer completion is a    *)
(* macrotask, which the event loop takes only when no microtask is left.   *)
(*                                                                         *)
(* A caller has at most one call outstanding, and may call again when that *)
(* call has settled, so behaviours contain any number of calls.            *)
(***************************************************************************)
EXTENDS Naturals, Sequences

CONSTANTS Callers,        \* the code paths that call run() on one synchronizer
          CallbackKinds   \* how the callbacks of this system may settle

\* "throw": the callback throws before it returns a promise.
\* "micro": its promise settles without the event loop having to turn.
\* "macro": its promise settles when a timer fires or I/O completes.
ASSUME CallbackKindsAssumption == CallbackKinds \subseteq {"throw", "micro", "macro"}

VARIABLES queue,             \* _queue: the locks; a lock is named by its caller
          waitLockRelease,   \* _waitLockRelease: "undefined", or the promise's state
          releaseLockQueue,  \* is _releaseLockQueue defined?
          reactions,         \* callers suspended on the pending _waitLockRelease
          micro,             \* the microtask queue
          pc                 \* where the latest run() of each caller stands

vars == <<queue, waitLockRelease, releaseLockQueue, reactions, micro, pc>>

Outcomes == {"fulfilled", "rejected"}
Returned == {"idle"} \cup Outcomes
Executing == {"running", "settling"}
Microtask == [caller : Callers, then : {"resume"} \cup Outcomes]
PromiseStates == {"undefined", "pending", "resolved"}

Init ==
    /\ queue = <<>>
    /\ waitLockRelease = "undefined"
    /\ releaseLockQueue = FALSE
    /\ reactions = <<>>
    /\ micro = <<>>
    /\ pc = [c \in Callers |-> "idle"]

------------------------------------------------------------------------------
\* The stretches of run(): q is the queue and m the microtask queue that the
\* stretch starts from.

\* Fault: the resolver of a release promise is called but wakes nobody up.
ResumptionsLost == <<>>

\* Every reaction of the released promise becomes a microtask.
Resumptions == [i \in 1..Len(reactions) |-> [caller |-> reactions[i], then |-> "resume"]]

\* The finally block: leave the queue, release the waiters.
Release(c, q, m) ==
    /\ queue' = IF q # <<>> /\ Head(q) = c THEN Tail(q) ELSE q
    /\ \/ /\ releaseLockQueue
          /\ micro' = m \o Resumptions
          /\ reactions' = <<>>
          /\ waitLockRelease' = "resolved"
          /\ releaseLockQueue' = FALSE
       \/ /\ ~releaseLockQueue
          /\ micro' = m
          /\ UNCHANGED <<waitLockRelease, releaseLockQueue, reactions>>

\* Fault: a waiter polls the queue in microtasks instead of awaiting a promise.
AwaitReleasePolls(c, q, m) ==
    /\ queue' = q
    /\ pc' = [pc EXCEPT ![c] = "waiting"]
    /\ micro' = Append(m, [caller |-> c, then |-> "resume"])
    /\ UNCHANGED <<waitLockRelease, releaseLockQueue, reactions>>

\* await _waitLockRelease, which is created the first time somebody waits and
\* is never replaced; awaiting a resolved promise queues the resumption at once.
\* (LocksAreKept: while there is no promise there is no resolver either, so the
\* code that releases an earlier promise before creating one has none to release.)
AwaitRelease(c, q, m) ==
    /\ queue' = q
    /\ pc' = [pc EXCEPT ![c] = "waiting"]
    /\ \/ /\ waitLockRelease # "resolved"
          /\ waitLockRelease' = "pending"
          /\ releaseLockQueue' = TRUE
          /\ reactions' = Append(reactions, c)
          /\ micro' = m
       \/ /\ waitLockRelease = "resolved"
          /\ micro' = Append(m, [caller |-> c, then |-> "resume"])
          /\ UNCHANGED <<waitLockRelease, releaseLockQueue, reactions>>

\* Fault: the lock is released only after a callback that did not throw.
RunCallbackKeepsLock(c, q, m) ==
    \/ /\ "throw" \in CallbackKinds
       /\ pc' = [pc EXCEPT ![c] = "rejected"]
       /\ queue' = q
       /\ micro' = m
       /\ UNCHANGED <<waitLockRelease, releaseLockQueue, reactions>>
    \/ /\ CallbackKinds # {"throw"}
       /\ pc' = [pc EXCEPT ![c] = "running"]
       /\ micro' = m
       /\ queue' = q
       /\ UNCHANGED <<waitLockRelease, releaseLockQueue, reactions>>

\* result = await callback().
RunCallback(c, q, m) ==
    \/ /\ "throw" \in CallbackKinds
       /\ pc' = [pc EXCEPT ![c] = "rejected"]
       /\ Release(c, q, m)
    \/ /\ "micro" \in CallbackKinds
       /\ pc' = [pc EXCEPT ![c] = "settling"]
       /\ \E o \in Outcomes : micro' = Append(m, [caller |-> c, then |-> o])
       /\ queue' = q
       /\ UNCHANGED <<waitLockRelease, releaseLockQueue, reactions>>
    \/ /\ "macro" \in CallbackKinds
       /\ pc' = [pc EXCEPT ![c] = "running"]
       /\ micro' = m
       /\ queue' = q
       /\ UNCHANGED <<waitLockRelease, releaseLockQueue, reactions>>

\* throw new TypeError("Could not acquire lock to the queue").
CannotAcquire(c, q, m) ==
    /\ queue' = q
    /\ micro' = m
    /\ pc' = [pc EXCEPT ![c] = "rejected"]
    /\ UNCHANGED <<waitLockRelease, releaseLockQueue, reactions>>

\* The loop test: wait while somebody else is first in the queue.
LockLoop(c, q, m) ==
    IF q = <<>> THEN CannotAcquire(c, q, m)
    ELSE IF Head(q) # c THEN AwaitRelease(c, q, m)
    ELSE RunCallback(c, q, m)

------------------------------------------------------------------------------
\* Fault: a new call that finds the queue free of executing callbacks barges in
\* before the waiters.
CallBarges(c) ==
    /\ pc[c] \in Returned
    /\ IF \A d \in Callers : pc[d] \notin Executing
       THEN RunCallback(c, <<c>> \o queue, micro)
       ELSE LockLoop(c, Append(queue, c), micro)

\* Code of a task that is being executed calls run().
Call(c) ==
    /\ pc[c] \in Returned
    /\ LockLoop(c, Append(queue, c), micro)

\* Fault: "if" instead of "while", a waiter does not test the queue again.
ResumeWaiterUntested ==
    /\ micro # <<>> /\ Head(micro).then = "resume"
    /\ RunCallback(Head(micro).caller, queue, Tail(micro))

\* Microtask: a waiter wakes up and tests again whether it is the first.
ResumeWaiter ==
    /\ micro # <<>> /\ Head(micro).then = "resume"
    /\ LockLoop(Head(micro).caller, queue, Tail(micro))

\* Fault: the continuation of a callback takes a waiter's microtask for its own.
FinishCallbackConfused ==
    /\ micro # <<>>
    /\ pc' = [pc EXCEPT ![Head(micro).caller] = Head(micro).then]
    /\ Release(Head(micro).caller, queue, Tail(micro))

\* Microtask: a callback's promise has settled and run() continues after it.
FinishCallback ==
    /\ micro # <<>> /\ Head(micro).then \in Outcomes
    /\ pc' = [pc EXCEPT ![Head(micro).caller] = Head(micro).then]
    /\ Release(Head(micro).caller, queue, Tail(micro))

\* Macrotask: the I/O or the timer a callback waits for is done.
SettleCallback(c, o) ==
    /\ micro = <<>>
    /\ pc[c] = "running"
    /\ pc' = [pc EXCEPT ![c] = "settling"]
    /\ micro' = <<[caller |-> c, then |-> o]>>
    /\ UNCHANGED <<queue, waitLockRelease, releaseLockQueue, reactions>>

Next ==
    \/ \E c \in Callers : Call(c)
    \/ ResumeWaiter
    \/ FinishCallback
    \/ \E c \in Callers, o \in Outcomes : SettleCallback(c, o)

Spec == Init /\ [][Next]_vars

\* The event loop runs the microtasks it has, and every timer or I/O operation
\* a callback started completes; nobody has to call run().
Fairness ==
    /\ WF_vars(ResumeWaiter)
    /\ WF_vars(FinishCallback)
    /\ \A c \in Callers : WF_vars(\E o \in Outcomes : SettleCallback(c, o))

FairSpec == Spec /\ Fairness

------------------------------------------------------------------------------
\* Properties

\* The values each field and each suspended call may hold.
TypeOK ==
    /\ queue \in Seq(Callers)
    /\ waitLockRelease \in PromiseStates
    /\ releaseLockQueue \in BOOLEAN
    /\ reactions \in Seq(Callers)
    /\ micro \in Seq(Microtask)
    /\ pc \in [Callers -> Returned \cup Executing \cup {"waiting"}]

HasTask(c, outcomes) ==
    \E i \in 1..Len(micro) : micro[i].caller = c /\ micro[i].then \in outcomes

IsSuspended(c) == \E i \in 1..Len(reactions) : reactions[i] = c

IsQueued(c) == \E i \in 1..Len(queue) : queue[i] = c

\* The callbacks of two calls never overlap: what run() exists for.
MutualExclusion ==
    \A c, d \in Callers : pc[c] \in Executing /\ pc[d] \in Executing => c = d

\* Nobody sleeps in front of a free lock: the first in the queue is executing
\* its callback or its wake-up is already in the microtask queue, so that the
\* single shared release promise loses no wake-up.
NoLostWakeup ==
    queue # <<>> =>
        \/ pc[Head(queue)] \in Executing
        \/ pc[Head(queue)] = "waiting" /\ HasTask(Head(queue), {"resume"})

\* The lock of a call that has not returned is in the queue, so that the
\* "Could not acquire lock" error and the "did not have us" warning are
\* unreachable; and the resolver of the release promise is defined exactly
\* while that promise is pending and somebody is suspended on it.
LocksAreKept ==
    /\ \A c \in Callers : IsQueued(c) <=> pc[c] \notin Returned
    /\ \A c \in Callers : pc[c] \in Executing => Head(queue) = c
    /\ releaseLockQueue <=> reactions # <<>>
    /\ releaseLockQueue <=> waitLockRelease = "pending"

\* After the first release the promise stays resolved, and from then on a
\* call that waits keeps the microtask queue busy: the event loop cannot turn
\* while anybody waits.
WaitersSpin ==
    waitLockRelease = "resolved" /\ (\E c \in Callers : pc[c] = "waiting")
        => micro # <<>>

\* The synchronizer implements the serial queue: a waiting call is queued, and
\* a call whose callback runs or has just settled is executing.
StageOf(p) ==
    IF p = "waiting" THEN "queued" ELSE IF p \in Executing THEN "executing" ELSE p

stages == [c \in Callers |-> StageOf(pc[c])]

Serial == INSTANCE SerialQueue WITH line <- queue, stage <- stages

\* Calls are served one at a time, in call order, each once.
ServesInOrder == Serial!Spec

\* Every call of run() returns.
EveryCallReturns == \A c \in Callers : (pc[c] \notin Returned) ~> (pc[c] \in Returned)

\* Every call returns, provided that the event loop keeps turning, that is, that
\* the waiters do not keep the microtask queue busy for ever.
ReturnsIfLoopTurns == ([]<>(micro = <<>>)) => EveryCallReturns

\* Until the release promise is resolved for the first time, the callback that
\* executes is not kept from finishing by those that wait for it.
FirstHolderFinishes ==
    \A c \in Callers :
        (pc[c] \in Executing /\ waitLockRelease # "resolved") ~> (pc[c] \in Returned)

\* No caller is twice in s.
NoDuplicates(s) == \A i, j \in 1..Len(s) : s[i] = s[j] => i = j

\* Each call has at most one microtask.
OneTaskEach ==
    \A i, j \in 1..Len(micro) : micro[i].caller = micro[j].caller => i = j

\* Each microtask is of a call that waits for it.
TasksMatch ==
    \A i \in 1..Len(micro) :
        pc[micro[i].caller] = IF micro[i].then = "resume" THEN "waiting" ELSE "settling"

\* Each waiting call is suspended on the promise or about to be resumed.
WaitersAreScheduled ==
    \A c \in Callers : pc[c] = "waiting" => IsSuspended(c) \/ HasTask(c, {"resume"})

\* Each call whose callback has settled is about to continue.
SettlingIsScheduled ==
    \A c \in Callers : pc[c] = "settling" => HasTask(c, Outcomes)

\* Whoever is suspended on the promise waits, and is not resumed before its release.
SuspendedWait ==
    \A i \in 1..Len(reactions) :
        /\ pc[reactions[i]] = "waiting"
        /\ ~HasTask(reactions[i], {"resume"})

\* The inductive invariant behind the safety properties of run().
IndInv ==
    /\ TypeOK
    /\ NoDuplicates(queue)
    /\ OneTaskEach
    /\ NoDuplicates(reactions)
    /\ LocksAreKept
    /\ NoLostWakeup
    /\ TasksMatch
    /\ WaitersAreScheduled
    /\ SettlingIsScheduled
    /\ SuspendedWait
==============================================================================
