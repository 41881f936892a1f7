----------------------------- MODULE HttpService -----------------------------
(***************************************************************************)
(* The accounting of HttpService: the requests in flight, their limit,     *)
(* retries, and those who wait until no request is open.                   *)
(*                                                                         *)
(* One action is one run-to-completion stretch of JavaScript, except that  *)
(* the listeners which are called when a request stops are actions of      *)
(* their own, because they may call the service again from within its      *)
(* loop.  Nothing of the service happens while its REQUEST_STARTED event   *)
(* is triggered that could not as well happen just after: its listeners    *)
(* are taken for user code that runs next.                                 *)
(***************************************************************************)
EXTENDS Naturals, FiniteSets, Observer

CONSTANTS Requests,       \* calls of _request that may be open at once
          Waiters,        \* calls of waitUntilNoOpenRequests
          UserListeners,  \* functions given to on(REQUEST_STOPPED)
          Limits,         \* values given to setRequestLimit
          maxAttempts,    \* of the retry policy
          MaxListeners    \* bound on the listeners registered at once

ASSUME HttpAssumption ==
    /\ IsFiniteSet(Requests)
    /\ Waiters \cap UserListeners = {}
    /\ Limits \subseteq Nat /\ Limits # {}
    /\ maxAttempts \in Nat /\ MaxListeners \in Nat

VARIABLES _requestCount,
          _requestLimit,
          _observer,      \* the listeners of REQUEST_STOPPED
          request,        \* the state of each call of _request
          attempt,        \* and the attempt it is in
          waiter,         \* the promise of each call of waitUntilNoOpenRequests
          loop,           \* "none", or what the REQUEST_STOPPED loop is doing
          rest            \* the listeners this loop has yet to call

http == <<_requestCount, request, attempt>>
events == <<_observer, waiter, loop, rest>>
vars == <<http, _requestLimit, events>>

Listeners == Waiters \cup UserListeners

Init ==
    /\ _requestCount = 0
    /\ _requestLimit \in Limits
    /\ _observer = newObserver
    /\ request = [r \in Requests |-> "none"]
    /\ attempt = [r \in Requests |-> 0]
    /\ waiter = [w \in Waiters |-> "none"]
    /\ loop = "none"
    /\ rest = <<>>

UserCodeRuns == loop # "calling"
EventLoopTurns == loop = "none"

------------------------------------------------------------------------------
\* What user code may do, at any time or inside a listener.

\* Fault: the limit is compared before the new request counts.
LimitReachedLate == _requestCount > _requestLimit

LimitReached == _requestCount >= _requestLimit

\* _request up to its first await.  Beyond the limit it throws and no state changes.
Start(r) ==
    /\ UserCodeRuns
    /\ request[r] = "none"
    /\ ~LimitReached
    /\ _requestCount' = _requestCount + 1
    /\ request' = [request EXCEPT ![r] = "sent"]
    /\ attempt' = [attempt EXCEPT ![r] = 0]
    /\ UNCHANGED <<_requestLimit, events>>

setRequestLimit(n) ==
    /\ UserCodeRuns
    /\ _requestLimit' = n
    /\ UNCHANGED <<http, events>>

hasOpenRequests == _requestCount >= 1

waitUntilNoOpenRequests(w) ==
    /\ UserCodeRuns
    /\ waiter[w] = "none"
    /\ \/ /\ ~hasOpenRequests
          /\ waiter' = [waiter EXCEPT ![w] = "resolved"]
          /\ UNCHANGED _observer
       \/ /\ hasOpenRequests
          /\ _observer.alive
          /\ Len(_observer.listeners) < MaxListeners
          /\ _observer' = listenEvent(_observer, w)
          /\ waiter' = [waiter EXCEPT ![w] = "waiting"]
       \/ /\ hasOpenRequests
          /\ ~_observer.alive
          /\ waiter' = [waiter EXCEPT ![w] = "rejected"]
          /\ UNCHANGED _observer
    /\ UNCHANGED <<http, _requestLimit, loop, rest>>

on(u) ==
    /\ UserCodeRuns
    /\ _observer.alive
    /\ Len(_observer.listeners) < MaxListeners
    /\ _observer' = listenEvent(_observer, u)
    /\ UNCHANGED <<http, _requestLimit, waiter, loop, rest>>

Off(u) ==
    /\ UserCodeRuns
    /\ _observer' = removeListener(_observer, u)
    /\ UNCHANGED <<http, _requestLimit, waiter, loop, rest>>

\* Requests go on, but nobody hears of their end any more.
destroy ==
    /\ UserCodeRuns
    /\ _observer' = destroyedObserver
    /\ UNCHANGED <<http, _requestLimit, waiter, loop, rest>>

------------------------------------------------------------------------------
\* What the event loop brings.

\* The response arrives.
Answer(r) ==
    /\ EventLoopTurns
    /\ request[r] = "sent"
    /\ request' = [request EXCEPT ![r] = "settled"]
    /\ UNCHANGED <<_requestCount, attempt, _requestLimit, events>>

\* Fault: a retried request is given up without the finally of its first attempt.
GiveUpForgets(r) ==
    /\ EventLoopTurns
    /\ request[r] = "sent"
    /\ request' = [request EXCEPT ![r] = IF attempt[r] = 0 THEN "settled" ELSE "none"]
    /\ UNCHANGED <<_requestCount, attempt, _requestLimit, events>>

\* The request fails, and without a policy, with one that does not match the
\* error, or after its last attempt the error is passed on.
GiveUp(r) ==
    /\ EventLoopTurns
    /\ request[r] = "sent"
    /\ request' = [request EXCEPT ![r] = "settled"]
    /\ UNCHANGED <<_requestCount, attempt, _requestLimit, events>>

\* Fault: one attempt too many.
shouldRetryOnceMore(r) == attempt[r] <= maxAttempts

\* It fails with an error that the policy matches.
shouldRetry(r) == attempt[r] < maxAttempts

Retry(r) ==
    /\ EventLoopTurns
    /\ request[r] = "sent"
    /\ shouldRetry(r)
    /\ request' = [request EXCEPT ![r] = "retrying"]
    /\ UNCHANGED <<_requestCount, attempt, _requestLimit, events>>

\* Fault: the next attempt is not told its number.
WaitForRetryForever(r) ==
    /\ EventLoopTurns
    /\ request[r] = "retrying"
    /\ request' = [request EXCEPT ![r] = "sent"]
    /\ UNCHANGED <<_requestCount, attempt, _requestLimit, events>>

\* _waitForRetry is over: the next attempt, which neither asks for the limit
\* nor counts as a request.
_waitForRetry(r) ==
    /\ EventLoopTurns
    /\ request[r] = "retrying"
    /\ request' = [request EXCEPT ![r] = "sent"]
    /\ attempt' = [attempt EXCEPT ![r] = @ + 1]
    /\ UNCHANGED <<_requestCount, _requestLimit, events>>

\* The finally block of the first attempt, which is reached when the attempts
\* nested in it have passed their result on.
Finish(r) ==
    /\ EventLoopTurns
    /\ request[r] = "settled"
    /\ request' = [request EXCEPT ![r] = "none"]
    /\ attempt' = [attempt EXCEPT ![r] = 0]
    /\ _requestCount' = _requestCount - 1
    /\ \/ /\ hasCallbacks(_observer)
          /\ loop' = "calling"
          /\ rest' = _observer.listeners
       \/ /\ ~hasCallbacks(_observer)
          /\ UNCHANGED <<loop, rest>>
    /\ UNCHANGED <<_requestLimit, _observer, waiter>>

\* The code that awaited waitUntilNoOpenRequests continues.
Continue(w) ==
    /\ EventLoopTurns
    /\ waiter[w] \in {"resolved", "rejected"}
    /\ waiter' = [waiter EXCEPT ![w] = "none"]
    /\ UNCHANGED <<http, _requestLimit, _observer, loop, rest>>

------------------------------------------------------------------------------
\* The loop of triggerEvent.

\* Fault: a listener that leaves takes its successor's turn.
RemainderShifted == IF Len(rest) > 1 /\ Head(rest) \in Waiters /\ ~hasOpenRequests
                    THEN Tail(Tail(rest)) ELSE Tail(rest)

Remainder == Tail(rest)

CallWaiter(w) ==
    /\ loop = "calling" /\ rest # <<>> /\ Head(rest) = w
    /\ rest' = Remainder
    /\ \/ /\ ~hasOpenRequests
          /\ _observer' = removeListener(_observer, w)
          /\ waiter' = [waiter EXCEPT ![w] = "resolved"]
       \/ /\ hasOpenRequests
          /\ UNCHANGED <<_observer, waiter>>
    /\ UNCHANGED <<http, _requestLimit, loop>>

CallUser(u) ==
    /\ loop = "calling" /\ rest # <<>> /\ Head(rest) = u
    /\ rest' = Remainder
    /\ loop' = "listener"
    /\ UNCHANGED <<http, _requestLimit, _observer, waiter>>

ListenerEnds ==
    /\ loop = "listener"
    /\ loop' = "calling"
    /\ UNCHANGED <<http, _requestLimit, _observer, waiter, rest>>

LoopEnds ==
    /\ loop = "calling" /\ rest = <<>>
    /\ loop' = "none"
    /\ UNCHANGED <<http, _requestLimit, _observer, waiter, rest>>

------------------------------------------------------------------------------
Settle(r) == Answer(r) \/ GiveUp(r) \/ Retry(r)
Loop == (\E w \in Waiters : CallWaiter(w)) \/ (\E u \in UserListeners : CallUser(u))
        \/ ListenerEnds \/ LoopEnds

Next ==
    \/ \E r \in Requests : Start(r) \/ Settle(r) \/ _waitForRetry(r) \/ Finish(r)
    \/ \E w \in Waiters : waitUntilNoOpenRequests(w) \/ Continue(w)
    \/ \E u \in UserListeners : on(u) \/ Off(u)
    \/ \E n \in Limits : setRequestLimit(n)
    \/ destroy
    \/ Loop

Spec == Init /\ [][Next]_vars

\* A request is answered or fails in the end, timers fire, and listeners return.
Fairness ==
    /\ \A r \in Requests : WF_vars(Settle(r)) /\ WF_vars(_waitForRetry(r)) /\ WF_vars(Finish(r))
    /\ WF_vars(Loop)

FairSpec == Spec /\ Fairness

------------------------------------------------------------------------------
\* The state of the service is well formed.
TypeOK ==
    /\ _requestCount \in Nat
    /\ _requestLimit \in Limits
    /\ _observer \in Observers(Listeners)
    /\ request \in [Requests -> {"none", "sent", "retrying", "settled"}]
    /\ attempt \in [Requests -> 0..maxAttempts]
    /\ waiter \in [Waiters -> {"none", "waiting", "resolved", "rejected"}]
    /\ loop \in {"none", "calling", "listener"}
    /\ rest \in Seq(Listeners)

Open == {r \in Requests : request[r] # "none"}

\* However often requests are retried and however they end, each is counted
\* exactly once, until its caller gets the outcome.
CountIsExact == _requestCount = Cardinality(Open)

\* No request is let in beyond the limit in force.
LimitHolds == [][\A r \in Requests : request[r] = "none" /\ request'[r] # "none"
                                     => Cardinality(Open') <= _requestLimit]_vars

\* Nobody waits for requests when there are none: whoever waits is told by the
\* loop of the last request, even when listeners leave in the middle of it.
NobodyWaitsForNothing ==
    /\ _observer.alive
    /\ loop = "none"
    /\ \E w \in Waiters : waiter[w] = "waiting"
    => hasOpenRequests

\* If the service is not destroyed, whoever waits is released when no new
\* requests come in, whatever the retry policy does.
WaitersAreReleased ==
    /\ []_observer.alive
    /\ <>[][\A r \in Requests : ~Start(r)]_vars
    => \A w \in Waiters : waiter[w] = "waiting" ~> waiter[w] # "waiting"

\* A request waits for a retry only when it has one left.
RetriesAreLeft == \A r \in Requests : request[r] = "retrying" => attempt[r] < maxAttempts

\* While the observer lives it knows everybody who waits.
ObserverKnowsWaiters ==
    _observer.alive =>
        \A w \in Waiters : waiter[w] = "waiting" =>
            \E i \in 1..Len(_observer.listeners) : _observer.listeners[i] = w

\* Once the last request is gone, whoever still waits is ahead of the loop that
\* tells the waiters about it.
WaitersAreAhead ==
    _observer.alive /\ ~hasOpenRequests =>
        \A w \in Waiters : waiter[w] = "waiting" =>
            loop # "none" /\ \E i \in 1..Len(rest) : rest[i] = w

\* The inductive invariant behind the safety properties of the accounting.
IndInv == TypeOK /\ CountIsExact /\ RetriesAreLeft /\ ObserverKnowsWaiters /\ WaitersAreAhead

==============================================================================
