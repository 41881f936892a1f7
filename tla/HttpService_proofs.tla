-------------------------- MODULE HttpService_proofs --------------------------
(***************************************************************************)
(* Proofs about HttpService, for any requests, waiters, limits and number  *)
(* of attempts: every open request is counted once, and nobody is left     *)
(* waiting when none is open.                                              *)
(*                                                                         *)
(* The invariant follows a waiter: the observer knows it as long as it     *)
(* waits (ObserverKnowsWaiters), so the loop of the last request has it    *)
(* before itself (WaitersAreAhead), and a loop that is over has nobody     *)
(* before itself.                                                          *)
(***************************************************************************)
EXTENDS HttpService, FiniteSetTheorems, SequenceFacts

\* A new service has no open request, no waiter and no loop.
LEMMA InitEstablishes == Init => IndInv
  <1> SUFFICES ASSUME Init PROVE IndInv
    OBVIOUS
  <1>1. TypeOK
    <2>1. _observer \in Observers(Listeners) /\ rest \in Seq(Listeners)
      BY EmptyObservers, EmptySeq DEF Init
    <2> QED
      BY <2>1, HttpAssumption DEF Init, TypeOK
  <1>2. CountIsExact
    <2>1. Open = {}
      BY DEF Init, Open
    <2> QED
      BY <2>1, FS_EmptySet DEF Init, CountIsExact
  <1>3. RetriesAreLeft /\ ObserverKnowsWaiters /\ WaitersAreAhead
    BY DEF Init, RetriesAreLeft, ObserverKnowsWaiters, WaitersAreAhead
  <1> QED
    BY <1>1, <1>2, <1>3 DEF IndInv

------------------------------------------------------------------------------
\* Steps that leave the waiters and their observer alone.

\* The open requests can be counted.
LEMMA OpenIsFinite == IsFiniteSet(Open)
  BY HttpAssumption, FS_Subset DEF Open

\* _request begins: one more open request, one more in the count.
LEMMA Starting ==
    ASSUME IndInv, NEW r \in Requests, Start(r)
    PROVE  IndInv'
  <1> USE DEF IndInv
  <1>1. TypeOK' /\ RetriesAreLeft'
    BY HttpAssumption DEF TypeOK, RetriesAreLeft, Start, events
  <1>2. CountIsExact'
    <2>1. Open' = Open \cup {r} /\ r \notin Open
      BY DEF TypeOK, Open, Start
    <2>2. Cardinality(Open') = Cardinality(Open) + 1
      BY <2>1, OpenIsFinite, FS_AddElement
    <2> QED
      BY <2>2 DEF CountIsExact, Start
  <1>3. ObserverKnowsWaiters'
    BY DEF ObserverKnowsWaiters, Start, events
  <1>4. WaitersAreAhead'
    BY DEF WaitersAreAhead, hasOpenRequests, TypeOK, Start, events
  <1> QED
    BY <1>1, <1>2, <1>3, <1>4

\* A request is answered, fails or waits for a retry: it stays open and counted.
LEMMA Settling ==
    ASSUME IndInv, NEW r \in Requests, Settle(r) \/ _waitForRetry(r)
    PROVE  IndInv'
  <1> USE DEF IndInv
  <1>1. /\ UNCHANGED <<_requestCount, _requestLimit, events>>
        /\ request[r] # "none" /\ request'[r] # "none"
        /\ request' \in [Requests -> {"none", "sent", "retrying", "settled"}]
        /\ \A q \in Requests \ {r} : request'[q] = request[q]
    BY DEF Settle, Answer, GiveUp, Retry, _waitForRetry, TypeOK
  <1>2. attempt' \in [Requests -> 0..maxAttempts] /\ RetriesAreLeft'
    <2>1. /\ maxAttempts \in Nat
          /\ attempt \in [Requests -> 0..maxAttempts]
          /\ request \in [Requests -> {"none", "sent", "retrying", "settled"}]
          /\ \A q \in Requests : request[q] = "retrying" => attempt[q] < maxAttempts
      BY HttpAssumption DEF TypeOK, RetriesAreLeft
    <2>2. CASE Settle(r)
      <3>1. attempt' = attempt /\ (request'[r] = "retrying" => attempt[r] < maxAttempts)
        BY <2>1, <2>2 DEF Settle, Answer, GiveUp, Retry, shouldRetry
      <3> QED
        BY <1>1, <2>1, <3>1 DEF RetriesAreLeft
    <2>3. CASE _waitForRetry(r)
      <3>1. /\ request[r] = "retrying" /\ request'[r] = "sent"
            /\ attempt' = [attempt EXCEPT ![r] = @ + 1]
        BY <2>1, <2>3 DEF _waitForRetry
      <3>2. attempt[r] + 1 \in 0..maxAttempts
        BY <2>1, <3>1
      <3> QED
        BY <1>1, <2>1, <3>1, <3>2 DEF RetriesAreLeft
    <2> QED
      BY <2>2, <2>3
  <1>3. TypeOK'
    BY <1>1, <1>2 DEF TypeOK, events
  <1>4. CountIsExact'
    <2>1. Open' = Open
      BY <1>1 DEF Open
    <2> QED
      BY <1>1, <2>1 DEF CountIsExact
  <1>5. ObserverKnowsWaiters' /\ WaitersAreAhead'
    BY <1>1 DEF ObserverKnowsWaiters, WaitersAreAhead, hasOpenRequests, events
  <1> QED
    BY <1>2, <1>3, <1>4, <1>5

\* setRequestLimit leaves requests and waiters alone.
LEMMA ChangingTheLimit ==
    ASSUME IndInv, NEW n \in Limits, setRequestLimit(n)
    PROVE  IndInv'
  BY DEF IndInv, setRequestLimit, http, events, TypeOK, CountIsExact, Open, RetriesAreLeft,
         ObserverKnowsWaiters, WaitersAreAhead, hasOpenRequests

\* The last request that ends hands everybody who waits to its loop.
LEMMA Finishing ==
    ASSUME IndInv, NEW r \in Requests, Finish(r)
    PROVE  IndInv'
  <1> USE DEF IndInv
  <1>1. CountIsExact' /\ _requestCount' \in Nat
    <2>1. Open' = Open \ {r} /\ r \in Open
      BY DEF TypeOK, Open, Finish
    <2>2. /\ Cardinality(Open') = Cardinality(Open) - 1
          /\ IsFiniteSet(Open')
      BY <2>1, OpenIsFinite, FS_RemoveElement
    <2>3. Cardinality(Open') \in Nat
      BY <2>2, FS_CardinalityType
    <2> QED
      BY <2>2, <2>3 DEF CountIsExact, Finish
  <1>2. TypeOK' /\ RetriesAreLeft'
    BY <1>1, HttpAssumption DEF TypeOK, RetriesAreLeft, Finish, Observers
  <1>3. ObserverKnowsWaiters'
    BY DEF ObserverKnowsWaiters, Finish
  <1>4. WaitersAreAhead'
    <2> SUFFICES ASSUME _observer.alive, NEW w \in Waiters, waiter[w] = "waiting"
                 PROVE  loop' # "none" /\ \E i \in 1..Len(rest') : rest'[i] = w
      BY DEF WaitersAreAhead, Finish
    <2>1. PICK i \in 1..Len(_observer.listeners) : _observer.listeners[i] = w
      BY DEF ObserverKnowsWaiters
    <2>2. hasCallbacks(_observer)
      BY <2>1 DEF hasCallbacks
    <2> QED
      BY <2>1, <2>2 DEF Finish
  <1> QED
    BY <1>1, <1>2, <1>3, <1>4

------------------------------------------------------------------------------
\* Steps of the waiters, the listeners and the loop.  They leave the requests
\* alone.

\* A step that leaves the requests alone keeps the count exact and the retries
\* within the policy, and does not change whether a request is open.
LEMMA RequestsUntouched ==
    ASSUME IndInv, UNCHANGED http
    PROVE  CountIsExact' /\ RetriesAreLeft' /\ hasOpenRequests' = hasOpenRequests
  BY DEF IndInv, http, CountIsExact, Open, RetriesAreLeft, hasOpenRequests

\* Whatever the observer forgets was not waiting.
LEMMA Removing ==
    ASSUME IndInv, NEW x, _observer' = removeListener(_observer, x),
           \A w \in Waiters : waiter'[w] = "waiting" => waiter[w] = "waiting" /\ w # x
    PROVE  ObserverKnowsWaiters'
  <1>1. _observer \in Observers(Listeners)
    BY DEF IndInv, TypeOK
  <1>2. _observer'.alive = _observer.alive
    BY <1>1, RemoveKeeps
  <1>3. ASSUME NEW w \in Waiters, waiter'[w] = "waiting", _observer.alive
        PROVE  \E i \in 1..Len(_observer'.listeners) : _observer'.listeners[i] = w
    <2>1. PICK i \in 1..Len(_observer.listeners) : _observer.listeners[i] = w
      BY <1>3 DEF IndInv, ObserverKnowsWaiters
    <2> QED
      BY <1>1, <1>3, <2>1, RemoveKeeps
  <1> QED
    BY <1>2, <1>3 DEF ObserverKnowsWaiters

\* Whoever waits anew is known to the observer.
LEMMA Listening ==
    ASSUME IndInv, NEW x \in Listeners, _observer' = listenEvent(_observer, x),
           \A w \in Waiters : waiter'[w] = "waiting" => waiter[w] = "waiting" \/ w = x
    PROVE  ObserverKnowsWaiters' /\ _observer'.alive = _observer.alive
  <1>1. _observer \in Observers(Listeners)
    BY DEF IndInv, TypeOK
  <1>2. _observer'.alive = _observer.alive
    BY <1>1, ListenKeeps
  <1>3. ASSUME NEW w \in Waiters, waiter'[w] = "waiting", _observer.alive
        PROVE  \E i \in 1..Len(_observer'.listeners) : _observer'.listeners[i] = w
    <2>1. w = x \/ \E i \in 1..Len(_observer.listeners) : _observer.listeners[i] = w
      BY <1>3 DEF IndInv, ObserverKnowsWaiters
    <2>2. \A o \in Observers(Listeners) : \A y :
            y = x \/ (\E i \in 1..Len(o.listeners) : o.listeners[i] = y)
            => \E j \in 1..Len(listenEvent(o, x).listeners) : listenEvent(o, x).listeners[j] = y
      BY ListenKnows
    <2> QED
      BY <1>1, <2>1, <2>2
  <1> QED
    BY <1>2, <1>3 DEF ObserverKnowsWaiters

\* waitUntilNoOpenRequests: who begins to wait is known to the observer, and
\* begins only while a request is open.
LEMMA Waiting ==
    ASSUME IndInv, NEW w \in Waiters, waitUntilNoOpenRequests(w)
    PROVE  IndInv'
  <1> USE DEF IndInv
  <1>1. CountIsExact' /\ RetriesAreLeft' /\ hasOpenRequests' = hasOpenRequests
    BY RequestsUntouched DEF waitUntilNoOpenRequests
  <1>2. w \in Listeners
    BY DEF Listeners
  <1>3. CASE /\ hasOpenRequests /\ _observer.alive
             /\ _observer' = listenEvent(_observer, w)
             /\ waiter' = [waiter EXCEPT ![w] = "waiting"]
    <2>1. TypeOK'
      BY <1>2, <1>3, ListenKeeps DEF TypeOK, waitUntilNoOpenRequests, http
    <2>2. ObserverKnowsWaiters'
      BY <1>2, <1>3, Listening DEF TypeOK
    <2>3. WaitersAreAhead'
      BY <1>1, <1>3 DEF WaitersAreAhead
    <2> QED
      BY <1>1, <2>1, <2>2, <2>3
  <1>4. CASE /\ \/ waiter' = [waiter EXCEPT ![w] = "resolved"]
                \/ waiter' = [waiter EXCEPT ![w] = "rejected"]
             /\ UNCHANGED _observer
    <2>1. TypeOK'
      BY <1>4 DEF TypeOK, waitUntilNoOpenRequests, http
    <2>2. \A m \in Waiters : waiter'[m] = "waiting" => waiter[m] = "waiting"
      BY <1>4 DEF TypeOK
    <2>3. ObserverKnowsWaiters'
      BY <1>4, <2>2 DEF ObserverKnowsWaiters
    <2>4. WaitersAreAhead'
      BY <1>1, <1>4, <2>2 DEF WaitersAreAhead, waitUntilNoOpenRequests
    <2> QED
      BY <1>1, <2>1, <2>3, <2>4
  <1> QED
    BY <1>3, <1>4 DEF waitUntilNoOpenRequests

\* on(): a further listener hides none of the waiters.
LEMMA ListeningDirectly ==
    ASSUME IndInv, NEW u \in UserListeners, on(u)
    PROVE  IndInv'
  <1> USE DEF IndInv
  <1>1. CountIsExact' /\ RetriesAreLeft' /\ hasOpenRequests' = hasOpenRequests
    BY RequestsUntouched DEF on
  <1>2. u \in Listeners
    BY DEF Listeners
  <1>3. TypeOK'
    BY <1>2, ListenKeeps DEF TypeOK, on, http
  <1>4. ObserverKnowsWaiters' /\ _observer'.alive = _observer.alive
    BY <1>2, Listening DEF on
  <1>5. WaitersAreAhead'
    BY <1>1, <1>4 DEF WaitersAreAhead, on
  <1> QED
    BY <1>1, <1>3, <1>4, <1>5

\* The destructor of on() removes no waiter.
LEMMA RemovingDirectly ==
    ASSUME IndInv, NEW u \in UserListeners, Off(u)
    PROVE  IndInv'
  <1> USE DEF IndInv
  <1>1. CountIsExact' /\ RetriesAreLeft' /\ hasOpenRequests' = hasOpenRequests
    BY RequestsUntouched DEF Off
  <1>2. TypeOK' /\ _observer'.alive = _observer.alive
    BY RemoveKeeps DEF TypeOK, Off, http
  <1>3. ObserverKnowsWaiters'
    BY Removing, HttpAssumption DEF Off
  <1>4. WaitersAreAhead'
    BY <1>1, <1>2 DEF WaitersAreAhead, Off
  <1> QED
    BY <1>1, <1>2, <1>3, <1>4

\* destroy(): without an observer nothing is promised to waiters.
LEMMA DestroyingObserver ==
    ASSUME IndInv, destroy
    PROVE  IndInv'
  <1>1. CountIsExact' /\ RetriesAreLeft'
    BY RequestsUntouched DEF destroy
  <1>2. _observer' \in Observers(Listeners) /\ ~_observer'.alive
    BY EmptyObservers DEF destroy
  <1>3. TypeOK'
    BY <1>2 DEF IndInv, TypeOK, destroy, http
  <1> QED
    BY <1>1, <1>2, <1>3 DEF IndInv, ObserverKnowsWaiters, WaitersAreAhead

\* The code that waited goes on: it no longer waits.
LEMMA Continuing ==
    ASSUME IndInv, NEW w \in Waiters, Continue(w)
    PROVE  IndInv'
  <1> USE DEF IndInv
  <1>1. CountIsExact' /\ RetriesAreLeft' /\ hasOpenRequests' = hasOpenRequests
    BY RequestsUntouched DEF Continue
  <1>2. TypeOK' /\ \A m \in Waiters : waiter'[m] = "waiting" => waiter[m] = "waiting"
    BY DEF TypeOK, Continue, http
  <1>3. ObserverKnowsWaiters' /\ WaitersAreAhead'
    BY <1>1, <1>2 DEF ObserverKnowsWaiters, WaitersAreAhead, Continue
  <1> QED
    BY <1>1, <1>2, <1>3

\* The loop calls a waiter: it stops waiting or a request is open, and the others
\* stay ahead of the loop.
LEMMA CallingWaiter ==
    ASSUME IndInv, NEW w \in Waiters, CallWaiter(w)
    PROVE  IndInv'
  <1> USE DEF IndInv
  <1>1. CountIsExact' /\ RetriesAreLeft' /\ hasOpenRequests' = hasOpenRequests
    BY RequestsUntouched DEF CallWaiter
  <1>2. /\ rest' \in Seq(Listeners) /\ Len(rest) \in Nat
        /\ rest[1] = w /\ Len(rest') = Len(rest) - 1
        /\ \A i \in 1..Len(rest) - 1 : rest'[i] = rest[i + 1]
    BY TailByIndex DEF TypeOK, CallWaiter, Remainder
  <1>3. CASE hasOpenRequests
    <2>1. UNCHANGED <<_observer, waiter>>
      BY <1>3 DEF CallWaiter
    <2>2. TypeOK'
      BY <1>2, <2>1 DEF TypeOK, CallWaiter, http
    <2>3. ObserverKnowsWaiters' /\ WaitersAreAhead'
      BY <1>1, <1>3, <2>1 DEF ObserverKnowsWaiters, WaitersAreAhead
    <2> QED
      BY <1>1, <2>2, <2>3
  <1>4. CASE ~hasOpenRequests
    <2>1. /\ _observer' = removeListener(_observer, w)
          /\ waiter' = [waiter EXCEPT ![w] = "resolved"]
      BY <1>4 DEF CallWaiter
    <2>2. TypeOK' /\ _observer'.alive = _observer.alive
      BY <1>2, <2>1, RemoveKeeps DEF TypeOK, CallWaiter, http
    <2>3. \A m \in Waiters : waiter'[m] = "waiting" => waiter[m] = "waiting" /\ m # w
      BY <2>1 DEF TypeOK
    <2>4. ObserverKnowsWaiters'
      BY <2>1, <2>3, Removing
    <2>5. WaitersAreAhead'
      <3> SUFFICES ASSUME _observer.alive, NEW m \in Waiters, waiter[m] = "waiting", m # w
                   PROVE  loop' # "none" /\ \E i \in 1..Len(rest') : rest'[i] = m
        BY <1>1, <2>2, <2>3 DEF WaitersAreAhead
      <3>1. PICK i \in 1..Len(rest) : rest[i] = m
        BY <1>4 DEF WaitersAreAhead
      <3>2. i - 1 \in 1..Len(rest) - 1 /\ i - 1 + 1 = i
        BY <1>2, <3>1
      <3>3. i - 1 \in 1..Len(rest') /\ rest'[i - 1] = m
        BY <1>2, <3>1, <3>2
      <3> QED
        BY <3>3 DEF CallWaiter
    <2> QED
      BY <1>1, <2>2, <2>4, <2>5
  <1> QED
    BY <1>3, <1>4

\* The loop calls a listener of the user: the waiters stay ahead of the loop.
LEMMA CallingUser ==
    ASSUME IndInv, NEW u \in UserListeners, CallUser(u)
    PROVE  IndInv'
  <1> USE DEF IndInv
  <1>1. CountIsExact' /\ RetriesAreLeft' /\ hasOpenRequests' = hasOpenRequests
    BY RequestsUntouched DEF CallUser
  <1>2. /\ rest' \in Seq(Listeners) /\ Len(rest) \in Nat
        /\ rest[1] = u /\ Len(rest') = Len(rest) - 1
        /\ \A i \in 1..Len(rest) - 1 : rest'[i] = rest[i + 1]
    BY TailByIndex DEF TypeOK, CallUser, Remainder
  <1>3. TypeOK' /\ ObserverKnowsWaiters'
    BY <1>2 DEF TypeOK, ObserverKnowsWaiters, CallUser, http
  <1>4. WaitersAreAhead'
    <2> SUFFICES ASSUME _observer.alive, ~hasOpenRequests,
                        NEW m \in Waiters, waiter[m] = "waiting"
                 PROVE  loop' # "none" /\ \E i \in 1..Len(rest') : rest'[i] = m
      BY <1>1 DEF WaitersAreAhead, CallUser
    <2>1. PICK i \in 1..Len(rest) : rest[i] = m
      BY DEF WaitersAreAhead
    <2>2. m # u
      BY HttpAssumption
    <2>3. i - 1 \in 1..Len(rest) - 1 /\ i - 1 + 1 = i
      BY <1>2, <2>1, <2>2
    <2>4. i - 1 \in 1..Len(rest') /\ rest'[i - 1] = m
      BY <1>2, <2>1, <2>3
    <2> QED
      BY <2>4 DEF CallUser
  <1> QED
    BY <1>1, <1>3, <1>4

\* A listener returns: what the loop has ahead does not change.
LEMMA EndingListener ==
    ASSUME IndInv, ListenerEnds
    PROVE  IndInv'
  <1>1. CountIsExact' /\ RetriesAreLeft' /\ hasOpenRequests' = hasOpenRequests
    BY RequestsUntouched DEF ListenerEnds
  <1>2. TypeOK' /\ ObserverKnowsWaiters' /\ WaitersAreAhead'
    BY <1>1 DEF IndInv, TypeOK, ObserverKnowsWaiters, WaitersAreAhead, ListenerEnds, http
  <1> QED
    BY <1>1, <1>2 DEF IndInv

\* A loop that ends has nobody ahead of it, so nobody waits for nothing.
LEMMA EndingLoop ==
    ASSUME IndInv, LoopEnds
    PROVE  IndInv'
  <1>1. CountIsExact' /\ RetriesAreLeft' /\ hasOpenRequests' = hasOpenRequests
    BY RequestsUntouched DEF LoopEnds
  <1>2. TypeOK' /\ ObserverKnowsWaiters'
    BY DEF IndInv, TypeOK, ObserverKnowsWaiters, LoopEnds, http
  <1>3. ASSUME NEW w \in Waiters, waiter[w] = "waiting", _observer.alive, ~hasOpenRequests
        PROVE  FALSE
    <2>1. \E i \in 1..Len(rest) : rest[i] = w
      BY <1>3 DEF IndInv, WaitersAreAhead
    <2>2. rest = <<>>
      BY DEF LoopEnds
    <2> QED
      BY <2>1, <2>2
  <1>4. WaitersAreAhead'
    BY <1>1, <1>3 DEF WaitersAreAhead, LoopEnds
  <1> QED
    BY <1>1, <1>2, <1>4 DEF IndInv

------------------------------------------------------------------------------
\* The invariant is preserved by every step, and so holds throughout.
THEOREM StepPreserves == IndInv /\ [Next]_vars => IndInv'
  <1> SUFFICES ASSUME IndInv, [Next]_vars PROVE IndInv'
    OBVIOUS
  <1>1. CASE \E r \in Requests : Start(r) \/ Settle(r) \/ _waitForRetry(r) \/ Finish(r)
    BY <1>1, Starting, Settling, Finishing
  <1>2. CASE \E w \in Waiters : waitUntilNoOpenRequests(w) \/ Continue(w)
    BY <1>2, Waiting, Continuing
  <1>3. CASE \E u \in UserListeners : on(u) \/ Off(u)
    BY <1>3, ListeningDirectly, RemovingDirectly
  <1>4. CASE \E n \in Limits : setRequestLimit(n)
    BY <1>4, ChangingTheLimit
  <1>5. CASE destroy
    BY <1>5, DestroyingObserver
  <1>6. CASE Loop
    BY <1>6, CallingWaiter, CallingUser, EndingListener, EndingLoop DEF Loop
  <1>7. CASE UNCHANGED vars
    BY <1>7 DEF vars, http, events, IndInv, TypeOK, CountIsExact, Open, RetriesAreLeft,
                ObserverKnowsWaiters, WaitersAreAhead, hasOpenRequests
  <1> QED
    BY <1>1, <1>2, <1>3, <1>4, <1>5, <1>6, <1>7 DEF Next

\* The invariant holds in every state of the service.
THEOREM IndInvAlways == Spec => []IndInv
  <1> QED
    BY InitEstablishes, StepPreserves, PTL DEF Spec

\* The types of the variables; in particular no request is attempted more often
\* than its policy allows.
THEOREM TypeCorrect == Spec => []TypeOK
  <1>1. IndInv => TypeOK
    BY DEF IndInv
  <1> QED
    BY <1>1, IndInvAlways, PTL

\* The count is the number of open requests, through all retries and failures.
THEOREM CountStaysExact == Spec => []CountIsExact
  <1>1. IndInv => CountIsExact
    BY DEF IndInv
  <1> QED
    BY <1>1, IndInvAlways, PTL

\* Nobody is left waiting when no request is open.
THEOREM NobodyIsLeftWaiting == Spec => []NobodyWaitsForNothing
  <1>1. IndInv => NobodyWaitsForNothing
    BY DEF IndInv, WaitersAreAhead, NobodyWaitsForNothing
  <1> QED
    BY <1>1, IndInvAlways, PTL

\* No step lets a request in beyond the limit in force.
THEOREM LimitAlwaysHolds == Spec => LimitHolds
  <1> DEFINE Holds == \A r \in Requests : request[r] = "none" /\ request'[r] # "none"
                                         => Cardinality(Open') <= _requestLimit
  <1>1. IndInv /\ [Next]_vars => [Holds]_vars
    <2> SUFFICES ASSUME IndInv, Next, NEW r \in Requests,
                        request[r] = "none", request'[r] # "none"
                 PROVE  Cardinality(Open') <= _requestLimit
      OBVIOUS
    <2>1. PICK q \in Requests : Start(q)
      BY DEF Next, Settle, Answer, GiveUp, Retry, _waitForRetry, Finish, Loop, CallWaiter,
             CallUser, ListenerEnds, LoopEnds, waitUntilNoOpenRequests, Continue, on, Off,
             setRequestLimit, destroy, http, IndInv, TypeOK
    <2>2. CountIsExact' /\ _requestCount' = _requestCount + 1
      BY <2>1, Starting DEF IndInv, Start
    <2>3. _requestCount < _requestLimit /\ _requestCount \in Nat /\ _requestLimit \in Nat
      BY <2>1, HttpAssumption DEF Start, LimitReached, IndInv, TypeOK
    <2> QED
      BY <2>2, <2>3 DEF CountIsExact
  <1> QED
    BY <1>1, IndInvAlways, PTL DEF Spec, LimitHolds

==============================================================================
