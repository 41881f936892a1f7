------------------------ MODULE DestroyService_proofs ------------------------
(***************************************************************************)
(* Proofs about DestroyService, for any registrations, callbacks and       *)
(* bounds: destroy() calls every listener it owes a call, once, however    *)
(* the listeners re-enter the service.                                     *)
(*                                                                         *)
(* The invariant follows a registration whose call is owed: while nobody   *)
(* destroys the service, its observer has it (ObserverKnowsOwed); from the *)
(* moment the outermost destroy() takes the array, that loop has it among  *)
(* the listeners it has yet to reach (OwedIsAhead), and reaching it means  *)
(* that it is called or that nothing is owed to it (Accounted).            *)
(***************************************************************************)
EXTENDS DestroyService, SequenceFacts

\* Replacing the last element of a sequence.
LEMMA LastReplaced ==
    ASSUME NEW S, NEW s \in Seq(S), s # <<>>, NEW x \in S
    PROVE  /\ s[Len(s)] \in S
           /\ [s EXCEPT ![Len(s)] = x] \in Seq(S)
           /\ [s EXCEPT ![Len(s)] = x] # <<>>
           /\ [s EXCEPT ![Len(s)] = x][1] = IF Len(s) = 1 THEN x ELSE s[1]
  OBVIOUS

\* Removing the last element of a sequence.
LEMMA LastRemoved ==
    ASSUME NEW S, NEW s \in Seq(S), s # <<>>
    PROVE  /\ SubSeq(s, 1, Len(s) - 1) \in Seq(S)
           /\ SubSeq(s, 1, Len(s) - 1) = <<>> <=> Len(s) = 1
           /\ Len(s) # 1 => SubSeq(s, 1, Len(s) - 1)[1] = s[1]
  <1> DEFINE n == Len(s) - 1
             t == SubSeq(s, 1, n)
  <1>1. Len(s) \in Nat /\ n \in Nat /\ n =< Len(s)
    OBVIOUS
  <1> HIDE DEF n
  <1>2. /\ t \in Seq(S)
        /\ Len(t) = IF 1 =< n THEN n - 1 + 1 ELSE 0
        /\ \A i \in 1..n - 1 + 1 : t[i] = s[1 + i - 1]
    BY <1>1, SubSeqByIndex
  <1> HIDE DEF t
  <1>3. Len(t) = n
    BY <1>1, <1>2
  <1>5. n # 0 => t[1] = s[1]
    <2>1. n # 0 => 1 \in 1..n - 1 + 1
      BY <1>1
    <2>2. n # 0 => t[1] = s[1 + 1 - 1]
      BY <1>2, <2>1
    <2> QED
      BY <2>2
  <1>4. t = <<>> <=> Len(t) = 0
    BY <1>2
  <1> QED
    BY <1>1, <1>2, <1>3, <1>4, <1>5 DEF n, t

\* A new service satisfies the invariant: nothing is registered, called or owed.
LEMMA InitEstablishes == Init => IndInv
  <1> SUFFICES ASSUME Init PROVE IndInv
    OBVIOUS
  <1>1. TypeOK
    <2>1. <<>> \in Seq(Listeners) /\ <<>> \in Seq(Frame)
      BY EmptySeq
    <2>2. _observer \in Observers(Listeners)
      BY EmptyObservers DEF Init
    <2>3. stack \in Seq(Frame)
      BY <2>1 DEF Init
    <2> QED
      BY <2>2, <2>3 DEF Init, TypeOK
  <1>2. Accounted /\ ObserverKnowsOwed /\ OwedIsAhead
    BY DEF Init, Accounted, ObserverKnowsOwed, OwedIsAhead, newObserver
  <1> QED
    BY <1>1, <1>2 DEF IndInv

------------------------------------------------------------------------------
\* The steps.  Each shows what it does to the listeners of the observer and to
\* the first frame of the stack; the rest follows.

\* While a destroy() is in progress the topmost frame is a frame of the stack.
LEMMA TopIsFrame ==
    ASSUME TypeOK, stack # <<>>
    PROVE  /\ top \in Frame
           /\ top.rest \in Seq(Listeners) /\ top.running \in BOOLEAN
           /\ Len(stack) = 1 => top = stack[1]
           /\ stack[1] \in Frame
  <1>1. stack \in Seq(Frame) /\ Len(stack) \in Nat /\ Len(stack) > 0
    BY DEF TypeOK
  <1>2. top \in Frame /\ stack[1] \in Frame
    BY <1>1 DEF top
  <1> QED
    BY <1>1, <1>2 DEF top, Frame

\* addDestroyListener: the observer knows the new registration before anybody
\* can owe it a call.
LEMMA Registering ==
    ASSUME IndInv, NEW l \in Registrations, addDestroyListener(l)
    PROVE  IndInv'
  <1> USE DEF IndInv
  <1>1. l \in Listeners
    BY DEF Listeners
  <1>2. TypeOK'
    BY <1>1, ListenKeeps DEF TypeOK, addDestroyListener
  <1>3. Accounted'
    BY DEF Accounted, TypeOK, addDestroyListener
  <1>6. /\ _observer'.alive = _observer.alive
        /\ \A y : y = l \/ (\E i \in 1..Len(_observer.listeners) : _observer.listeners[i] = y)
                => \E j \in 1..Len(_observer'.listeners) : _observer'.listeners[j] = y
    <2>1. _observer \in Observers(Listeners) /\ _observer' = listenEvent(_observer, l)
      BY DEF TypeOK, addDestroyListener
    <2>2. listenEvent(_observer, l).alive = _observer.alive
      BY <1>1, <2>1, ListenKeeps
    <2>3. ASSUME NEW y, y = l \/ \E i \in 1..Len(_observer.listeners) : _observer.listeners[i] = y
          PROVE  \E j \in 1..Len(listenEvent(_observer, l).listeners) :
                     listenEvent(_observer, l).listeners[j] = y
      BY <1>1, <2>1, <2>3, ListenKnows
    <2> QED
      BY <2>1, <2>2, <2>3
  <1>4. ObserverKnowsOwed'
    <2>1. _observer.alive /\ _observer'.alive /\ ~_isDestroyed'
      BY <1>6 DEF addDestroyListener, ObserverKnowsOwed
    <2>2. ASSUME NEW m \in Registrations, destructor'[m] = "assigned"
          PROVE  \E i \in 1..Len(_observer'.listeners) : _observer'.listeners[i] = m
      <3>1. CASE m = l
        BY <1>6, <3>1
      <3>2. CASE m # l
        <4>1. destructor[m] = "assigned"
          BY <2>2, <3>2 DEF TypeOK, addDestroyListener
        <4>2. PICK i \in 1..Len(_observer.listeners) : _observer.listeners[i] = m
          BY <2>1, <4>1 DEF ObserverKnowsOwed
        <4> QED
          BY <1>6, <4>2
      <3> QED
        BY <3>1, <3>2
    <2> QED
      BY <2>1, <2>2 DEF ObserverKnowsOwed
  <1>5. OwedIsAhead'
    <2>1. ~_isDestroyed
      BY DEF TypeOK, addDestroyListener, ObserverKnowsOwed
    <2>2. \A m \in early' : m # l \/ stack # <<>> => m \in early
      BY DEF addDestroyListener
    <2>3. stack # <<>> => l \notin early
      BY DEF addDestroyListener, Accounted
    <2> QED
      BY <2>1, <2>2, <2>3 DEF OwedIsAhead, addDestroyListener, TypeOK
  <1> QED
    BY <1>2, <1>3, <1>4, <1>5

\* Removing a listener that is owed nothing any more.
LEMMA Removing ==
    ASSUME IndInv, NEW x, _observer' = removeListener(_observer, x),
           _isDestroyed' = _isDestroyed,
           \A m \in Registrations : destructor'[m] = "assigned"
                                     => destructor[m] = "assigned" /\ m # x
    PROVE  ObserverKnowsOwed'
  <1> USE DEF IndInv
  <1>1. _observer \in Observers(Listeners)
    BY DEF TypeOK
  <1>2. _observer'.alive = ~_isDestroyed'
    BY <1>1, RemoveKeeps DEF ObserverKnowsOwed
  <1>3. ~_observer'.alive => _observer'.listeners = <<>>
    BY <1>1, RemoveKeeps DEF ObserverKnowsOwed
  <1>4. ASSUME NEW m \in Registrations, destructor'[m] = "assigned", _observer'.alive
        PROVE  \E i \in 1..Len(_observer'.listeners) : _observer'.listeners[i] = m
    <2>1. PICK i \in 1..Len(_observer.listeners) : _observer.listeners[i] = m
      BY <1>1, <1>4, RemoveKeeps DEF ObserverKnowsOwed
    <2> QED
      BY <1>1, <1>4, <2>1, RemoveKeeps
  <1> QED
    BY <1>2, <1>3, <1>4 DEF ObserverKnowsOwed

\* The destructor of a registration: its call is no longer owed, and removing it
\* from the observer keeps the others.
LEMMA Cancelling ==
    ASSUME IndInv, NEW l \in Registrations, Cancel(l)
    PROVE  IndInv'
  <1> USE DEF IndInv
  <1>1. TypeOK'
    BY RemoveKeeps DEF TypeOK, Cancel
  <1>2. Accounted'
    BY DEF Accounted, TypeOK, Cancel
  <1>3. ObserverKnowsOwed'
    BY Removing DEF TypeOK, Cancel
  <1>4. OwedIsAhead'
    BY DEF OwedIsAhead, TypeOK, Cancel
  <1> QED
    BY <1>1, <1>2, <1>3, <1>4

\* on(): a further listener hides none of those that are registered.
LEMMA ListeningDirectly ==
    ASSUME IndInv, NEW f \in Callbacks, on(f)
    PROVE  IndInv'
  <1> USE DEF IndInv
  <1>1. f \in Listeners
    BY DEF Listeners
  <1>2. TypeOK'
    BY <1>1, ListenKeeps DEF TypeOK, on
  <1>3. Accounted' /\ OwedIsAhead'
    BY DEF Accounted, OwedIsAhead, on
  <1>5. /\ _observer'.alive = _observer.alive
        /\ \A y : y = f \/ (\E i \in 1..Len(_observer.listeners) : _observer.listeners[i] = y)
                => \E j \in 1..Len(_observer'.listeners) : _observer'.listeners[j] = y
    <2>1. _observer \in Observers(Listeners) /\ _observer' = listenEvent(_observer, f)
      BY DEF TypeOK, on
    <2>2. listenEvent(_observer, f).alive = _observer.alive
      BY <1>1, <2>1, ListenKeeps
    <2>3. ASSUME NEW y, y = f \/ \E i \in 1..Len(_observer.listeners) : _observer.listeners[i] = y
          PROVE  \E j \in 1..Len(listenEvent(_observer, f).listeners) :
                     listenEvent(_observer, f).listeners[j] = y
      BY <1>1, <2>1, <2>3, ListenKnows
    <2> QED
      BY <2>1, <2>2, <2>3
  <1>4. ObserverKnowsOwed'
    <2>1. _observer.alive /\ _observer'.alive = ~_isDestroyed' /\ _observer'.alive
      BY <1>5 DEF on, ObserverKnowsOwed
    <2>2. ASSUME NEW m \in Registrations, destructor'[m] = "assigned"
          PROVE  \E i \in 1..Len(_observer'.listeners) : _observer'.listeners[i] = m
      <3>1. PICK i \in 1..Len(_observer.listeners) : _observer.listeners[i] = m
        BY <2>1, <2>2 DEF ObserverKnowsOwed, on
      <3> QED
        BY <1>5, <3>1
    <2> QED
      BY <2>1, <2>2 DEF ObserverKnowsOwed
  <1> QED
    BY <1>2, <1>3, <1>4

\* The destructor of on(), called any number of times, removes no registration.
LEMMA RemovingDirectly ==
    ASSUME IndInv, NEW f \in Callbacks, Off(f)
    PROVE  IndInv'
  <1> USE DEF IndInv
  <1>1. TypeOK'
    BY RemoveKeeps DEF TypeOK, Off
  <1>2. Accounted' /\ OwedIsAhead'
    BY DEF Accounted, OwedIsAhead, Off
  <1>3. ObserverKnowsOwed'
    BY Removing, ListenersAssumption DEF Off
  <1> QED
    BY <1>1, <1>2, <1>3

\* What a step of the loop in the topmost destroy() does to the stack.
LEMMA LoopStep ==
    ASSUME IndInv, LoopIsAtListener, NEW r \in BOOLEAN,
           stack' = [stack EXCEPT ![Len(stack)] = [rest |-> rest, running |-> r]]
    PROVE  /\ Head(top.rest) \in Listeners
           /\ stack' \in Seq(Frame) /\ stack' # <<>>
           /\ \A l : /\ l # Head(top.rest)
                     /\ \E i \in 1..Len(stack[1].rest) : stack[1].rest[i] = l
                     => \E i \in 1..Len(stack'[1].rest) : stack'[1].rest[i] = l
  <1> DEFINE fr == [rest |-> rest, running |-> r]
  <1>1. /\ stack \in Seq(Frame) /\ stack # <<>>
        /\ top.rest \in Seq(Listeners) /\ top.rest # <<>>
        /\ Len(stack) = 1 => top = stack[1]
    BY TopIsFrame DEF IndInv, TypeOK, LoopIsAtListener
  <1>2. /\ Len(top.rest) \in Nat /\ Len(top.rest) > 0
        /\ Head(top.rest) = top.rest[1] /\ Head(top.rest) \in Listeners
        /\ rest \in Seq(Listeners) /\ Len(rest) = Len(top.rest) - 1
        /\ \A i \in 1..Len(top.rest) - 1 : rest[i] = top.rest[i + 1]
    BY <1>1, TailByIndex DEF rest
  <1>3. fr \in Frame
    BY <1>2 DEF Frame
  <1>4. /\ stack' \in Seq(Frame) /\ stack' # <<>>
        /\ stack'[1] = IF Len(stack) = 1 THEN fr ELSE stack[1]
    BY <1>1, <1>3, LastReplaced
  <1>5. ASSUME NEW l, l # Head(top.rest),
               NEW i \in 1..Len(stack[1].rest), stack[1].rest[i] = l
        PROVE  \E j \in 1..Len(stack'[1].rest) : stack'[1].rest[j] = l
    <2>1. CASE Len(stack) # 1
      BY <1>4, <1>5, <2>1
    <2>2. CASE Len(stack) = 1
      <3>1. stack'[1].rest = rest /\ stack[1] = top
        BY <1>1, <1>4, <2>2
      <3>2. i \in 1..Len(top.rest) /\ top.rest[i] = l
        BY <1>5, <3>1
      <3>3. i - 1 \in 1..Len(top.rest) - 1 /\ i - 1 + 1 = i
        BY <1>2, <1>5, <3>2
      <3>4. i - 1 \in 1..Len(rest) /\ rest[i - 1] = l
        BY <1>2, <3>2, <3>3
      <3> QED
        BY <3>1, <3>4
    <2> QED
      BY <2>1, <2>2
  <1> QED
    BY <1>2, <1>4, <1>5

\* The loop calls a registration: it is called for the first time, and the rest of
\* the outermost loop still has the others.
LEMMA CallingRegistration ==
    ASSUME IndInv, NEW l \in Registrations, CallRegistration(l)
    PROVE  IndInv'
  <1> USE DEF IndInv
  <1>1. /\ stack' \in Seq(Frame) /\ stack' # <<>>
        /\ \A m : /\ m # l
                  /\ \E i \in 1..Len(stack[1].rest) : stack[1].rest[i] = m
                  => \E i \in 1..Len(stack'[1].rest) : stack'[1].rest[i] = m
    BY LoopStep DEF CallRegistration
  <1>2. TypeOK'
    BY <1>1, RemoveKeeps DEF TypeOK, CallRegistration
  <1>3. Accounted'
    BY DEF Accounted, TypeOK, CallRegistration
  <1>4. ObserverKnowsOwed'
    BY Removing DEF TypeOK, CallRegistration
  <1>5. OwedIsAhead'
    <2> SUFFICES ASSUME NEW m \in early, destructor'[m] = "assigned"
                 PROVE  \E i \in 1..Len(stack'[1].rest) : stack'[1].rest[i] = m
      BY <1>1 DEF OwedIsAhead, CallRegistration
    <2>1. m \in Registrations /\ m # l /\ destructor[m] = "assigned"
      BY DEF TypeOK, CallRegistration
    <2>2. \E i \in 1..Len(stack[1].rest) : stack[1].rest[i] = m
      BY <2>1 DEF OwedIsAhead, CallRegistration, LoopIsAtListener
    <2> QED
      BY <1>1, <2>1, <2>2
  <1> QED
    BY <1>2, <1>3, <1>4, <1>5

\* The loop passes a registration whose destructor is gone: nobody is owed less.
LEMMA SkippingRegistration ==
    ASSUME IndInv, NEW l \in Registrations, SkipRegistration(l)
    PROVE  IndInv'
  <1> USE DEF IndInv
  <1>1. /\ stack' \in Seq(Frame) /\ stack' # <<>>
        /\ \A m : /\ m # l
                  /\ \E i \in 1..Len(stack[1].rest) : stack[1].rest[i] = m
                  => \E i \in 1..Len(stack'[1].rest) : stack'[1].rest[i] = m
    BY LoopStep DEF SkipRegistration
  <1>2. TypeOK' /\ Accounted' /\ ObserverKnowsOwed'
    BY <1>1 DEF TypeOK, Accounted, ObserverKnowsOwed, SkipRegistration
  <1>3. OwedIsAhead'
    <2> SUFFICES ASSUME NEW m \in early, destructor[m] = "assigned"
                 PROVE  \E i \in 1..Len(stack'[1].rest) : stack'[1].rest[i] = m
      BY <1>1 DEF OwedIsAhead, SkipRegistration
    <2>1. m # l
      BY DEF SkipRegistration
    <2>2. \E i \in 1..Len(stack[1].rest) : stack[1].rest[i] = m
      BY DEF OwedIsAhead, SkipRegistration, LoopIsAtListener
    <2> QED
      BY <1>1, <2>1, <2>2
  <1> QED
    BY <1>2, <1>3

\* The loop calls a function given to on(): no registration is passed over.
LEMMA CallingCallback ==
    ASSUME IndInv, NEW f \in Callbacks, CallCallback(f)
    PROVE  IndInv'
  <1> USE DEF IndInv
  <1>1. /\ stack' \in Seq(Frame) /\ stack' # <<>>
        /\ \A m : /\ m # f
                  /\ \E i \in 1..Len(stack[1].rest) : stack[1].rest[i] = m
                  => \E i \in 1..Len(stack'[1].rest) : stack'[1].rest[i] = m
    BY LoopStep DEF CallCallback
  <1>2. TypeOK' /\ Accounted' /\ ObserverKnowsOwed'
    BY <1>1 DEF TypeOK, Accounted, ObserverKnowsOwed, CallCallback
  <1>3. OwedIsAhead'
    <2> SUFFICES ASSUME NEW m \in early, destructor[m] = "assigned"
                 PROVE  \E i \in 1..Len(stack'[1].rest) : stack'[1].rest[i] = m
      BY <1>1 DEF OwedIsAhead, CallCallback
    <2>1. m # f
      BY ListenersAssumption DEF TypeOK
    <2>2. \E i \in 1..Len(stack[1].rest) : stack[1].rest[i] = m
      BY DEF OwedIsAhead, CallCallback, LoopIsAtListener
    <2> QED
      BY <1>1, <2>1, <2>2
  <1> QED
    BY <1>2, <1>3

\* A listener returns: only its frame changes, and not what the frame has ahead.
LEMMA EndingListener ==
    ASSUME IndInv, ListenerEnds
    PROVE  IndInv'
  <1> USE DEF IndInv
  <1> DEFINE fr == [rest |-> top.rest, running |-> FALSE]
  <1>1. /\ stack \in Seq(Frame) /\ stack # <<>> /\ top.rest \in Seq(Listeners)
        /\ Len(stack) = 1 => top = stack[1]
    BY TopIsFrame DEF TypeOK, ListenerEnds
  <1>2. fr \in Frame
    BY <1>1 DEF Frame
  <1>3. /\ stack' \in Seq(Frame) /\ stack' # <<>>
        /\ stack'[1] = IF Len(stack) = 1 THEN fr ELSE stack[1]
    BY <1>1, <1>2, LastReplaced DEF ListenerEnds
  <1>4. stack'[1].rest = stack[1].rest
    BY <1>1, <1>3
  <1>5. TypeOK' /\ Accounted' /\ ObserverKnowsOwed'
    BY <1>3 DEF TypeOK, Accounted, ObserverKnowsOwed, ListenerEnds
  <1>6. OwedIsAhead'
    BY <1>1, <1>3, <1>4 DEF OwedIsAhead, ListenerEnds
  <1> QED
    BY <1>5, <1>6

\* destroy() begins: the outermost frame has everybody who is registered ahead of
\* itself; without listeners nobody is owed a call.
LEMMA Destroying ==
    ASSUME IndInv, destroy, destroyed' \in BOOLEAN
    PROVE  IndInv'
  <1> USE DEF IndInv
  <1>1. Accounted'
    BY DEF Accounted, destroy
  <1>2. CASE /\ ~hasCallbacks(_observer)
             /\ _observer' = destroyedObserver
             /\ _isDestroyed' = TRUE
             /\ stack' = stack
    <2>1. TypeOK' /\ ObserverKnowsOwed'
      BY <1>2, EmptyObservers DEF TypeOK, ObserverKnowsOwed, destroy
    <2>2. OwedIsAhead'
      <3>1. ASSUME NEW m \in early, destructor[m] = "assigned", stack = <<>>
            PROVE  FALSE
        <4>1. \E i \in 1..Len(_observer.listeners) : _observer.listeners[i] = m
          BY <3>1 DEF TypeOK, OwedIsAhead, ObserverKnowsOwed
        <4>2. _observer.listeners = <<>>
          BY <1>2 DEF hasCallbacks
        <4> QED
          BY <4>1, <4>2
      <3> QED
        BY <1>2, <3>1 DEF OwedIsAhead, destroy
    <2> QED
      BY <1>1, <2>1, <2>2
  <1>3. CASE /\ stack' = Append(stack, [rest |-> _observer.listeners, running |-> FALSE])
             /\ _observer' = _observer /\ _isDestroyed' = _isDestroyed
    <2> DEFINE fr == [rest |-> _observer.listeners, running |-> FALSE]
    <2>1. fr \in Frame /\ stack \in Seq(Frame)
      BY DEF TypeOK, Frame, Observers
    <2>2. /\ stack' \in Seq(Frame) /\ stack' # <<>>
          /\ stack'[1] = IF stack = <<>> THEN fr ELSE stack[1]
      BY <1>3, <2>1
    <2>3. TypeOK' /\ ObserverKnowsOwed'
      BY <1>3, <2>2 DEF TypeOK, ObserverKnowsOwed, destroy
    <2>4. OwedIsAhead'
      <3> SUFFICES ASSUME NEW m \in early, destructor[m] = "assigned"
                   PROVE  \E i \in 1..Len(stack'[1].rest) : stack'[1].rest[i] = m
        BY <2>2 DEF OwedIsAhead, destroy
      <3>1. CASE stack = <<>>
        <4>1. \E i \in 1..Len(_observer.listeners) : _observer.listeners[i] = m
          BY <3>1 DEF TypeOK, OwedIsAhead, ObserverKnowsOwed
        <4>2. stack'[1].rest = _observer.listeners
          BY <2>2, <3>1
        <4> QED
          BY <4>1, <4>2
      <3>2. CASE stack # <<>>
        BY <2>2, <3>2 DEF OwedIsAhead
      <3> QED
        BY <3>1, <3>2
    <2> QED
      BY <1>1, <2>3, <2>4
  <1> QED
    BY <1>2, <1>3 DEF destroy

\* destroy() ends: an inner one leaves the outermost frame alone, the outermost one
\* ends only when nobody from before it is owed a call.
LEMMA EndingDestroy ==
    ASSUME IndInv, DestroyEnds
    PROVE  IndInv'
  <1> USE DEF IndInv
  <1>1. /\ stack \in Seq(Frame) /\ stack # <<>> /\ top.rest = <<>>
        /\ Len(stack) = 1 => top = stack[1]
    BY TopIsFrame DEF TypeOK, DestroyEnds
  <1>2. /\ stack' \in Seq(Frame)
        /\ stack' = <<>> <=> Len(stack) = 1
        /\ Len(stack) # 1 => stack'[1] = stack[1]
    BY <1>1, LastRemoved DEF DestroyEnds
  <1>3. TypeOK' /\ Accounted' /\ ObserverKnowsOwed'
    BY <1>2, EmptyObservers DEF TypeOK, Accounted, ObserverKnowsOwed, DestroyEnds
  <1>4. OwedIsAhead'
    <2> SUFFICES ASSUME NEW m \in early, destructor[m] = "assigned"
                 PROVE  /\ stack' # <<>>
                        /\ \E i \in 1..Len(stack'[1].rest) : stack'[1].rest[i] = m
      BY DEF OwedIsAhead, DestroyEnds
    <2>1. PICK i \in 1..Len(stack[1].rest) : stack[1].rest[i] = m
      BY <1>1 DEF OwedIsAhead
    <2>2. Len(stack) # 1
      BY <1>1, <2>1
    <2> QED
      BY <1>2, <2>1, <2>2
  <1> QED
    BY <1>3, <1>4

------------------------------------------------------------------------------
\* The invariant is preserved by every step, and so holds throughout.
THEOREM StepPreserves == IndInv /\ [Next]_vars => IndInv'
  <1> SUFFICES ASSUME IndInv, [Next]_vars PROVE IndInv'
    OBVIOUS
  <1>1. CASE \E l \in Registrations : \/ addDestroyListener(l) \/ Cancel(l)
                                      \/ CallRegistration(l) \/ SkipRegistration(l)
    BY <1>1, Registering, Cancelling, CallingRegistration, SkippingRegistration
  <1>2. CASE \E f \in Callbacks : on(f) \/ Off(f) \/ CallCallback(f)
    BY <1>2, ListeningDirectly, RemovingDirectly, CallingCallback
  <1>3. CASE UserDestroys
    BY <1>3, Destroying DEF UserDestroys, IndInv, TypeOK
  <1>4. CASE closeProcess
    BY <1>4, Destroying DEF closeProcess
  <1>5. CASE ListenerEnds
    BY <1>5, EndingListener
  <1>6. CASE DestroyEnds
    BY <1>6, EndingDestroy
  <1>7. CASE UNCHANGED vars
    BY <1>7 DEF vars, IndInv, TypeOK, Accounted, ObserverKnowsOwed, OwedIsAhead
  <1> QED
    BY <1>1, <1>2, <1>3, <1>4, <1>5, <1>6, <1>7 DEF Next

\* The invariant holds in every state of the service.
THEOREM IndInvAlways == Spec => []IndInv
  <1> QED
    BY InitEstablishes, StepPreserves, PTL DEF Spec

\* The types of the variables, for any registrations and callbacks.
THEOREM TypeCorrect == Spec => []TypeOK
  <1>1. IndInv => TypeOK
    BY DEF IndInv
  <1> QED
    BY <1>1, IndInvAlways, PTL

\* No nesting of destroy() calls makes a listener be called twice.
THEOREM NobodyIsCalledTwice == Spec => []CalledAtMostOnce
  <1>1. IndInv => CalledAtMostOnce
    <2> SUFFICES ASSUME IndInv, NEW l \in Registrations
                 PROVE  calls[l] <= 1
      BY DEF CalledAtMostOnce
    <2>1. destructor[l] = "undefined" \/ destructor[l] # "undefined"
      OBVIOUS
    <2> QED
      BY <2>1 DEF IndInv, Accounted
  <1> QED
    BY <1>1, IndInvAlways, PTL

\* A listener cancelled before its call is not called by any loop.
THEOREM CancellingHolds == Spec => []CancelledIsNotCalled
  <1>1. IndInv => CancelledIsNotCalled
    BY DEF IndInv, TypeOK, Accounted, CancelledIsNotCalled
  <1> QED
    BY <1>1, IndInvAlways, PTL

\* When the outermost destroy() is over, every listener registered before it
\* was called or had been cancelled.
THEOREM EarlyListenersAreServed == Spec => []NobodyIsSkipped
  <1>1. IndInv => NobodyIsSkipped
    <2> SUFFICES ASSUME IndInv, DestroyIsOver, NEW l \in early
                 PROVE  calls[l] = 1 \/ l \in cancelled
      BY DEF NobodyIsSkipped
    <2>1. l \in Registrations /\ destructor[l] # "assigned"
      BY DEF IndInv, TypeOK, OwedIsAhead, DestroyIsOver
    <2>2. destructor[l] = "undefined"
      BY <2>1 DEF IndInv, TypeOK, Accounted
    <2> QED
      BY <2>1, <2>2 DEF IndInv, Accounted
  <1> QED
    BY <1>1, IndInvAlways, PTL

==============================================================================
