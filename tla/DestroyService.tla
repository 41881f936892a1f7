--------------------------- MODULE DestroyService ---------------------------
(***************************************************************************)
(* DestroyServiceImpl, its Observer, and the process signals that lead to  *)
(* destroy().                                                              *)
(*                                                                         *)
(* Everything here is synchronous.  What makes it hard is re-entrancy: the *)
(* listeners that destroy() calls may themselves register and cancel       *)
(* listeners and call destroy() again, in the middle of its loop.  The     *)
(* stack holds one frame for each destroy() that has not returned: the     *)
(* listeners its loop has yet to call, and whether the latest one of them  *)
(* is still running.  User code runs when the stack is empty or the        *)
(* listener of the topmost frame is running.                               *)
(***************************************************************************)
EXTENDS Naturals, Observer

CONSTANTS Registrations,   \* calls of addDestroyListener or registerDisposable
          Callbacks,       \* functions given to on() directly
          MaxListeners,    \* bound on the listeners registered at once
          MaxDepth         \* bound on the depth of nested destroy() calls

ASSUME ListenersAssumption ==
    /\ Registrations \cap Callbacks = {}
    /\ MaxListeners \in Nat /\ MaxDepth \in Nat

VARIABLES _observer,
          _isDestroyed,
          destructor,      \* the destructor variable of each registration
          destroyed,       \* setupDestroyHandler: has a signal been handled?
          stack,           \* the destroy() calls in progress
          calls,           \* history: how often each registration was called
          cancelled,       \* history: registrations cancelled before a call
          early            \* history: registrations made before any destroy()

vars == <<_observer, _isDestroyed, destructor, destroyed, stack, calls, cancelled, early>>

Listeners == Registrations \cup Callbacks
Frame == [rest : Seq(Listeners), running : BOOLEAN]

Init ==
    /\ _observer = newObserver
    /\ _isDestroyed = FALSE
    /\ destructor = [l \in Registrations |-> "unassigned"]
    /\ destroyed = FALSE
    /\ stack = <<>>
    /\ calls = [l \in Registrations |-> 0]
    /\ cancelled = {}
    /\ early = {}

top == stack[Len(stack)]
UserCodeRuns == stack # <<>> => top.running

------------------------------------------------------------------------------
\* What user code may do.

\* Once the observer is destroyed this throws and registers nothing.
addDestroyListener(l) ==
    /\ UserCodeRuns
    /\ destructor[l] = "unassigned"
    /\ _observer.alive
    /\ Len(_observer.listeners) < MaxListeners
    /\ _observer' = listenEvent(_observer, l)
    /\ destructor' = [destructor EXCEPT ![l] = "assigned"]
    /\ early' = IF stack = <<>> THEN early \cup {l} ELSE early
    /\ UNCHANGED <<_isDestroyed, destroyed, stack, calls, cancelled>>

\* Fault: the destructor removes the listener and does not remember it.
CancelForgets(l) ==
    /\ UserCodeRuns
    /\ destructor[l] = "assigned"
    /\ _observer' = removeListener(_observer, l)
    /\ cancelled' = cancelled \cup {l}
    /\ UNCHANGED <<_isDestroyed, destructor, destroyed, stack, calls, early>>

\* The destructor that addDestroyListener returned.
Cancel(l) ==
    /\ UserCodeRuns
    /\ destructor[l] = "assigned"
    /\ _observer' = removeListener(_observer, l)
    /\ destructor' = [destructor EXCEPT ![l] = "undefined"]
    /\ cancelled' = cancelled \cup {l}
    /\ UNCHANGED <<_isDestroyed, destroyed, stack, calls, early>>

on(f) ==
    /\ UserCodeRuns
    /\ _observer.alive
    /\ Len(_observer.listeners) < MaxListeners
    /\ _observer' = listenEvent(_observer, f)
    /\ UNCHANGED <<_isDestroyed, destructor, destroyed, stack, calls, cancelled, early>>

\* The destructor that on() returned: nothing keeps it from being called twice.
Off(f) ==
    /\ UserCodeRuns
    /\ _observer' = removeListener(_observer, f)
    /\ UNCHANGED <<_isDestroyed, destructor, destroyed, stack, calls, cancelled, early>>

\* destroy() up to its first listener; without listeners it is over at once.
destroy ==
    /\ UserCodeRuns
    /\ Len(stack) < MaxDepth
    /\ \/ /\ hasCallbacks(_observer)
          /\ stack' = Append(stack, [rest |-> _observer.listeners, running |-> FALSE])
          /\ UNCHANGED <<_observer, _isDestroyed>>
       \/ /\ ~hasCallbacks(_observer)
          /\ _observer' = destroyedObserver
          /\ _isDestroyed' = TRUE
          /\ UNCHANGED stack
    /\ UNCHANGED <<destructor, calls, cancelled, early>>

UserDestroys == destroy /\ UNCHANGED destroyed

\* The first of the signals, or the exit event, that setupDestroyHandler waits
\* for; the later ones do nothing.
closeProcess ==
    /\ ~destroyed
    /\ destroyed' = TRUE
    /\ destroy

------------------------------------------------------------------------------
\* The loop of triggerEvent in the topmost destroy(), and what follows it.

\* Fault: removing a listener shifts the array the loop is walking over.
restShifted == IF Len(top.rest) > 1 /\ Head(top.rest) \in Registrations
               THEN Tail(Tail(top.rest)) ELSE Tail(top.rest)

rest == Tail(top.rest)

LoopIsAtListener == stack # <<>> /\ ~top.running /\ top.rest # <<>>

\* The function that addDestroyListener registered: the callback runs only if
\* the registration was neither cancelled nor called by another destroy().
CallRegistration(l) ==
    /\ LoopIsAtListener
    /\ Head(top.rest) = l
    /\ destructor[l] = "assigned"
    /\ _observer' = removeListener(_observer, l)
    /\ destructor' = [destructor EXCEPT ![l] = "undefined"]
    /\ calls' = [calls EXCEPT ![l] = @ + 1]
    /\ stack' = [stack EXCEPT ![Len(stack)] = [rest |-> rest, running |-> TRUE]]
    /\ UNCHANGED <<_isDestroyed, destroyed, cancelled, early>>

\* Fault: a registration whose destructor is gone is called all the same.
SkipRegistrationCalls(l) ==
    /\ LoopIsAtListener
    /\ Head(top.rest) = l
    /\ destructor[l] = "undefined"
    /\ calls' = [calls EXCEPT ![l] = @ + 1]
    /\ stack' = [stack EXCEPT ![Len(stack)] = [rest |-> rest, running |-> TRUE]]
    /\ UNCHANGED <<_observer, _isDestroyed, destructor, destroyed, cancelled, early>>

SkipRegistration(l) ==
    /\ LoopIsAtListener
    /\ Head(top.rest) = l
    /\ destructor[l] = "undefined"
    /\ stack' = [stack EXCEPT ![Len(stack)] = [rest |-> rest, running |-> FALSE]]
    /\ UNCHANGED <<_observer, _isDestroyed, destructor, destroyed, calls, cancelled, early>>

CallCallback(f) ==
    /\ LoopIsAtListener
    /\ Head(top.rest) = f
    /\ stack' = [stack EXCEPT ![Len(stack)] = [rest |-> rest, running |-> TRUE]]
    /\ UNCHANGED <<_observer, _isDestroyed, destructor, destroyed, calls, cancelled, early>>

\* The listener returns, or throws what triggerEvent catches and logs.
ListenerEnds ==
    /\ stack # <<>> /\ top.running
    /\ stack' = [stack EXCEPT ![Len(stack)] = [rest |-> top.rest, running |-> FALSE]]
    /\ UNCHANGED <<_observer, _isDestroyed, destructor, destroyed, calls, cancelled, early>>

DestroyEnds ==
    /\ stack # <<>> /\ ~top.running /\ top.rest = <<>>
    /\ _isDestroyed' = TRUE
    /\ _observer' = destroyedObserver
    /\ stack' = SubSeq(stack, 1, Len(stack) - 1)
    /\ UNCHANGED <<destructor, destroyed, calls, cancelled, early>>

------------------------------------------------------------------------------
Next ==
    \/ \E l \in Registrations : \/ addDestroyListener(l) \/ Cancel(l)
                                \/ CallRegistration(l) \/ SkipRegistration(l)
    \/ \E f \in Callbacks : on(f) \/ Off(f) \/ CallCallback(f)
    \/ UserDestroys
    \/ closeProcess
    \/ ListenerEnds
    \/ DestroyEnds

Spec == Init /\ [][Next]_vars

------------------------------------------------------------------------------
\* The state of the service, its observer and its loops is well formed.
TypeOK ==
    /\ _observer \in Observers(Listeners)
    /\ _isDestroyed \in BOOLEAN
    /\ destructor \in [Registrations -> {"unassigned", "assigned", "undefined"}]
    /\ destroyed \in BOOLEAN
    /\ stack \in Seq(Frame)
    /\ calls \in [Registrations -> Nat]
    /\ cancelled \in SUBSET Registrations
    /\ early \in SUBSET Registrations

\* However listeners nest destroy() calls, none is called twice: the loop of an
\* outer destroy() meets listeners that an inner one has called already.
CalledAtMostOnce == \A l \in Registrations : calls[l] <= 1

\* A listener that was cancelled in time is not called any more, not even by a
\* loop that began when it was still registered.
CancelledIsNotCalled == \A l \in cancelled : calls[l] = 0

DestroyIsOver == _isDestroyed /\ stack = <<>>

\* When the outermost destroy() is over, every listener registered before it has
\* been called or was cancelled, although the loop removes listeners as it goes.
NobodyIsSkipped ==
    DestroyIsOver => \A l \in early : calls[l] = 1 \/ l \in cancelled

\* What the interface promises: whoever registers a listener and gets its
\* destructor is called once when the service is destroyed.
EveryListenerIsCalled ==
    DestroyIsOver => \A l \in Registrations :
                        destructor[l] # "unassigned" => calls[l] = 1 \/ l \in cancelled

\* No loop has forgotten a listener: as long as a listener from before the first
\* destroy() is owed its call, the outermost loop has it before itself.
OwedIsAhead ==
    \A l \in early : destructor[l] = "assigned" =>
        IF stack = <<>> THEN ~_isDestroyed
                        ELSE \E i \in 1..Len(stack[1].rest) : stack[1].rest[i] = l

\* The destructor variable tells whether the call of a registration is owed.
Accounted ==
    \A l \in Registrations :
        /\ destructor[l] # "undefined" => calls[l] = 0 /\ l \notin cancelled
        /\ destructor[l] = "undefined" => \/ calls[l] = 1 /\ l \notin cancelled
                                          \/ calls[l] = 0 /\ l \in cancelled
        /\ destructor[l] = "unassigned" => l \notin early

\* While the observer lives it knows every registration whose call is owed; it
\* is destroyed by nothing but a destroy() that is over.
ObserverKnowsOwed ==
    /\ _observer.alive = ~_isDestroyed
    /\ ~_observer.alive => _observer.listeners = <<>>
    /\ _observer.alive =>
        \A l \in Registrations : destructor[l] = "assigned" =>
            \E i \in 1..Len(_observer.listeners) : _observer.listeners[i] = l

\* The inductive invariant behind the properties of destroy().
IndInv == TypeOK /\ Accounted /\ ObserverKnowsOwed /\ OwedIsAhead

==============================================================================
