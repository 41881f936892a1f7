------------------------------ MODULE EventWait ------------------------------
(***************************************************************************)
(* Observer.waitForEvent: a promise that the event or a timeout resolves,  *)
(* whichever comes first.  The listeners are those of waits, which do      *)
(* nothing but end their wait, so a trigger is one step here.              *)
(***************************************************************************)
EXTENDS Observer

CONSTANT Waits             \* waits that may be in progress at once

VARIABLES waiting,         \* whose promise is pending
          timing,          \* whose timer is running
          observed         \* the observer

waitVars == <<waiting, timing, observed>>

Listening == ToSet(observed.listeners)

Init == waiting = {} /\ timing = {} /\ observed = newObserver

\* listenEvent throws on a destroyed observer: the wait is rejected, but its
\* timer runs on.
waitForEvent(w) ==
    /\ w \notin waiting \cup Listening \cup timing
    /\ timing' = timing \cup {w}
    /\ IF observed.alive
       THEN waiting' = waiting \cup {w} /\ observed' = listenEvent(observed, w)
       ELSE UNCHANGED <<waiting, observed>>

\* The wait is resolved, not rejected.
Timeout(w) ==
    /\ w \in timing
    /\ timing' = timing \ {w}
    /\ observed' = removeListener(observed, w)
    /\ waiting' = waiting \ {w}

\* Fault: a listener that is called stays.
ListenersKept == observed

\* Each listener that is called removes itself.
ListenersRemoved == FoldLeft(removeListener, observed, observed.listeners)

triggerEvent ==
    /\ hasCallbacks(observed)
    /\ timing' = timing \ Listening
    /\ waiting' = waiting \ Listening
    /\ observed' = ListenersRemoved

\* The timers of waits run on.
destroy ==
    /\ observed' = destroyedObserver
    /\ UNCHANGED <<waiting, timing>>

Next ==
    \/ \E w \in Waits : waitForEvent(w) \/ Timeout(w)
    \/ triggerEvent \/ destroy

WaitSpec == Init /\ [][Next]_waitVars

\* Timers fire.
WaitFairness == \A w \in Waits : WF_waitVars(Timeout(w))

FairWaitSpec == WaitSpec /\ WaitFairness

------------------------------------------------------------------------------
\* Properties

\* Every wait ends, also when the observer is destroyed meanwhile, and leaves
\* neither a listener nor a timer behind.
WaitsEnd ==
    \A w \in Waits : w \in waiting ~> w \notin waiting \cup Listening \cup timing
==============================================================================
