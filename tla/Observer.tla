------------------------------- MODULE Observer -------------------------------
(***************************************************************************)
(* The listeners an Observer keeps for one event, as a value.              *)
(*                                                                         *)
(* The array is replaced when a listener is removed and extended in place  *)
(* when one is added, and a trigger looks at the length it had when the    *)
(* trigger began.  So a trigger calls exactly the listeners that the array *)
(* held at its start, in that order: a caller of these operators keeps the *)
(* value of o.listeners at the start of a trigger and works it off.        *)
(***************************************************************************)
EXTENDS SequencesExt

Observers(L) == [alive : BOOLEAN, listeners : Seq(L)]

newObserver == [alive |-> TRUE, listeners |-> <<>>]

\* What destroy() leaves behind: _callbacks is undefined.
destroyedObserver == [alive |-> FALSE, listeners |-> <<>>]

\* The event has no entry when its last listener is removed.
hasCallbacks(o) == o.listeners # <<>>

\* Only on an observer that is alive: on a destroyed one the code throws.
listenEvent(o, callback) == [o EXCEPT !.listeners = Append(@, callback)]

\* The first of several equal listeners goes; removing an unknown one, or one
\* of a destroyed observer, does nothing.
removeListener(o, callback) == [o EXCEPT !.listeners = RemoveFirst(@, callback)]

===============================================================================
