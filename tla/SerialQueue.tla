----------------------------- MODULE SerialQueue -----------------------------
(***************************************************************************)
(* What an AsyncSynchronizer promises its callers: callbacks are executed  *)
(* one at a time, in the order of the calls, and each call is executed     *)
(* once.  The state is the line of the callers whose call has not finished *)
(* and the stage of each caller's latest call.                             *)
(***************************************************************************)
EXTENDS Sequences

CONSTANT Callers

VARIABLES line,    \* callers whose call is unfinished, in call order
          stage    \* stage of the latest call of each caller

vars == <<line, stage>>

Finished == {"idle", "fulfilled", "rejected"}
Outcomes == {"fulfilled", "rejected"}

Init ==
    /\ line = <<>>
    /\ stage = [c \in Callers |-> "idle"]

\* A call finds others in line and waits its turn.
Enqueue(c) ==
    /\ stage[c] \in Finished
    /\ line # <<>>
    /\ line' = Append(line, c)
    /\ stage' = [stage EXCEPT ![c] = "queued"]

\* A call finds nobody in line: its callback is executed at once.
EnterIdle(c) ==
    /\ stage[c] \in Finished
    /\ line = <<>>
    /\ line' = <<c>>
    /\ stage' = [stage EXCEPT ![c] = "executing"]

\* A call finds nobody in line and its callback fails synchronously.
FailIdle(c) ==
    /\ stage[c] \in Finished
    /\ line = <<>>
    /\ line' = <<>>
    /\ stage' = [stage EXCEPT ![c] = "rejected"]

\* The first in line has its callback executed.
Begin(c) ==
    /\ stage[c] = "queued"
    /\ line # <<>> /\ Head(line) = c
    /\ line' = line
    /\ stage' = [stage EXCEPT ![c] = "executing"]

\* The first in line has its callback executed and it fails synchronously.
BeginAndFail(c) ==
    /\ stage[c] = "queued"
    /\ line # <<>> /\ Head(line) = c
    /\ line' = Tail(line)
    /\ stage' = [stage EXCEPT ![c] = "rejected"]

\* The executing call finishes with outcome o and leaves the line.
End(c, o) ==
    /\ stage[c] = "executing"
    /\ line # <<>> /\ Head(line) = c
    /\ line' = Tail(line)
    /\ stage' = [stage EXCEPT ![c] = o]

Step(c) ==
    \/ Enqueue(c)
    \/ EnterIdle(c)
    \/ FailIdle(c)
    \/ Begin(c)
    \/ BeginAndFail(c)
    \/ \E o \in Outcomes : End(c, o)

Next == \E c \in Callers : Step(c)

Spec == Init /\ [][Next]_vars
==============================================================================
