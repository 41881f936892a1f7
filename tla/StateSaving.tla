----------------------------- MODULE StateSaving -----------------------------
(***************************************************************************)
(* addStateService: while a decorated command runs, each change of its     *)
(* state starts a save that waits for the save that savePromise refers to. *)
(* When the command ends, the decorator waits for savePromise.             *)
(*                                                                         *)
(* The state of a change is its number; the file holds the state of the    *)
(* last write that ended.  Writes end in later turns of the event loop,    *)
(* when the microtasks of the turn before have run.  The names that the    *)
(* decorator sets in the autowire service are left out.                    *)
(***************************************************************************)
EXTENDS Naturals, Sequences

CONSTANT MaxChanges        \* bound on the changes of the state

VARIABLES phase,           \* of the decorated method
          listening,       \* the CHANGED listener is called
          saves,           \* the saves, in the order of their changes
          savePromise,     \* the save it refers to, or 0
          file,            \* the state in the file, 0 the initial one
          awaited,         \* the save the ending method waits for
          due,             \* the last change before the method ended
          overlapped       \* a change came while savePromise was set

vars == <<phase, listening, saves, savePromise, file, awaited, due, overlapped>>

Settled(i) == saves[i].stage \in {"saved", "failed"}

Init ==
    /\ phase = "reading" /\ listening = FALSE
    /\ saves = <<>> /\ savePromise = 0 /\ file = 0
    /\ awaited = 0 /\ due = 0 /\ overlapped = FALSE

\* The file is read, or there is none.  What is no valid state ends the method.
ReadState(valid) ==
    /\ phase = "reading"
    /\ phase' = IF valid THEN "running" ELSE "over"
    /\ listening' = valid
    /\ UNCHANGED <<saves, savePromise, file, awaited, due, overlapped>>

\* CHANGED: a state that is not valid fails at once, without waiting.
Change(valid) ==
    /\ phase \in {"running", "ending"} /\ listening
    /\ Len(saves) < MaxChanges
    /\ saves' = Append(saves, [previous |-> savePromise, cleared |-> FALSE,
                               stage |-> IF ~valid THEN "failed"
                                         ELSE IF savePromise = 0 THEN "writing" ELSE "waiting"])
    /\ savePromise' = Len(saves) + 1
    /\ overlapped' = (overlapped \/ \E i \in DOMAIN saves : ~saves[i].cleared)
    /\ UNCHANGED <<phase, listening, file, awaited, due>>

\* await previousPromise has returned.
BeginWrite(i) ==
    /\ saves[i].stage = "waiting"
    /\ Settled(saves[i].previous)
    /\ saves' = [saves EXCEPT ![i].stage = "writing"]
    /\ UNCHANGED <<phase, listening, savePromise, file, awaited, due, overlapped>>

\* The finally() of save i: whatever savePromise refers to by now.
Clear(i) ==
    /\ Settled(i) /\ ~saves[i].cleared
    /\ saves' = [saves EXCEPT ![i].cleared = TRUE]
    /\ savePromise' = 0
    /\ UNCHANGED <<phase, listening, file, awaited, due, overlapped>>

\* Fault: the method ends without waiting for the state to be saved.
FinishAtOnce ==
    /\ phase = "running"
    /\ phase' = "over"
    /\ due' = Len(saves)
    /\ listening' = FALSE
    /\ UNCHANGED <<saves, savePromise, file, awaited, overlapped>>

\* The method returns or throws.
Finish ==
    /\ phase = "running"
    /\ phase' = IF savePromise = 0 THEN "over" ELSE "ending"
    /\ listening' = (listening /\ savePromise # 0)
    /\ awaited' = savePromise
    /\ due' = Len(saves)
    /\ UNCHANGED <<saves, savePromise, file, overlapped>>

EndWaiting ==
    /\ phase = "ending"
    /\ Settled(awaited)
    /\ phase' = "over"
    /\ listening' = FALSE
    /\ UNCHANGED <<saves, savePromise, file, awaited, due, overlapped>>

\* No microtask of these is left.
Drained ==
    /\ \A i \in DOMAIN saves :
         /\ Settled(i) => saves[i].cleared
         /\ saves[i].stage = "waiting" => ~Settled(saves[i].previous)
    /\ phase = "ending" => ~Settled(awaited)

EndWrite(i) ==
    /\ saves[i].stage = "writing" /\ Drained
    /\ \/ /\ saves' = [saves EXCEPT ![i].stage = "saved"]
          /\ file' = i
       \/ /\ saves' = [saves EXCEPT ![i].stage = "failed"]
          /\ UNCHANGED file
    /\ UNCHANGED <<phase, listening, savePromise, awaited, due, overlapped>>

\* The destroy service disposes of the state service.
Dispose ==
    /\ phase \in {"running", "ending"} /\ listening
    /\ listening' = FALSE
    /\ UNCHANGED <<phase, saves, savePromise, file, awaited, due, overlapped>>

Next ==
    \/ \E valid \in BOOLEAN : ReadState(valid) \/ Change(valid)
    \/ \E i \in DOMAIN saves : BeginWrite(i) \/ Clear(i) \/ EndWrite(i)
    \/ Finish \/ EndWaiting \/ Dispose

Spec == Init /\ [][Next]_vars

------------------------------------------------------------------------------
\* Properties

SavedWhenOver ==
    phase = "over" /\ (\A i \in DOMAIN saves : saves[i].stage # "failed") => file >= due

\* When the command is over and no save has failed, the file has the state of
\* the last change that the command made.
NewStateIsWritten == SavedWhenOver

\* It has, if each change came after the save before it had been cleared: then
\* savePromise refers to the only save there is.
SeparateChangesAreWritten == ~overlapped => SavedWhenOver
==============================================================================
