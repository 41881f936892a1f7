--------------------------- MODULE ConcurrentWork ---------------------------
(***************************************************************************)
(* PromiseUtils.processConcurrently: the items of a list are processed in  *)
(* batches; the next batch begins when all promises of the one before are  *)
(* settled, unless a callback has answered false.  Whoever calls it sets   *)
(* size, list and queue.                                                   *)
(***************************************************************************)
EXTENDS Naturals, Sequences, FiniteSets

CONSTANTS Items,           \* the items are among 1..Items
          Falsy,           \* the items that are not truthy: they are passed over
          Sizes            \* values of concurrentSize

VARIABLES size,            \* concurrentSize
          list, queue,     \* the items, and those that are still to be processed
          running,         \* the items of the batch whose callback has not settled
          done,            \* the items whose callback has
          shouldEnd,
          returned         \* "no", or what the promise resolves with

workVars == <<size, list, queue, running, done, shouldEnd, returned>>

\* Fault: the first promise that settles ends the batch.
BatchRaced == running = {} \/ done # {}

BatchSettled == running = {}

\* One round of the loop.  shouldEnd does not change within a batch.
StartBatch ==
    /\ returned = "no" /\ BatchSettled
    /\ queue # <<>> /\ ~shouldEnd
    /\ LET n == IF Len(queue) < size THEN Len(queue) ELSE size IN
       /\ running' = running \cup ({queue[i] : i \in 1..n} \ Falsy)
       /\ queue' = SubSeq(queue, n + 1, Len(queue))
    /\ UNCHANGED <<size, list, done, shouldEnd, returned>>

\* The callback returns false, something else, or throws: that is not told.
Settle(item) ==
    /\ item \in running
    /\ running' = running \ {item}
    /\ done' = done \cup {item}
    /\ shouldEnd' \in {shouldEnd, TRUE}
    /\ UNCHANGED <<size, list, queue, returned>>

Return ==
    /\ returned = "no" /\ BatchSettled
    /\ queue = <<>> \/ shouldEnd
    /\ returned' = IF shouldEnd THEN "false" ELSE "undefined"
    /\ UNCHANGED <<size, list, queue, running, done, shouldEnd>>

Next == StartBatch \/ Return \/ \E item \in 1..Items : Settle(item)
==============================================================================
