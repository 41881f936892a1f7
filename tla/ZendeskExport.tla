---------------------------- MODULE ZendeskExport ----------------------------
(***************************************************************************)
(* ZendeskClient.processTickets and its siblings: records are fetched page *)
(* by page, and those of a page are given to a callback by                 *)
(* PromiseUtils.processConcurrently before the next page is asked for.     *)
(* Zendesk, which answers with the records after a cursor, oldest first,   *)
(* is modelled from what the loop expects; records may be added meanwhile. *)
(***************************************************************************)
EXTENDS ConcurrentWork, Bags, SequencesExt

CONSTANTS PageSizes        \* values of size; Items bounds the number of records

VARIABLES pageSize,
          records,         \* Zendesk has the records 1..records
          cursor,          \* the records up to this one have been answered
          more,            \* has_more, or not end_of_stream
          expected,        \* the records there were when the export began
          processed,       \* a bag: the records whose callback has settled
          export           \* "asking", "processing", or how the promise is settled

exportVars == <<workVars, pageSize, records, cursor, more, expected, processed, export>>

ExportInit ==
    /\ size \in Sizes /\ list = <<>> /\ queue = <<>>
    /\ running = {} /\ done = {} /\ shouldEnd = FALSE /\ returned = "no"
    /\ pageSize \in PageSizes /\ records \in 0..Items
    /\ cursor = 0 /\ more = TRUE /\ expected = records
    /\ processed = EmptyBag /\ export = "asking"

\* A record is added.
Add ==
    /\ records < Items /\ records' = records + 1
    /\ UNCHANGED <<workVars, pageSize, cursor, more, expected, processed, export>>

\* What is on the next page.
Page == {r \in 1..records : r \in (cursor + 1)..(cursor + pageSize)}

\* _start...Export and _continue...Export, and the call of processConcurrently.
Receive ==
    /\ export = "asking"
    /\ list' = SetToSeq(Page) /\ queue' = list'
    /\ done' = {} /\ shouldEnd' = FALSE /\ returned' = "no"
    /\ cursor' = cursor + Cardinality(Page)
    /\ more' = (cursor' < records)
    /\ export' = "processing"
    /\ UNCHANGED <<size, running, pageSize, records, expected, processed>>

\* The request fails, or its answer is not a list.
Reject ==
    /\ export = "asking"
    /\ export' = "rejected"
    /\ UNCHANGED <<workVars, pageSize, records, cursor, more, expected, processed>>

\* The records of a page, by processConcurrently.
Process ==
    /\ export = "processing"
    /\ Next
    /\ UNCHANGED <<pageSize, records, cursor, more, expected, processed, export>>

\* The loop of process...: on, or over.
PageIsProcessed ==
    /\ export = "processing" /\ returned # "no"
    /\ processed' = processed (+) SetToBag(done)
    /\ export' = IF returned = "false" THEN "false" ELSE IF more THEN "asking" ELSE "true"
    /\ UNCHANGED <<workVars, pageSize, records, cursor, more, expected>>

ExportNext == Add \/ Receive \/ Reject \/ Process \/ PageIsProcessed

ExportSpec == ExportInit /\ [][ExportNext]_exportVars

------------------------------------------------------------------------------
\* Properties

\* No more callbacks than concurrentSize run at once, on records of one page,
\* and none when the export has settled.  No record is processed twice; if the
\* export is said to be complete, all those are that were there when it began,
\* and it ends early only when a callback has asked for that.
ExportIsComplete ==
    /\ Cardinality(running) <= size
    /\ running # {} => export = "processing" /\ running \subseteq ToSet(list)
    /\ \A r \in BagToSet(processed) : processed[r] = 1
    /\ export = "true" => 1..expected \subseteq BagToSet(processed)
    /\ export = "false" => shouldEnd
==============================================================================
