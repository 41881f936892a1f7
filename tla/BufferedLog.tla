----------------------------- MODULE BufferedLog -----------------------------
(***************************************************************************)
(* BufferedLogWriter: log output is gathered and handed to a writer in     *)
(* chunks, with the splitting and merging of rows of LogUtils.  A text is  *)
(* a sequence of characters, of which Break is the line break.             *)
(***************************************************************************)
EXTENDS Naturals, Lists

CONSTANTS Letters, Break,
          ChunkSize, Prefix, Suffix,
          Inputs,          \* what is written at once
          MaxText          \* bound on the length of all that is written

VARIABLES data,            \* _data
          timer,           \* a timeout is pending
          chunks,          \* the calls of _writer
          input            \* all that was written

logVars == <<data, timer, chunks, input>>

------------------------------------------------------------------------------
\* LogUtils

\* A round of the loop of splitStringValue: no piece is longer than ChunkSize.
Cut(p) ==
    LET prefix == IF p.pieces = <<>> THEN <<>> ELSE Prefix
        suffix == IF Len(p.rest) <= ChunkSize - Len(prefix) THEN <<>> ELSE Suffix
        room   == ChunkSize - Len(prefix) - Len(suffix)
        taken  == IF room < Len(p.rest) THEN room ELSE Len(p.rest)
    IN  IF p.rest = <<>> THEN p
        ELSE [pieces |-> Append(p.pieces, prefix \o SubSeq(p.rest, 1, taken) \o suffix),
              rest   |-> SubSeq(p.rest, taken + 1, Len(p.rest))]

\* Each round takes at least one character.
splitStringValue(text) ==
    LET cut[n \in 0..Len(text)] == IF n = 0 THEN [pieces |-> <<>>, rest |-> text] ELSE Cut(cut[n - 1])
    IN  cut[Len(text)].pieces

TrimEnd(text) ==
    LET kept == {i \in DOMAIN text : text[i] # Break}
    IN  SubSeq(text, 1, IF kept = {} THEN 0 ELSE Max(kept))

TrimmedPieces(row) ==
    LET pieces == splitStringValue(Append(row, Break))
    IN  [j \in DOMAIN pieces |-> TrimEnd(pieces[j])]

splitStringArray(rows) == Each(rows, TrimmedPieces)

\* Fault: the line break that is added is not counted.
MergeOneUncounted(m, row) ==
    IF m.next = <<>> THEN [m EXCEPT !.next = row]
    ELSE IF Len(m.next) + Len(row) > ChunkSize
    THEN [done |-> Append(m.done, m.next), next |-> row]
    ELSE [m EXCEPT !.next = @ \o <<Break>> \o row]

\* A round of the loop of mergeStringArray.
MergeOne(m, row) ==
    IF m.next = <<>> THEN [m EXCEPT !.next = row]
    ELSE IF Len(m.next) + 1 + Len(row) > ChunkSize
    THEN [done |-> Append(m.done, m.next), next |-> row]
    ELSE [m EXCEPT !.next = @ \o <<Break>> \o row]

Nothing == [done |-> <<>>, next |-> <<>>]

mergeStringArray(rows) ==
    LET merged[n \in 0..Len(rows)] == IF n = 0 THEN Nothing ELSE MergeOne(merged[n - 1], rows[n])
        m == merged[Len(rows)]
    IN  IF m.next = <<>> THEN m.done ELSE Append(m.done, m.next)

\* A character of the text that split('\n') takes apart.
SplitOne(r, character) ==
    IF character = Break THEN [done |-> Append(r.done, r.next), next |-> <<>>]
                         ELSE [r EXCEPT !.next = Append(@, character)]

RowsOf(text) ==
    LET rows[n \in 0..Len(text)] == IF n = 0 THEN Nothing ELSE SplitOne(rows[n - 1], text[n])
        r == rows[Len(text)]
    IN  Append(r.done, r.next)

------------------------------------------------------------------------------
\* BufferedLogWriter

LastBreak(text) ==
    LET breaks == {i \in DOMAIN text : text[i] = Break}
    IN  IF breaks = {} THEN 0 ELSE Max(breaks)

\* How much of the text is drained: up to the last line break, and the rest
\* too when that is too long to keep.
Drained(text, force) ==
    LET size == LastBreak(text)
    IN  IF force \/ Len(text) - size >= ChunkSize THEN Len(text) ELSE size

\* All chunks of a drain but the last get a line break.
WithBreaks(list) ==
    [i \in DOMAIN list |-> IF i = Len(list) THEN list[i] ELSE Append(list[i], Break)]

\* _drain: the loop around it ends with the second round, which finds nothing
\* more to write.
DrainLoop(text, force) ==
    LET size == Drained(text, force)
    IN  /\ chunks' = chunks \o WithBreaks(mergeStringArray(splitStringArray(RowsOf(SubSeq(text, 1, size)))))
        /\ data' = SubSeq(text, size + 1, Len(text))

Init ==
    /\ data = <<>> /\ timer = FALSE
    /\ chunks = <<>> /\ input = <<>>

write(text) ==
    /\ Len(input) + Len(text) <= MaxText
    /\ input' = input \o text
    /\ IF Len(data) + Len(text) >= ChunkSize
       THEN /\ DrainLoop(data \o text, FALSE)
            /\ UNCHANGED timer
       ELSE /\ data' = data \o text
            /\ timer' = (timer \/ data' # <<>>)
            /\ UNCHANGED chunks

Timeout ==
    /\ timer
    /\ timer' = FALSE
    /\ DrainLoop(data, TRUE)
    /\ UNCHANGED input

drain ==
    /\ DrainLoop(data, TRUE)
    /\ UNCHANGED <<timer, input>>

Next == (\E text \in Inputs : write(text)) \/ Timeout \/ drain

LogSpec == Init /\ [][Next]_logVars

------------------------------------------------------------------------------
\* Properties

LettersOf(text) == Those(text, LAMBDA c : c \in Letters)

\* Whatever is split, merged and kept, each letter that was written has been
\* handed to the writer or is still kept, once and in order.
NoLetterIsLost == LettersOf(FlattenSeq(chunks) \o data) = LettersOf(input)

\* A chunk is longer than ChunkSize by no more than the line break that is
\* added to it, and no more is kept than fits into a chunk.
ChunksAreBounded ==
    /\ \A i \in DOMAIN chunks : Len(chunks[i]) <= ChunkSize + 1
    /\ Len(data) < ChunkSize
==============================================================================
