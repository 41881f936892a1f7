------------------------------ MODULE Services ------------------------------
(***************************************************************************)
(* The services whose promises are proved for any values of their          *)
(* constants, side by side: none calls another.  MCServices adds the other *)
(* services and lets one of them act at a time; Services_proofs and        *)
(* SimpleRepository_proofs have the proofs.                                *)
(***************************************************************************)
EXTENDS Naturals, Sequences, FiniteSets

CONSTANTS Configuration, Words, NoText, Given, MaxArguments, Environments, \* CommandArguments
          Letters, Break, ChunkSize, Prefix, Suffix, Inputs, MaxText,  \* BufferedLog
          TypedDigits, MaxDigits,                              \* FinnishIds
          Addresses, Hostnames, HostModels, MaxNames,          \* HostsService
          Methods, MappingValues, OperationIds, MaxDecorations, \* ControllerDecorators
          MaxChanges,                                          \* StateSaving
          ItemIds, Values, MemberNames, MemoryClients, MaxVersion,  \* SimpleMemoryRepository
          MaxCount,                                            \* SimpleRepositoryAdapter
          Items, Falsy, Sizes, PageSizes,                      \* ZendeskExport
          Callers, Limit, Reserve, MaxPages, MaxWindows,       \* ZendeskRateLimit
          Booked, From, To, BufferSizes                        \* TransactionList

\* A configuration has each key once; words do not begin with "-".
ASSUME CommandAssumption ==
    /\ Configuration \in Seq([key : STRING, type : STRING, long : STRING, short : STRING, env : STRING])
    /\ \A i, j \in DOMAIN Configuration : Configuration[i].key = Configuration[j].key => i = j
    /\ Words \cap {"-h", "--help", "-v", "--version", "--"} = {}

\* Texts are sequences of characters.  The letters are those whose way is followed:
\* neither the line break nor what is put around a piece has any.  A chunk is long
\* enough for these.
ASSUME LogAssumption ==
    /\ Break \in STRING \ Letters
    /\ Prefix \in Seq(STRING) /\ Suffix \in Seq(STRING)
    /\ \A i \in DOMAIN Prefix : Prefix[i] \notin Letters
    /\ \A i \in DOMAIN Suffix : Suffix[i] \notin Letters
    /\ ChunkSize \in Nat /\ ChunkSize > Len(Prefix) + 1 + Len(Suffix)
    /\ Inputs \subseteq Seq(STRING)

ASSUME DigitAssumption == TypedDigits \subseteq 0..9

ASSUME HostsAssumption ==
    HostModels \subseteq Seq([address : Addresses, hostnames : Seq(Hostnames)])

\* Identifiers differ from the mark of their absence.
ASSUME DecoratorAssumption == "none" \notin Methods \cup OperationIds

\* At least one callback runs at a time, and a page has at least one record.
\* Records are objects: none of them is falsy.
ASSUME ExportAssumption ==
    /\ Items \in Nat /\ Sizes \subseteq Nat \ {0} /\ PageSizes \subseteq Nat \ {0}
    /\ Falsy \cap 1..Items = {}

\* A full window has more requests than the reserve.
ASSUME RateAssumption ==
    IsFiniteSet(Callers) /\ Limit \in Nat /\ Reserve \in Nat /\ Reserve < Limit

\* Timestamps are numbers; the bank answers with at least one transaction.
ASSUME TransactionsAssumption ==
    /\ IsFiniteSet(Booked) /\ \A t \in Booked : t[1] \in Nat
    /\ From \in Nat /\ To \in Nat
    /\ BufferSizes \subseteq Nat \ {0}

VARIABLES args, environment, result, names, stage,                       \* CommandArguments
          data, timer, chunks, input,                                  \* BufferedLog
          digits,                                                      \* FinnishIds
          entries, updates, called,                                     \* HostsService
          mapping, properties, applied,                                \* ControllerDecorators
          phase, listening, saves, savePromise, file, awaited, due, changesOverlapped,
                                                                       \* StateSaving
          items, used, call,                                           \* SimpleMemoryRepository
          entities, assigned, work,                                    \* SimpleRepositoryAdapter
          size, list, queue, running, done, shouldEnd, returned,       \* ConcurrentWork
          pageSize, records, cursor, more, exportExpected, processed, export,
                                                                       \* ZendeskExport
          window, left, pages, known, caller,                          \* ZendeskRateLimit
          account, expected, bufferSize, fromTimestamp, fullList, finished
                                                                       \* TransactionList

Commands == INSTANCE CommandArguments

Log == INSTANCE BufferedLog

Ids == INSTANCE FinnishIds

Hosts == INSTANCE HostsService

Decorators == INSTANCE ControllerDecorators

State == INSTANCE StateSaving WITH overlapped <- changesOverlapped

Memory == INSTANCE SimpleMemoryRepository

Adapter == INSTANCE SimpleRepositoryAdapter

Export == INSTANCE ZendeskExport WITH expected <- exportExpected

Rate == INSTANCE ZendeskRateLimit

Transactions == INSTANCE TransactionList

------------------------------------------------------------------------------
\* Properties of the instances

\* The method of a command sees what its arguments and the environment tell.
MethodSeesItsArguments == Commands!MethodSeesItsArguments

\* Splitting, merging and keeping text for later loses and repeats no letter,
\* and the chunks of output stay within their size and one line break.
OutputIsKept == Log!NoLetterIsLost /\ Log!ChunksAreBounded

\* A number that was made is accepted, also with a space in it or without its
\* leading zero; one that differs in a digit, or a business id with two digits
\* swapped, is not.
DigitErrorsAreDetected == Ids!RefNumbersAreSafe /\ Ids!BusinessIdsAreSafe

\* Hostnames that were moved to an address are there.
HostnamesArrive == Hosts!HostnamesArrive

\* Decorators of a controller, in whatever order they are applied, are all told
\* by its mapping.
DecorationsAreKept == Decorators!DecorationsAreKept

\* The state of a command is in its file when the command is over, if each
\* change came after the save before it had been cleared.
SeparateChangesAreWritten == State!SeparateChangesAreWritten

\* The operations of SimpleMemoryRepository, however they overlap, are those of
\* a simple repository.
MemoryIsRepository == Memory!MemoryIsRepository

\* A list of items that was deleted is gone.
DeletedListIsGone == Memory!DeletedListIsGone

\* The operations of SimpleRepositoryAdapter, one at a time, are those of a
\* simple repository.
SerialCallsAreRepository == Adapter!SerialCallsAreRepository

\* The records of an export are all processed, once each, a few at a time.
ExportIsComplete == Export!ExportIsComplete

\* The reserve of requests is left to those that are not checked.
ReserveIsKept == Rate!ReserveIsKept

\* The pages of a range of transactions have each of them once.
RangeIsListed == Transactions!RangeIsListed
==============================================================================
