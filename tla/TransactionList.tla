--------------------------- MODULE TransactionList ---------------------------
(***************************************************************************)
(* OpAccountDataClientImpl.getTransactionListFromTimestampRange: the       *)
(* transactions of a range of time are fetched page by page, each from the *)
(* instant after the latest one that was seen.  The bank, which answers    *)
(* with the oldest transactions from a timestamp on, in any order, is      *)
(* modelled from what the loop expects of it; transactions may be booked   *)
(* between two requests.                                                   *)
(***************************************************************************)
EXTENDS Naturals, FiniteSetsExt, Bags

CONSTANTS Booked,          \* transactions, as <<timestamp, number>>
          From, To,        \* the range
          BufferSizes

VARIABLES account,         \* what the bank has
          expected,        \* what it had when the first page was requested
          bufferSize,
          fromTimestamp,
          fullList,        \* a bag: the order is that of the timestamps
          finished

listVars == <<account, expected, bufferSize, fromTimestamp, fullList, finished>>

Time(t) == t[1]

\* A transaction is booked.
Book(t) ==
    /\ account' = account \cup {t}
    /\ UNCHANGED <<expected, bufferSize, fromTimestamp, fullList, finished>>

\* getTransactionListFromTimestamp with maxPast 0 and maxFuture bufferSize.
Page(page) ==
    LET later == {t \in account : Time(t) >= fromTimestamp} IN
    /\ page \subseteq later
    /\ Cardinality(page) = Min({bufferSize, Cardinality(later)})
    /\ \A t \in page, u \in later \ page : Time(t) <= Time(u)

\* Fault: the next page starts with the timestamp of the last transaction.
NextFromLast(kept) == Max({fromTimestamp} \cup {Time(t) : t \in kept})

NextFrom(kept) == Max({fromTimestamp} \cup {Time(t) + 1 : t \in kept})

\* One round of the loop.  A page that has something after the range is the
\* last one, and so is one that has nothing of the range.
FetchPage(page) ==
    /\ ~finished /\ Page(page)
    /\ LET kept == {t \in page : Time(t) <= To} IN
       /\ fullList' = fullList (+) SetToBag(kept)
       /\ fromTimestamp' = NextFrom(kept)
       /\ finished' = (kept # page \/ NextFrom(kept) = fromTimestamp)
    /\ UNCHANGED <<account, expected, bufferSize>>

Init ==
    /\ account \in SUBSET Booked
    /\ expected = account
    /\ bufferSize \in BufferSizes
    /\ fromTimestamp = From
    /\ fullList = EmptyBag
    /\ finished = FALSE

Next == (\E t \in Booked : Book(t)) \/ (\E page \in SUBSET account : FetchPage(page))

ListSpec == Init /\ [][Next]_listVars

------------------------------------------------------------------------------
\* Properties

Shared(t) == \E u \in account \ {t} : Time(u) = Time(t)

\* The list has nothing twice and nothing out of the range.  It has all that
\* was booked in the range before the first request, but for transactions with
\* a timestamp that others have too: these may be cut off by the end of a page.
RangeIsListed ==
    finished =>
      /\ \A t \in BagToSet(fullList) : fullList[t] = 1 /\ Time(t) \in From..To
      /\ \A t \in expected : Time(t) \in From..To /\ ~Shared(t) => BagIn(t, fullList)
==============================================================================
