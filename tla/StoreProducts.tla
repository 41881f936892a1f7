---------------------------- MODULE StoreProducts ----------------------------
(***************************************************************************)
(* StoreProductService: the products are fetched when they are asked for,  *)
(* and again some time after a fetch that failed.  Several fetches may be  *)
(* in progress, and end in any order; loading tells only that none has     *)
(* ended since the last began.                                             *)
(***************************************************************************)
EXTENDS Naturals, FiniteSets

CONSTANTS MaxFetches,      \* bound on the fetches in progress
          MaxFailures      \* bound on the fetches that fail

VARIABLES fetches,         \* the number of fetches in progress
          loading,         \* _loading
          initialized,     \* _initialized
          updateTimers,    \* the retry timers that are running
          updateTimeout,   \* _updateTimeout: one of them, or 0
          wanted,          \* somebody has asked for the products
          failures

productVars == <<fetches, loading, initialized, updateTimers, updateTimeout, wanted, failures>>

Init ==
    /\ fetches = 0 /\ loading = FALSE /\ initialized = FALSE
    /\ updateTimers = {} /\ updateTimeout = 0
    /\ wanted = FALSE /\ failures = 0

\* refreshProducts: _updateProducts up to its await.
Refresh == fetches' = fetches + 1 /\ loading' = TRUE

refreshProducts ==
    /\ fetches < MaxFetches
    /\ Refresh
    /\ wanted' = TRUE
    /\ UNCHANGED <<initialized, updateTimers, updateTimeout, failures>>

getAllProducts ==
    /\ wanted' = TRUE
    /\ IF ~initialized /\ ~loading THEN fetches < MaxFetches /\ Refresh ELSE UNCHANGED <<fetches, loading>>
    /\ UNCHANGED <<initialized, updateTimers, updateTimeout, failures>>

FetchReturns ==
    /\ fetches > 0
    /\ fetches' = fetches - 1
    /\ loading' = FALSE
    /\ initialized' = TRUE
    /\ UNCHANGED <<updateTimers, updateTimeout, wanted, failures>>

\* Fault: a retry that is scheduled already is left alone, but not kept.
RetryForgotten ==
    IF updateTimeout # 0
    THEN updateTimers' = updateTimers \ {updateTimeout} /\ updateTimeout' = 0
    ELSE updateTimers' = updateTimers \cup {1} /\ updateTimeout' = 1

\* _triggerUpdateLaterAfterError: the retry that is scheduled already is put off.
RetryLater ==
    LET timer == CHOOSE t \in 1..2 : t # updateTimeout
    IN  /\ updateTimers' = (updateTimers \ {updateTimeout}) \cup {timer}
        /\ updateTimeout' = timer

FetchFails ==
    /\ fetches > 0 /\ failures < MaxFailures
    /\ failures' = failures + 1
    /\ fetches' = fetches - 1
    /\ loading' = FALSE
    /\ RetryLater
    /\ UNCHANGED <<initialized, wanted>>

\* _onUpdateErrorTimeout: nothing is done while a fetch is in progress.
UpdateTimeout ==
    \E timer \in updateTimers :
      /\ updateTimers' = updateTimers \ {timer}
      /\ updateTimeout' = 0
      /\ IF ~loading THEN fetches < MaxFetches /\ Refresh ELSE UNCHANGED <<fetches, loading>>
      /\ UNCHANGED <<initialized, wanted, failures>>

Next == refreshProducts \/ getAllProducts \/ FetchReturns \/ FetchFails \/ UpdateTimeout

ProductSpec == Init /\ [][Next]_productVars

\* Requests end, and timers fire.
ProductFairness == WF_productVars(FetchReturns \/ FetchFails) /\ WF_productVars(UpdateTimeout)

FairProductSpec == ProductSpec /\ ProductFairness

------------------------------------------------------------------------------
\* Properties

\* Once somebody has asked for the products they are loaded in the end, if not
\* every fetch fails: the retry that is skipped while another fetch is in
\* progress, or put off by another failure, is not missed.
ProductsAreLoaded == wanted ~> initialized
==============================================================================
