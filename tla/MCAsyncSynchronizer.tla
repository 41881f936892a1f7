------------------------- MODULE MCAsyncSynchronizer -------------------------
(***************************************************************************)
(* Small instances of AsyncSynchronizer for TLC.  Callers are model        *)
(* values; no symmetry is declared, because the runs check liveness.       *)
(***************************************************************************)
EXTENDS AsyncSynchronizer

\* Callbacks of every kind.
AllKinds == {"throw", "micro", "macro"}

\* Callbacks that return a promise.
AsyncKinds == {"micro", "macro"}
==============================================================================
