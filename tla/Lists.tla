-------------------------------- MODULE Lists --------------------------------
(***************************************************************************)
(* What lodash does to lists here, as operators that can be reasoned       *)
(* about: the results of a function for each element, and the elements     *)
(* that a predicate is true of.                                            *)
(***************************************************************************)
EXTENDS SequencesExt

\* The results of f for the elements of s, one after the other: reduce with concat.
Each(s, f(_)) == FlattenSeq([i \in DOMAIN s |-> f(s[i])])

\* The elements of s that P is true of: filter.
Those(s, P(_)) == Each(s, LAMBDA e : IF P(e) THEN <<e>> ELSE <<>>)
==============================================================================
