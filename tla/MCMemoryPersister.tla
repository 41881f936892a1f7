-------------------------- MODULE MCMemoryPersister --------------------------
(***************************************************************************)
(* Small instances of MemoryPersister for TLC: two tables, the second with *)
(* a ManyToOne relation to the first.                                      *)
(***************************************************************************)
EXTENDS MemoryPersister, TLC

CONSTANTS parents, children

TwoTables == {parents, children}
ChildOfParent == (parents :> NoTable) @@ (children :> parents)

\* Nothing tells clients apart, nor the values of properties.
Symmetry == Permutations(Clients) \cup Permutations(Vals)
==============================================================================
