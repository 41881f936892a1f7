------------------------- MODULE MCRepositoryQueries -------------------------
(***************************************************************************)
(* An instance of RepositoryQueries by itself.                             *)
(***************************************************************************)
EXTENDS RepositoryQueries

Properties == {"p", "t"}
Values == 1..3
Types == [p |-> "plain", t |-> "time"]

Few == {propertyEquals("p", 1), propertyBetween("p", 1, 2), propertyListEquals("t", <<1, 3>>)}
==============================================================================
