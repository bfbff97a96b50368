----------------------------- MODULE MCMapCache -----------------------------
(***************************************************************************)
(* An instance of MapCache: two files with the same hash, until the table  *)
(* grows.                                                                  *)
(***************************************************************************)
EXTENDS MapCache

TwoFiles == {1, 2}
TwoHolders == {1, 2}
TwoStructs == 1 .. 2

FullFiles == [f \in Files |-> f]
SomeCollide == [f \in Files |-> 0]
=============================================================================
