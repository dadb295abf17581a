--------------------------- MODULE MCGroceryStore ---------------------------
(* Small instances of GroceryStore for TLC. *)
EXTENDS GroceryStore, TLC

CONSTANTS n1, n2, d1, d2, u1, u2

OneUser  == {u1}
TwoUsers == {u1, u2}
OneName  == {n1}
TwoNames == {n1, n2}
OneDoc   == {d1}
TwoDocs  == {d1, d2}

\* Names and documents are only compared.
Symmetry == Permutations(TwoNames) \cup Permutations(TwoDocs)
=============================================================================
