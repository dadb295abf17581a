---------------------------- MODULE MCGroceryHome ----------------------------
(* Small instances of GroceryHome for TLC. *)
EXTENDS GroceryHome

CONSTANTS u1

OneUser  == {u1}
OneName  == {1}
TwoNames == {1, 2}
OnlyZero == {0}
ZeroOne  == {0, 1}
OneText  == {"text"}
=============================================================================
