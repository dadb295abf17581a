--------------------------- MODULE MCHomeScreens ---------------------------
(* A small instance of HomeScreens for TLC. *)
EXTENDS HomeScreens

CONSTANTS u1, u2

OneUser  == {u1}
TwoUsers == {u1, u2}
=============================================================================
