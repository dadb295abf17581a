---------------------------- MODULE MCRemoteStore ----------------------------
(* Small instances of RemoteStore for TLC. *)
EXTENDS RemoteStore

CONSTANTS d1, u1, u2, n1

OneUser  == {u1}
TwoUsers == {u1, u2}
OneName  == {n1}
OneDoc   == {d1}
=============================================================================
