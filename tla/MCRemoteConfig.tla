--------------------------- MODULE MCRemoteConfig ---------------------------
(* Small instances of RemoteConfig for TLC. *)
EXTENDS RemoteConfig

CONSTANT t1

OneTitle == {t1}
=============================================================================
