----------------------------- MODULE MCAuthFlow -----------------------------
(* Small instances of AuthFlow for TLC. *)
EXTENDS AuthFlow, TLC

CONSTANTS a1, a2

OneAccount  == {a1}
TwoAccounts == {a1, a2}

AccountSymmetry == Permutations(TwoAccounts)
=============================================================================
