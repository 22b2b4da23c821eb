----------------------------- MODULE MCEnforcer -----------------------------
(* Model values for checking Enforcer on a small clock.                    *)
EXTENDS Enforcer

\* PTS runs level with DTS or one ahead of it.
SmallOffsets == {0, 1}

MinusOne == -1
=============================================================================
