-------------------------- MODULE MCSessionManager --------------------------
(* The instances of SessionManagerProps that TLC checks.                    *)
EXTENDS SessionManagerProps, TLC

Symmetry == Permutations(Session)
=============================================================================
