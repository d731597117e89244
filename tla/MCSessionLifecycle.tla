------------------------- MODULE MCSessionLifecycle -------------------------
(* Small instances of the session lifecycle. *)
EXTENDS SessionLifecycle, TLC

\* Connections are interchangeable.
ConnSymmetry == Permutations(Conns)
=============================================================================
