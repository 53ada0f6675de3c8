------------------------------ MODULE MCWebSession ------------------------------
(* Model-checking instances of WebSession. *)
EXTENDS WebSession, TLC

\* Connections are interchangeable.
ConnSymmetry == Permutations(Conns)
=============================================================================
