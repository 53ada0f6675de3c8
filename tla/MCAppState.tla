------------------------------ MODULE MCAppState ------------------------------
(* Instances of AppState for TLC. *)
EXTENDS AppState

CONSTANT k1

\* One page shows the key as a text and as a list, the other as a list only.
OneKeyPages == {[texts |-> {k1}, loops |-> {k1}], [texts |-> {}, loops |-> {k1}]}
=============================================================================
