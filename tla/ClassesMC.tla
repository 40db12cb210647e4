----------------------------- MODULE ClassesMC ------------------------------
(***************************************************************************)
(* Small programs for Classes: three types, three members in all.          *)
(***************************************************************************)
EXTENDS Classes

ThreeTypes == <<"A", "B", "C">>

(* A method, virtual or not; both halves of a virtual property; a field of *)
(* one byte.                                                               *)
AllKinds ==
  {[kind |-> "method", name |-> "m", virtual |-> v, of |-> "int"] : v \in BOOLEAN}
  \cup {[kind |-> k, name |-> "p", virtual |-> TRUE, of |-> "int"] : k \in {"getter", "setter"}}
  \cup {[kind |-> "field", name |-> "f", virtual |-> FALSE, of |-> 1]}
=============================================================================
