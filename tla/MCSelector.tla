----------------------------- MODULE MCSelector -----------------------------
(* Instances of Selector for model checking. *)
EXTENDS Selector
=============================================================================
