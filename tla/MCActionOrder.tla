----------------------------- MODULE MCActionOrder -----------------------------
(***************************************************************************)
(* Instances of ActionOrder for TLC. Handlers are interchangeable.         *)
(***************************************************************************)
EXTENDS ActionOrder

Symmetry == Permutations(Handler)
=============================================================================
