-------------------------- MODULE MCTokenLifecycle --------------------------
(***************************************************************************)
(* Instances of TokenLifecycle for TLC. Handlers, requests and secrets are *)
(* interchangeable: no action tells two of them apart.                     *)
(***************************************************************************)
EXTENDS TokenLifecycle, TLC

Symmetry == Permutations(Handler) \cup Permutations(Request) \cup Permutations(Secret)
=============================================================================
