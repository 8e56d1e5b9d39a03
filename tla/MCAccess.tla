-------------------------------- MODULE MCAccess --------------------------------
(***************************************************************************)
(* Instances of Access for TLC. Users and handlers are interchangeable.    *)
(***************************************************************************)
EXTENDS Access, TLC

Symmetry == Permutations(User) \cup Permutations(Handler)
=============================================================================
