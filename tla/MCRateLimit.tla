------------------------------ MODULE MCRateLimit ------------------------------
(***************************************************************************)
(* Instances of RateLimit for TLC. Webhooks and addresses are each         *)
(* interchangeable.                                                        *)
(***************************************************************************)
EXTENDS RateLimit, TLC

Symmetry == Permutations(Request) \cup Permutations(Client)
=============================================================================
