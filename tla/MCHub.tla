--------------------------------- MODULE MCHub ---------------------------------
(***************************************************************************)
(* Instances of Hub for TLC. Topics, streams and publishers are each       *)
(* interchangeable.                                                        *)
(***************************************************************************)
EXTENDS Hub, TLC

Symmetry == Permutations(Topic) \cup Permutations(Stream) \cup Permutations(Publisher)
=============================================================================
