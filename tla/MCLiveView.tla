------------------------------- MODULE MCLiveView -------------------------------
(***************************************************************************)
(* Instances of LiveView for TLC. Handlers are interchangeable. The first  *)
(* two requests fall into one second, so the end of a page may cut through *)
(* it; the filters of an address select all requests, or leave one of      *)
(* these two out.                                                          *)
(***************************************************************************)
EXTENDS LiveView

Symmetry == Permutations(Handler)

HalfSeconds == [r \in Id |-> (r + 1) \div 2]
=============================================================================
