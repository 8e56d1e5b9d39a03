------------------------------ MODULE MCAccounts ------------------------------
(***************************************************************************)
(* Instances of Accounts for TLC. Emails, subjects and handlers are        *)
(* interchangeable.                                                        *)
(***************************************************************************)
EXTENDS Accounts, TLC

Symmetry == Permutations(Email) \cup Permutations(Subject) \cup Permutations(Handler)
=============================================================================
