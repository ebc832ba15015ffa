------------------------------- MODULE MCAuth -------------------------------
(***************************************************************************)
(* Auth with one name besides that of the default user.                    *)
(***************************************************************************)
EXTENDS Auth, TLC

SomeNames == {"ada"}
Symmetry == Permutations(Reqs)
=============================================================================
