------------------------------ MODULE MCConsole ------------------------------
(***************************************************************************)
(* Instances of Console for TLC.                                           *)
(***************************************************************************)
EXTENDS Console, TLC

\* The values of entries are interchangeable.
Symmetry == Permutations(Texts)
=============================================================================
