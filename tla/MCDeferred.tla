------------------------------ MODULE MCDeferred ------------------------------
(***************************************************************************)
(* Instances of Deferred for TLC.                                          *)
(***************************************************************************)
EXTENDS Deferred

\* Flags of free lists: those jQuery itself uses, and each further one.
ListOptions == {{"memory"}, {"once", "memory"}, {"memory", "unique"},
                {"memory", "stopOnFalse"}}
=============================================================================
