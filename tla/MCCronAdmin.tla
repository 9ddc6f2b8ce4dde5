----------------------------- MODULE MCCronAdmin -----------------------------
(***************************************************************************)
(* Instances of CronAdmin for TLC.                                         *)
(***************************************************************************)
EXTENDS CronAdmin, TLC

CONSTANT t1     \* the tenant of the cron entry

CronOnly == <<[preserveOrderId |-> CronPoid, tenantId |-> t1]>>

\* Places for Runs, and admins' requests, are interchangeable.
Symmetry == Permutations(RunSlots) \cup Permutations(Admins)
=============================================================================
