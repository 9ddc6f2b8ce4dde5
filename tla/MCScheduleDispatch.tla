-------------------------- MODULE MCScheduleDispatch --------------------------
(***************************************************************************)
(* Instances of ScheduleDispatch for TLC.                                  *)
(***************************************************************************)
EXTENDS ScheduleDispatch, TLC

CONSTANT t1     \* the tenant of the backlog

\* Backlogs the system may start with.
Requests(poids) == [n \in 1 .. Len(poids) |->
                      [preserveOrderId |-> poids[n], tenantId |-> t1]]

NoBacklog  == <<>>
OneRequest == Requests(<<1>>)
TwoInOne   == Requests(<<1, 1>>)

\* Services, and places for Runs, are interchangeable.
Symmetry == Permutations(Services) \cup Permutations(RunSlots)
=============================================================================
