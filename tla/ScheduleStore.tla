---------------------------- MODULE ScheduleStore ----------------------------
(***************************************************************************)
(* The `schedule` collection of ReqDC: what one entry holds and the        *)
(* queries and updates that src/schedule.php makes of it.  Everything here *)
(* is a pure operator on a collection                                      *)
(*                                                                         *)
(*     c \in [Ids -> Entry \cup {Null}]                                    *)
(*                                                                         *)
(* where Null stands for "no such document".  An entry's _id is its place  *)
(* in the order of insertion.                                              *)
(*                                                                         *)
(* One implementation is modelled: a preserveOrderId (POID) carries the    *)
(* implementation's id as a prefix, so the queues of two implementations   *)
(* never meet.  POID n stands for <impl>_<n>, and CronPoid for <impl>_cron.*)
(***************************************************************************)
EXTENDS Integers, FiniteSets

CONSTANTS
    Services,       \* scheduleservice.php processes, one per node
    RunSlots,       \* places for run.php processes
    Tenants,        \* tenants of the platform
    MaxPOIDNumber,  \* the implementation's MAXPOIDNUMBER
    MaxLifetime,    \* the entries' POStartedMaxLifetime, in seconds
    CronSpan,       \* the next cron time is at most CronSpan seconds away
    MaxEntries,     \* bound: schedule entries ever inserted
    Null            \* BSON null, and "no document"

\* Whoever may call findAndLaunchOrderPreserved: the service's main loop, and
\* a Run in its shutdown function.
Pickers == Services \cup RunSlots

Ids == 1 .. MaxEntries

CronPoid == 0

Poids == CronPoid .. MaxPOIDNumber

(***************************************************************************)
(* targetType, targetId, implementationId, userId and cronExpression       *)
(* follow from the entry's identity and its POID, so they are not fields   *)
(* of their own.                                                           *)
(***************************************************************************)
Entry ==
    [ preserveOrderId : Poids,
      tenantId        : Tenants,
      nextRun         : Nat,
      lastRun         : Nat \cup {Null},
      pickedUpBy      : Pickers \cup {Null},
      POStarted       : Nat \cup {Null} ]

ASSUME StoreAssumption ==
    /\ Services \cap RunSlots = {}
    /\ MaxPOIDNumber \in Nat \ {0}
    /\ MaxLifetime \in Nat
    /\ CronSpan \in Nat \ {0}
    /\ MaxEntries \in Nat
    /\ Null \notin Nat
    /\ Null \notin Pickers

\* The assumption that an entry is a document and not the absence of one.
ASSUME NullIsNoEntry == Null \notin Entry

-----------------------------------------------------------------------------
(* Entries.                                                                *)

\* Schedule::createFromRequest and setFromCronExpression: a fresh document.
NewEntry(q, tenant, next) ==
    [ preserveOrderId |-> q,
      tenantId        |-> tenant,
      nextRun         |-> next,
      lastRun         |-> Null,
      pickedUpBy      |-> Null,
      POStarted       |-> Null ]

\* empty($p->cronExpression) tells a one-time entry from a cron entry.
IsCron(e) == e.preserveOrderId = CronPoid

\* A Run is going on for the entry, or somebody is about to start one.
Started(e) == e.POStarted # Null

\* Mutants of Overdue: not overdue for overdue, one second early, and a date in
\* milliseconds compared with one in seconds.
OverdueInverted(e, t) == t - e.POStarted <= MaxLifetime
OverdueEarly(e, t) == t - e.POStarted >= MaxLifetime
OverdueInMillis(e, t) == t - 1000 * e.POStarted > MaxLifetime

\* The forced-finalize test of findAndLaunchOrderPreserved, at time t.
Overdue(e, t) == t - e.POStarted > MaxLifetime

-----------------------------------------------------------------------------
(* Queries.                                                                *)

Present(c) == {i \in Ids : c[i] # Null}

\* {nextRun: {$lt: nrlessthan}, preserveOrderId: q}, without a tenant filter.
Matching(c, nrlessthan, q) ==
    {i \in Present(c) : c[i].nextRun < nrlessthan /\ c[i].preserveOrderId = q}

\* Schedule::getDistinctPreserveOrderIds.
DistinctPoids(c, nrlessthan) ==
    {q \in Poids : Matching(c, nrlessthan, q) # {}}

\* Mutant of Before: POStarted ascending, which puts null first.
BeforeAscending(c, i, j) ==
    \/ ~Started(c[i]) /\ Started(c[j])
    \/ Started(c[i]) /\ Started(c[j]) /\ c[i].POStarted < c[j].POStarted
    \/ c[i].POStarted = c[j].POStarted /\ i > j

\* The sort key POStarted: -1, _id: -1.  Null sorts below every date, so it
\* comes last in a descending sort.
Before(c, i, j) ==
    \/ Started(c[i]) /\ ~Started(c[j])
    \/ Started(c[i]) /\ Started(c[j]) /\ c[i].POStarted > c[j].POStarted
    \/ c[i].POStarted = c[j].POStarted /\ i > j

\* Schedule::getNextRunnableByPOID(..., onlyOne, noTenantFilter) returns i.
IsNextRunnable(c, nrlessthan, q, i) ==
    /\ i \in Matching(c, nrlessthan, q)
    /\ \A j \in Matching(c, nrlessthan, q) \ {i} : Before(c, i, j)

\* The POIDs one tenant's entries use: getDistinctPreserveOrderIdsForImpl...
UsedPoids(c, tenant) ==
    {c[i].preserveOrderId : i \in {j \in Present(c) : c[j].tenantId = tenant}}

\* Schedule::getNextPOIDForImplementationId: 1 if there is only one queue, or
\* the first free one, or any of them when all are taken (mt_rand).
NextPoids(c, tenant) ==
    LET free == (1 .. MaxPOIDNumber) \ UsedPoids(c, tenant)
    IN  IF MaxPOIDNumber = 1 THEN {1}
        ELSE IF free = {} THEN 1 .. MaxPOIDNumber
        ELSE {n \in free : \A m \in free : n <= m}

-----------------------------------------------------------------------------
(* Updates.                                                                *)

\* Mutants of PickMatches: a filter on the _id alone, and one that no longer
\* lets a started entry be picked.
PickExists(c, i, p) == c[i] # Null
PickUnstarted(c, i, p) ==
    /\ c[i] # Null
    /\ ~Started(c[i])
    /\ c[i].lastRun = p.lastRun
    /\ c[i].nextRun = p.nextRun

\* The filter of Schedule::pickScheduleForMe: the document is still the one
\* that was read into p.  POStarted is not compared.
PickMatches(c, i, p) ==
    /\ c[i] # Null
    /\ c[i].lastRun = p.lastRun
    /\ c[i].pickedUpBy = p.pickedUpBy
    /\ c[i].nextRun = p.nextRun

\* Mutant of Picked: the picker and the time are swapped.
PickedSwapped(e, x, t) ==
    [e EXCEPT !.lastRun = x, !.pickedUpBy = t, !.POStarted = t]

\* The $set of Schedule::pickScheduleForMe, by x at time t.
Picked(e, x, t) ==
    [e EXCEPT !.lastRun = t, !.pickedUpBy = x, !.POStarted = t]

\* Mutant of Rescheduled: POStarted is not reset.
RescheduledKeepsClaim(e, next) ==
    [e EXCEPT !.pickedUpBy = Null, !.nextRun = next]

\* The $set of Schedule::finalizeRun for a cron entry, with its next due time.
Rescheduled(e, next) ==
    [e EXCEPT !.pickedUpBy = Null, !.nextRun = next, !.POStarted = Null]

\* Schedule::getNextRunFromCron at time t: a later minute plus 0-30 seconds.
CronTimes(t) == (t + 1) .. (t + CronSpan)
=============================================================================
