------------------------------ MODULE CronAdmin ------------------------------
(***************************************************************************)
(* The administration of cron entries, composed with ScheduleDispatch.     *)
(*                                                                         *)
(* A tenant's admin sets or deletes the cron entry of an implementation    *)
(* (controlapi.php, setcronschedule) while services and Runs work on it.   *)
(* setFromCronExpression reads the entry, changes some fields and replaces *)
(* the whole document, in two database calls with nothing to hold them     *)
(* together; if it finds none it inserts one.                              *)
(***************************************************************************)
EXTENDS ScheduleDispatch

CONSTANTS
    Admins,     \* admins' requests that may be handled at the same time
    MaxCalls    \* bound: calls of setcronschedule

ASSUME AdminAssumption == MaxCalls \in Nat /\ IsFiniteSet(Admins)

\* The system starts with no more cron entries than the admins could have set.
ASSUME BacklogAssumption ==
    \A tenant \in Tenants :
        Cardinality({n \in 1 .. Len(Backlog) :
                        /\ Backlog[n].preserveOrderId = CronPoid
                        /\ Backlog[n].tenantId = tenant})
            <= Cardinality(Admins)

VARIABLES
    adminPc,    \* per admin's request: idle, or about to replace or insert
    cronId,     \* .. the _id of the entry it found
    read,       \* history: that entry as it was found
    written,    \* .. the document it is about to save
    calls       \* history: the calls so far

adminVars == <<adminPc, cronId, read, written, calls>>
allVars == <<vars, adminVars>>

AdminTypeOK ==
    /\ TypeOK
    /\ adminPc \in [Admins -> {"idle", "replace", "insert"}]
    /\ cronId \in [Admins -> Ids \cup {Null}]
    /\ read \in [Admins -> Entry \cup {Null}]
    /\ written \in [Admins -> Entry \cup {Null}]
    /\ calls \in 0 .. MaxCalls
    /\ \A a \in Admins :
          /\ adminPc[a] = "replace" <=> cronId[a] # Null
          /\ adminPc[a] = "idle" <=> written[a] = Null

AdminInit ==
    /\ Init
    /\ adminPc = [a \in Admins |-> "idle"]
    /\ cronId = [a \in Admins |-> Null]
    /\ read = [a \in Admins |-> Null]
    /\ written = [a \in Admins |-> Null]
    /\ calls = 0

-----------------------------------------------------------------------------
(* Queries and updates of schedule.php.                                    *)

\* The cron entries of one tenant (and of the one implementation).
CronEntries(c, tenant) ==
    {i \in Present(c) : IsCron(c[i]) /\ c[i].tenantId = tenant}

\* Mutant of WithCron: the update also takes the entry away from its Run.
WithCronUnclaimed(e, next) ==
    [e EXCEPT !.nextRun = next, !.pickedUpBy = Null, !.POStarted = Null]

\* The fields setFromCronExpression changes in the entry it found.  The claim
\* and the time of the last run are part of the document that is replaced.
WithCron(e, next) == [e EXCEPT !.nextRun = next]

-----------------------------------------------------------------------------
(* ControlAPI::handleScheduleSetCronSchedule.                              *)

Call ==
    /\ calls < MaxCalls
    /\ calls' = calls + 1

\* getByImplementationIdCronScheduled finds an entry, any of them.
CronFound(a) ==
    /\ adminPc[a] = "idle"
    /\ Call
    /\ \E tenant \in Tenants : \E i \in CronEntries(sched, tenant) :
          \E next \in CronTimes(now) :
             /\ cronId' = [cronId EXCEPT ![a] = i]
             /\ read' = [read EXCEPT ![a] = sched[i]]
             /\ written' = [written EXCEPT ![a] = WithCron(sched[i], next)]
    /\ adminPc' = [adminPc EXCEPT ![a] = "replace"]
    /\ UNCHANGED vars

\* Mutant of CronMissing: an insert although there is an entry.
CronAlwaysMissing(a) ==
    /\ adminPc[a] = "idle"
    /\ Call
    /\ \E tenant \in Tenants : \E next \in CronTimes(now) :
          written' = [written EXCEPT ![a] = NewEntry(CronPoid, tenant, next)]
    /\ adminPc' = [adminPc EXCEPT ![a] = "insert"]
    /\ UNCHANGED <<vars, cronId, read>>

\* It throws NotFoundException: a new Schedule is made.
CronMissing(a) ==
    /\ adminPc[a] = "idle"
    /\ Call
    /\ \E tenant \in Tenants : \E next \in CronTimes(now) :
          /\ CronEntries(sched, tenant) = {}
          /\ written' = [written EXCEPT ![a] = NewEntry(CronPoid, tenant, next)]
    /\ adminPc' = [adminPc EXCEPT ![a] = "insert"]
    /\ UNCHANGED <<vars, cronId, read>>

\* The request of a is over.
Answered(a) ==
    /\ adminPc' = [adminPc EXCEPT ![a] = "idle"]
    /\ cronId' = [cronId EXCEPT ![a] = Null]
    /\ read' = [read EXCEPT ![a] = Null]
    /\ written' = [written EXCEPT ![a] = Null]
    /\ UNCHANGED calls

\* Mutant of CronReplaced: the replacement is an upsert.
CronUpserted(a) ==
    /\ adminPc[a] = "replace"
    /\ IF sched[cronId[a]] = read[a] THEN UNCHANGED faults ELSE Fault
    /\ sched' = [sched EXCEPT ![cronId[a]] = written[a]]
    /\ Answered(a)
    /\ UNCHANGED <<now, apiVars, pc, passVars, runVars, since, executions>>

\* Schedule::saveToDb replaces the document, whatever it has become since it
\* was read.  To overwrite an update of someone else counts as a fault.
CronReplaced(a) ==
    /\ adminPc[a] = "replace"
    /\ sched[cronId[a]] # Null
    /\ IF sched[cronId[a]] = read[a] THEN UNCHANGED faults ELSE Fault
    /\ sched' = [sched EXCEPT ![cronId[a]] = written[a]]
    /\ Answered(a)
    /\ UNCHANGED <<now, apiVars, pc, passVars, runVars, since, executions>>

\* The entry is gone, or is as it would be written: SaveFailedException.
CronSaveFails(a) ==
    /\ adminPc[a] = "replace"
    /\ sched[cronId[a]] \in {Null, written[a]}
    /\ Answered(a)
    /\ UNCHANGED vars

\* Schedule::saveToDb of a new Schedule.
CronInserted(a) ==
    /\ adminPc[a] = "insert"
    /\ inserted < MaxEntries
    /\ inserted' = inserted + 1
    /\ sched' = [sched EXCEPT ![inserted + 1] = written[a]]
    /\ Answered(a)
    /\ UNCHANGED <<now, draft, pc, passVars, runVars, since, executions, faults>>

\* deleteByImplementationIdCronScheduled, for an empty expression: deletes one
\* entry, any of them.  (If there is none nothing happens.)
CronDeleted(a) ==
    /\ adminPc[a] = "idle"
    /\ Call
    /\ \E tenant \in Tenants : \E i \in CronEntries(sched, tenant) :
          sched' = [sched EXCEPT ![i] = Null]
    /\ UNCHANGED <<adminPc, cronId, read, written>>
    /\ UNCHANGED <<now, apiVars, pc, passVars, runVars, since, executions, faults>>

-----------------------------------------------------------------------------
(* The specification.                                                      *)

Saves(a) == CronReplaced(a) \/ CronSaveFails(a) \/ CronInserted(a)

AdminStep ==
    \E a \in Admins : CronFound(a) \/ CronMissing(a) \/ CronDeleted(a) \/ Saves(a)

AdminNext ==
    \/ Next /\ UNCHANGED adminVars
    \/ AdminStep

AdminSpec == AdminInit /\ [][AdminNext]_allVars

-----------------------------------------------------------------------------
(* Properties.                                                             *)

\* The requests that are about to insert a cron entry for a tenant.
Inserting(tenant) ==
    {a \in Admins : adminPc[a] = "insert" /\ written[a].tenantId = tenant}

\* A tenant has at most as many cron entries of one implementation as admins
\* set it at the same time: one, if there is one admin.  Nothing in the
\* database keeps them unique; only the query before an insert does.
CronEntriesBounded ==
    \A tenant \in Tenants :
        Cardinality(CronEntries(sched, tenant)) + Cardinality(Inserting(tenant))
            <= Cardinality(Admins)

\* The variables have their types, and a tenant's cron entries are bounded.
AdminInv == AdminTypeOK /\ CronEntriesBounded

\* Before anything fails or a lifetime is over, nobody starts a Run of an entry
\* that has one, although admins replace the document its claim is part of:
\* POStarted, "it means that there is an Run going on for this scheduleId and
\* other may not be started with same Id".
SoleOwner ==
    faults = 0 /\ now <= MaxLifetime + 1 =>
        \A i \in Ids : \A x, y \in Pickers : Owns(x, i) /\ Owns(y, i) => x = y

\* A deleted entry stays deleted, whoever still holds a copy of it: a pass, a
\* Run about to finalize it, or an admin's request about to replace it.
GoneStaysGone ==
    [][ \A i \in 1 .. inserted : sched[i] = Null => sched'[i] = Null ]_allVars
=============================================================================
