--------------------------- MODULE ScheduleDispatch ---------------------------
(***************************************************************************)
(* How ReqDC gets an asynchronous request executed once.                   *)
(*                                                                         *)
(*  - The API (mainapi.php) drafts a schedule entry for a request and      *)
(*    inserts it.                                                          *)
(*  - ScheduleService processes poll the collection: a pass visits every   *)
(*    queue (POID) with a due entry, picks one by compare-and-set and      *)
(*    starts a run.php process for it (scheduleservice.php).               *)
(*  - The Run executes the request or the implementation; its shutdown     *)
(*    function finalizes the entry and then makes a pass over its own      *)
(*    queue (run.php, su.php, Schedule::finalizeRun).                      *)
(*  - A pass that meets an entry started more than MaxLifetime seconds ago *)
(*    takes it over and finalizes it by force.                             *)
(*                                                                         *)
(* All of them share only the `schedule` collection (ScheduleStore) and    *)
(* the clock.  Every action is one database call or one process event with *)
(* the code that leads to the next one.                                    *)
(***************************************************************************)
EXTENDS ScheduleStore, Sequences

CONSTANTS
    Apis,       \* API request handlers that may run at the same time
    Backlog,    \* one-time and cron entries, all due, the system starts with
    MaxTime,    \* bound: the clock stops here
    MaxFaults   \* bound: crashes and failed steps

ASSUME DispatchAssumption ==
    /\ Backlog \in Seq([preserveOrderId : Poids, tenantId : Tenants])
    /\ Len(Backlog) <= MaxEntries
    /\ MaxTime \in Nat \ {0}
    /\ MaxFaults \in Nat

VARIABLES
    now,        \* the time, in seconds (timestamps have that granularity)
    sched,      \* the schedule collection
    inserted,   \* entries ever inserted: the next _id is inserted + 1
    draft,      \* per API handler: the entry it is about to insert
    pc,         \* per picker: where it stands
    nrlessthan, \* per picker, findAndLaunchOrderPreserved: time of the pass
    todo,       \* .. and the POIDs the foreach has not reached yet
    target,     \* .. the _id of the entry it works on
    p,          \* .. that entry, as it was when it was read (and a Run's own)
    scheduleId, \* per Run: argv[3], the entry it was started for
    authed,     \* per Run: a tenant is selected in its session
    since,      \* history: when the entry a picker or a Run works on was picked
    executions, \* history: the executions of a one-time entry (2 for many)
    faults      \* history: the faults so far

passVars == <<nrlessthan, todo, target, p>>
runVars  == <<scheduleId, authed>>
apiVars  == <<inserted, draft>>
vars == <<now, sched, apiVars, pc, passVars, runVars, since, executions, faults>>

-----------------------------------------------------------------------------
(* Where a picker stands.                                                  *)

\* idle: a service sleeping between passes; down: waiting for cron to start it.
ServiceLabels == {"idle", "down"}

\* findAndLaunchOrderPreserved: in the foreach, about to pick, about to exec
\* run.php, and in the two database calls of a forced finalizeRun.
PassLabels == {"loop", "pick", "launch", "evictFind", "evictWrite"}

\* free: no process; boot: started, before the Execution; exec: executing;
\* finFind, finWrite: the two database calls of finalizeRun at shutdown.
RunLabels == {"free", "boot", "exec", "finFind", "finWrite"}

\* The labels at which a picker has claimed its target ...
Claiming == {"launch", "evictFind", "evictWrite"}

\* ... and at which a Run answers for its schedule entry.
Running == {"boot", "exec", "finFind", "finWrite"}

TypeOK ==
    /\ now \in 0 .. MaxTime
    /\ sched \in [Ids -> Entry \cup {Null}]
    /\ inserted \in 0 .. MaxEntries
    /\ draft \in [Apis -> Entry \cup {Null}]
    /\ pc \in [Pickers -> ServiceLabels \cup PassLabels \cup RunLabels]
    /\ nrlessthan \in [Pickers -> Nat]
    /\ todo \in [Pickers -> SUBSET Poids]
    /\ target \in [Pickers -> Ids \cup {Null}]
    /\ p \in [Pickers -> Entry \cup {Null}]
    /\ scheduleId \in [RunSlots -> Ids \cup {Null}]
    /\ authed \in [RunSlots -> BOOLEAN]
    /\ since \in [Pickers -> Nat]
    /\ executions \in [Ids -> 0 .. 2]
    /\ faults \in 0 .. MaxFaults

\* Entries inserted while no service was running; they are due at any time.
Init ==
    /\ now = 1
    /\ sched = [i \in Ids |->
                  IF i <= Len(Backlog)
                  THEN NewEntry(Backlog[i].preserveOrderId, Backlog[i].tenantId, 0)
                  ELSE Null]
    /\ inserted = Len(Backlog)
    /\ draft = [a \in Apis |-> Null]
    /\ pc = [x \in Pickers |-> IF x \in Services THEN "idle" ELSE "free"]
    /\ nrlessthan = [x \in Pickers |-> 0]
    /\ todo = [x \in Pickers |-> {}]
    /\ target = [x \in Pickers |-> Null]
    /\ p = [x \in Pickers |-> Null]
    /\ scheduleId = [r \in RunSlots |-> Null]
    /\ authed = [r \in RunSlots |-> FALSE]
    /\ since = [x \in Pickers |-> 0]
    /\ executions = [i \in Ids |-> 0]
    /\ faults = 0

-----------------------------------------------------------------------------
(* Time and faults.                                                        *)

Tick ==
    /\ now < MaxTime
    /\ now' = now + 1
    /\ UNCHANGED <<sched, apiVars, pc, passVars, runVars, since, executions, faults>>

\* One more fault of the budget.
Fault ==
    /\ faults < MaxFaults
    /\ faults' = faults + 1

-----------------------------------------------------------------------------
(* The API: MainAPI::handleImplementation for an asynchronous request.     *)

\* Schedule::createFromRequest up to saveToDb: the POID is chosen from the
\* collection as it is now, and the entry is due from now on.
Draft(a) ==
    /\ draft[a] = Null
    /\ inserted + Cardinality({b \in Apis : draft[b] # Null}) < MaxEntries
    /\ \E tenant \in Tenants : \E q \in NextPoids(sched, tenant) :
          draft' = [draft EXCEPT ![a] = NewEntry(q, tenant, now)]
    /\ UNCHANGED <<now, sched, inserted, pc, passVars, runVars, since, executions, faults>>

\* Schedule::saveToDb of a new entry.
Insert(a) ==
    /\ draft[a] # Null
    /\ inserted < MaxEntries
    /\ inserted' = inserted + 1
    /\ sched' = [sched EXCEPT ![inserted + 1] = draft[a]]
    /\ draft' = [draft EXCEPT ![a] = Null]
    /\ UNCHANGED <<now, pc, passVars, runVars, since, executions, faults>>

-----------------------------------------------------------------------------
(* Leaving an entry, a pass, a process.                                    *)

\* Where x stands once it is done with an entry and rest is what its foreach
\* has not reached: a service sleeps after the last POID, a Run's process ends.
AfterEntry(x, rest) ==
    IF rest # {} THEN "loop" ELSE IF x \in Services THEN "idle" ELSE "free"

\* The foreach of x goes on with the POIDs in rest.
Continue(x, rest) ==
    /\ pc' = [pc EXCEPT ![x] = AfterEntry(x, rest)]
    /\ nrlessthan' = [nrlessthan EXCEPT ![x] = IF rest = {} THEN 0 ELSE @]
    /\ todo' = [todo EXCEPT ![x] = rest]
    /\ target' = [target EXCEPT ![x] = Null]
    /\ p' = [p EXCEPT ![x] = Null]
    /\ since' = [since EXCEPT ![x] = 0]

\* The process of x ends: an exception reaches ScheduleService::main or leaves
\* the shutdown function of a Run, or the process is killed.
Ends(x) ==
    /\ pc' = [pc EXCEPT ![x] = IF x \in Services THEN "down" ELSE "free"]
    /\ nrlessthan' = [nrlessthan EXCEPT ![x] = 0]
    /\ todo' = [todo EXCEPT ![x] = {}]
    /\ target' = [target EXCEPT ![x] = Null]
    /\ p' = [p EXCEPT ![x] = Null]
    /\ since' = [since EXCEPT ![x] = 0]
    /\ scheduleId' = [r \in RunSlots |-> IF r = x THEN Null ELSE scheduleId[r]]
    /\ authed' = [r \in RunSlots |-> r # x /\ authed[r]]

-----------------------------------------------------------------------------
(* ScheduleService::findAndLaunchOrderPreserved.                           *)

\* The main loop starts a pass.  (A pass over no POID changes nothing.)
StartPass(s) ==
    /\ pc[s] = "idle"
    /\ DistinctPoids(sched, now) # {}
    /\ pc' = [pc EXCEPT ![s] = "loop"]
    /\ nrlessthan' = [nrlessthan EXCEPT ![s] = now]
    /\ todo' = [todo EXCEPT ![s] = DistinctPoids(sched, now)]
    /\ UNCHANGED <<now, sched, apiVars, target, p, runVars, since, executions, faults>>

\* The foreach reaches q and finds no entry: `return`, whatever is left to do.
QueueDrained(x, q) ==
    /\ pc[x] = "loop"
    /\ q \in todo[x]
    /\ Matching(sched, nrlessthan[x], q) = {}
    /\ Continue(x, {})
    /\ UNCHANGED <<now, sched, apiVars, runVars, executions, faults>>

\* It finds a started entry whose lifetime is not over: `continue`.
QueueBusy(x, q) ==
    /\ pc[x] = "loop"
    /\ q \in todo[x]
    /\ \E i \in Ids :
          /\ IsNextRunnable(sched, nrlessthan[x], q, i)
          /\ Started(sched[i])
          /\ ~Overdue(sched[i], now)
    /\ Continue(x, todo[x] \ {q})
    /\ UNCHANGED <<now, sched, apiVars, runVars, executions, faults>>

\* It finds an entry to pick: one that is not started, or is overdue.
QueueReady(x, q) ==
    /\ pc[x] = "loop"
    /\ q \in todo[x]
    /\ \E i \in Ids :
          /\ IsNextRunnable(sched, nrlessthan[x], q, i)
          /\ Started(sched[i]) => Overdue(sched[i], now)
          /\ target' = [target EXCEPT ![x] = i]
          /\ p' = [p EXCEPT ![x] = sched[i]]
    /\ todo' = [todo EXCEPT ![x] = @ \ {q}]
    /\ pc' = [pc EXCEPT ![x] = "pick"]
    /\ UNCHANGED <<now, sched, apiVars, nrlessthan, runVars, since, executions, faults>>

\* pickScheduleForMe modifies the document: x has it, to run or to finalize.
PickWon(x) ==
    /\ pc[x] = "pick"
    /\ PickMatches(sched, target[x], p[x])
    /\ sched' = [sched EXCEPT ![target[x]] = Picked(@, x, now)]
    /\ since' = [since EXCEPT ![x] = now]
    /\ pc' = [pc EXCEPT ![x] = IF Started(p[x]) THEN "evictFind" ELSE "launch"]
    /\ UNCHANGED <<now, apiVars, passVars, runVars, executions, faults>>

\* Someone else picked it up: `continue`.
PickLost(x) ==
    /\ pc[x] = "pick"
    /\ ~PickMatches(sched, target[x], p[x])
    /\ Continue(x, todo[x])
    /\ UNCHANGED <<now, sched, apiVars, runVars, executions, faults>>

\* runOne: the shell starts run.php in the background and returns 0.
Launch(x, r) ==
    /\ pc[x] = "launch"
    /\ pc[r] = "free"
    /\ pc' = [pc EXCEPT ![x] = AfterEntry(x, todo[x]), ![r] = "boot"]
    /\ scheduleId' = [scheduleId EXCEPT ![r] = target[x]]
    /\ since' = [since EXCEPT ![x] = 0, ![r] = since[x]]
    /\ nrlessthan' = [nrlessthan EXCEPT ![x] = IF todo[x] = {} THEN 0 ELSE @]
    /\ target' = [target EXCEPT ![x] = Null]
    /\ p' = [p EXCEPT ![x] = Null]
    /\ UNCHANGED <<now, sched, apiVars, todo, authed, executions, faults>>

\* runOne: the shell returns another status, SchedulerException.
LaunchFails(x) ==
    /\ pc[x] = "launch"
    /\ Fault
    /\ Ends(x)
    /\ UNCHANGED <<now, sched, apiVars, executions>>

\* The node's crontab starts the service again (Dockerfile).
Restart(s) ==
    /\ pc[s] = "down"
    /\ pc' = [pc EXCEPT ![s] = "idle"]
    /\ UNCHANGED <<now, sched, apiVars, passVars, runVars, since, executions, faults>>

-----------------------------------------------------------------------------
(* Schedule::finalizeRun.                                                  *)

\* What finalizeRun writes for entry i, once it has read that i is there.  A
\* one-time entry is deleted, a cron entry set for its next time; the filter
\* on the tenant applies to the latter only.  The write counts only if it
\* modifies a document.
Finalized(i, doc, tenantMatches, next) ==
    /\ sched[i] # Null
    /\ IF IsCron(doc)
       THEN /\ tenantMatches
            /\ Rescheduled(sched[i], next) # sched[i]
            /\ sched' = [sched EXCEPT ![i] = Rescheduled(@, next)]
       ELSE sched' = [sched EXCEPT ![i] = Null]

\* No document is modified or deleted: SchedulerException.
FinalizeFails(i, doc, tenantMatches, next) ==
    \/ sched[i] = Null
    \/ /\ sched[i] # Null /\ IsCron(doc)
       /\ tenantMatches => Rescheduled(sched[i], next) = sched[i]

\* The forced finalize of a pass reads the entry again ...
EvictFind(x) ==
    /\ pc[x] = "evictFind"
    /\ UNCHANGED <<now, sched, apiVars, executions, faults>>
    /\ \/ /\ sched[target[x]] # Null
          /\ pc' = [pc EXCEPT ![x] = "evictWrite"]
          /\ p' = [p EXCEPT ![x] = sched[target[x]]]
          /\ UNCHANGED <<nrlessthan, todo, target, runVars, since>>
       \/ /\ sched[target[x]] = Null
          /\ Ends(x)

\* ... and writes, with no filter on the tenant and no follow-up pass.
EvictWrite(x) ==
    /\ pc[x] = "evictWrite"
    /\ \E next \in CronTimes(now) :
          \/ /\ Finalized(target[x], p[x], TRUE, next)
             /\ Continue(x, todo[x])
             /\ UNCHANGED runVars
          \/ /\ FinalizeFails(target[x], p[x], TRUE, next)
             /\ Ends(x)
             /\ UNCHANGED sched
    /\ UNCHANGED <<now, apiVars, executions, faults>>

-----------------------------------------------------------------------------
(* A Run: Run::main, Execution::start, and the shutdown function.          *)

\* Mutant of BootOk: the entry's absence goes unnoticed.
BootBlind(r) ==
    /\ pc[r] = "boot"
    /\ pc' = [pc EXCEPT ![r] = "exec"]
    /\ p' = [p EXCEPT ![r] = sched[scheduleId[r]]]
    /\ authed' = [authed EXCEPT ![r] = TRUE]
    /\ executions' = IF executions[scheduleId[r]] = 2
                     THEN executions
                     ELSE [executions EXCEPT ![scheduleId[r]] = @ + 1]
    /\ UNCHANGED <<now, sched, apiVars, nrlessthan, todo, target, scheduleId, since, faults>>

\* Run::auth selects the tenant, Schedule::getById finds the entry, and
\* Execution::start saves the STARTED Execution.
BootOk(r) ==
    /\ pc[r] = "boot"
    /\ sched[scheduleId[r]] # Null
    /\ pc' = [pc EXCEPT ![r] = "exec"]
    /\ p' = [p EXCEPT ![r] = sched[scheduleId[r]]]
    /\ authed' = [authed EXCEPT ![r] = TRUE]
    /\ executions' = IF IsCron(sched[scheduleId[r]]) \/ executions[scheduleId[r]] = 2
                     THEN executions
                     ELSE [executions EXCEPT ![scheduleId[r]] = @ + 1]
    /\ UNCHANGED <<now, sched, apiVars, nrlessthan, todo, target, scheduleId, since, faults>>

\* Schedule::getById throws NotFoundException: nothing is executed, and the
\* shutdown function goes on to finalize.
BootGone(r) ==
    /\ pc[r] = "boot"
    /\ sched[scheduleId[r]] = Null
    /\ pc' = [pc EXCEPT ![r] = "finFind"]
    /\ UNCHANGED <<now, sched, apiVars, passVars, runVars, since, executions, faults>>

\* Run::auth throws (the user is gone or has no right to the tenant).
BootDenied(r) ==
    /\ pc[r] = "boot"
    /\ Fault
    /\ pc' = [pc EXCEPT ![r] = "finFind"]
    /\ UNCHANGED <<now, sched, apiVars, passVars, runVars, since, executions>>

\* The execution is over: done, or by an exception or a fatal error.
Finish(r) ==
    /\ pc[r] = "exec"
    /\ pc' = [pc EXCEPT ![r] = "finFind"]
    /\ UNCHANGED <<now, sched, apiVars, passVars, runVars, since, executions, faults>>

\* phpShutdownfunction calls finalizeRun, which reads the entry ...
FinFind(r) ==
    /\ pc[r] = "finFind"
    /\ UNCHANGED <<now, sched, apiVars, executions, faults>>
    /\ \/ /\ sched[scheduleId[r]] # Null
          /\ pc' = [pc EXCEPT ![r] = "finWrite"]
          /\ p' = [p EXCEPT ![r] = sched[scheduleId[r]]]
          /\ UNCHANGED <<nrlessthan, todo, target, runVars, since>>
       \/ /\ sched[scheduleId[r]] = Null
          /\ Ends(r)

\* ... writes, with the session's tenant in the filter, and starts a pass over
\* the entry's own queue.
FinWrite(r) ==
    /\ pc[r] = "finWrite"
    /\ \E next \in CronTimes(now) :
          \/ /\ Finalized(scheduleId[r], p[r], authed[r], next)
             /\ pc' = [pc EXCEPT ![r] = "loop"]
             /\ nrlessthan' = [nrlessthan EXCEPT ![r] = now]
             /\ todo' = [todo EXCEPT ![r] = {p[r].preserveOrderId}]
             /\ p' = [p EXCEPT ![r] = Null]
             /\ since' = [since EXCEPT ![r] = 0]
             /\ scheduleId' = [scheduleId EXCEPT ![r] = Null]
             /\ authed' = [authed EXCEPT ![r] = FALSE]
             /\ UNCHANGED target
          \/ /\ FinalizeFails(scheduleId[r], p[r], authed[r], next)
             /\ Ends(r)
             /\ UNCHANGED sched
    /\ UNCHANGED <<now, apiVars, executions, faults>>

\* Any process may be killed between two of its steps: SIGKILL, out of
\* memory, a lost node or database connection.
Kill(x) ==
    /\ pc[x] \notin {"idle", "down", "free"}
    /\ Fault
    /\ Ends(x)
    /\ UNCHANGED <<now, sched, apiVars, executions>>

-----------------------------------------------------------------------------
(* The specification.                                                      *)

\* One step of x in findAndLaunchOrderPreserved.
PassStep(x) ==
    \/ \E q \in Poids : QueueDrained(x, q) \/ QueueBusy(x, q) \/ QueueReady(x, q)
    \/ PickWon(x) \/ PickLost(x)
    \/ \E r \in RunSlots : Launch(x, r)
    \/ EvictFind(x) \/ EvictWrite(x)

\* One step of a Run other than the end of its execution.
RunStep(r) == BootOk(r) \/ BootGone(r) \/ FinFind(r) \/ FinWrite(r)

FaultStep ==
    \/ \E x \in Pickers : Kill(x) \/ LaunchFails(x)
    \/ \E r \in RunSlots : BootDenied(r)

Next ==
    \/ Tick
    \/ \E a \in Apis : Draft(a) \/ Insert(a)
    \/ \E s \in Services : StartPass(s) \/ Restart(s)
    \/ \E x \in Pickers : PassStep(x)
    \/ \E r \in RunSlots : RunStep(r) \/ Finish(r)
    \/ FaultStep

Spec == Init /\ [][Next]_vars

-----------------------------------------------------------------------------
(* Safety.                                                                 *)

\* The one-time entries that have been inserted and are still there.
Waiting == {i \in Present(sched) : ~IsCron(sched[i]) /\ ~Started(sched[i])}

\* x answers for the claim on entry i: it has picked i and not yet passed it
\* on, or it is the Run that was started for i.
Owns(x, i) ==
    \/ pc[x] \in Claiming /\ target[x] = i
    \/ x \in RunSlots /\ pc[x] \in Running /\ scheduleId[x] = i

\* The Run in r has gone on for longer than its entry's lifetime allows.
Late(r) == now - since[r] > MaxLifetime

\* An asynchronous request is executed at most once, whatever races for it,
\* crashes, or is finalized by force: the compare-and-set of
\* pickScheduleForMe, the Schedule::getById of Run::executeRequest and the
\* deletion in finalizeRun together never let a second Execution start.
AtMostOneExecution == \A i \in Ids : executions[i] <= 1

\* A one-time entry that is gone without having been executed was lost to a
\* fault, or was taken away by a forced finalize after its lifetime.
NoLostRequest ==
    \A i \in 1 .. inserted :
        sched[i] = Null /\ executions[i] = 0
            => faults > 0 \/ now > MaxLifetime + 1

\* A queue has at most one started entry: schedule.php, "there is an Run going
\* on ... and other may not be started with same Id".
OneStartedPerQueue ==
    \A i, j \in Present(sched) :
        /\ i # j
        /\ sched[i].preserveOrderId = sched[j].preserveOrderId
        => ~(Started(sched[i]) /\ Started(sched[j]))

\* Two Runs of one queue execute at the same time only if one of them has
\* outlived POStartedMaxLifetime, after which its entry may be taken over.
QueueExclusive ==
    \A r1, r2 \in RunSlots :
        /\ r1 # r2
        /\ pc[r1] = "exec" /\ pc[r2] = "exec"
        /\ p[r1].preserveOrderId = p[r2].preserveOrderId
        => Late(r1) \/ Late(r2)

\* As long as nothing fails, a started entry blocks its queue only while some
\* live process is still going to release it (finalizeRun "must happen
\* ALWAYS").
ClaimHasOwner ==
    faults = 0 =>
        \A i \in Present(sched) :
            Started(sched[i]) => \E x \in Pickers : Owns(x, i)

-----------------------------------------------------------------------------
(* The inductive invariant behind AtMostOneExecution.                      *)

\* At each label the variables the next step reads are set; a service has no
\* Run's labels, and a draft is a fresh document.
ShapeOK ==
    /\ \A x \in Pickers :
          /\ pc[x] \in Claiming \cup {"pick"} => target[x] \in Ids
          /\ pc[x] \in {"pick", "evictWrite", "finWrite"} => p[x] \in Entry
    /\ \A s \in Services : pc[s] \notin RunLabels
    /\ \A r \in RunSlots : pc[r] \in Running => scheduleId[r] \in Ids
    /\ \A a \in Apis : draft[a] # Null =>
          draft[a].lastRun = Null /\ ~Started(draft[a]) /\ ~IsCron(draft[a])

\* An _id is used once: nothing knows of an entry that was not yet inserted.
KnownIds ==
    /\ \A i \in Ids : i > inserted => sched[i] = Null /\ executions[i] = 0
    /\ \A x \in Pickers : target[x] # Null => target[x] <= inserted
    /\ \A r \in RunSlots : scheduleId[r] # Null => scheduleId[r] <= inserted

OneTime(i) == sched[i] # Null /\ ~IsCron(sched[i])

\* A one-time entry is never released once it was started, so lastRun tells
\* whether it was: this is what the compare-and-set relies on.
LastRunTells ==
    \A i \in Ids : OneTime(i) => (Started(sched[i]) <=> sched[i].lastRun # Null)

\* The copies of entries that pickers act on: the queue of an entry never
\* changes, and an unstarted copy of a one-time entry has no lastRun.
CopyOK(x) ==
    /\ pc[x] = "pick" /\ OneTime(target[x]) /\ ~Started(p[x])
          => p[x].lastRun = Null
    /\ pc[x] = "evictWrite" /\ sched[target[x]] # Null
          => (IsCron(p[x]) <=> IsCron(sched[target[x]]))
    /\ x \in RunSlots /\ pc[x] = "finWrite" /\ sched[scheduleId[x]] # Null
          => (IsCron(p[x]) <=> IsCron(sched[scheduleId[x]]))

CopiesOK == \A x \in Pickers : CopyOK(x)

\* x may still cause an execution of entry i.
Holds(x, i) ==
    \/ pc[x] = "launch" /\ target[x] = i
    \/ x \in RunSlots /\ pc[x] = "boot" /\ scheduleId[x] = i

\* A one-time entry stays started once it was executed or has an owner; at most
\* one process may still cause its execution, and only while there was none.
OneHolder ==
    \A i \in Ids : OneTime(i) =>
        /\ executions[i] > 0 => Started(sched[i])
        /\ \A x \in Pickers : Owns(x, i) => Started(sched[i])
        /\ \A x \in Pickers : Holds(x, i) =>
              /\ executions[i] = 0
              /\ \A y \in Pickers : Holds(y, i) => x = y

IInv ==
    /\ TypeOK
    /\ ShapeOK
    /\ KnownIds
    /\ LastRunTells
    /\ CopiesOK
    /\ OneHolder
    /\ AtMostOneExecution

-----------------------------------------------------------------------------
(* The inductive invariant behind ClaimHasOwner, relative to IInv.         *)

\* A Run that got past its authentication has its tenant selected; without
\* faults the others have lost their entry for good.
AuthedOrGone ==
    faults = 0 =>
        \A r \in RunSlots :
            /\ pc[r] \in {"exec", "finFind", "finWrite"}
            /\ sched[scheduleId[r]] # Null
            => authed[r]

CInv ==
    /\ ClaimHasOwner
    /\ AuthedOrGone

-----------------------------------------------------------------------------
(* Refinement: every request goes through RequestLifecycle.                *)

JobOf(i) ==
    IF executions[i] > 1 THEN "executed twice"
    ELSE IF executions[i] = 1 THEN "executed"
    ELSE IF sched[i] = Null THEN IF i > inserted THEN "none" ELSE "dropped"
    ELSE IF IsCron(sched[i]) THEN "none"
    ELSE IF Started(sched[i]) THEN "claimed" ELSE "queued"

Lifecycle == INSTANCE RequestLifecycle
                 WITH Jobs <- Ids, job <- [i \in Ids |-> JobOf(i)]

\* The schedule collection, its dispatchers and Runs implement the lifecycle of
\* a request: no step executes what was dropped or not claimed, drops what was
\* executed, claims what has been executed, or executes anything twice.
ImplementsLifecycle == Lifecycle!Spec

-----------------------------------------------------------------------------
(* Liveness.                                                               *)

\* Time has something to bring about before the bound on the clock: an entry
\* becomes due, or overdue.
ClockNeeded ==
    \E i \in Present(sched) :
        \/ sched[i].nextRun >= now
        \/ /\ Started(sched[i])
           /\ ~Overdue(sched[i], now)
           /\ sched[i].POStarted + MaxLifetime < MaxTime

\* The clock does not run towards its bound while nobody waits for it.
LazyNext == Next /\ (now' # now => ClockNeeded)

\* Every process that can take a step of its own does: the API saves what it
\* drafted, services loop and are restarted, a Run boots and finalizes.  A Run
\* may execute forever, and faults are never forced.
Fairness ==
    /\ WF_vars(Tick /\ ClockNeeded)
    /\ \A a \in Apis : WF_vars(Insert(a))
    /\ \A s \in Services : WF_vars(StartPass(s)) /\ WF_vars(Restart(s))
    /\ \A x \in Pickers : WF_vars(PassStep(x))
    /\ \A r \in RunSlots : WF_vars(RunStep(r))

LazySpec == Init /\ [][LazyNext]_vars /\ Fairness

\* A one-time entry does not stay in the collection forever, whatever crashes
\* and even if its Run hangs: it is deleted after its Run or by force.
EntryRetired ==
    \A i \in Ids :
        sched[i] # Null /\ ~IsCron(sched[i]) ~> sched[i] = Null

\* Queued, then executed or dropped: the promise of RequestLifecycle with its
\* fairness.
ImplementsFairLifecycle == Lifecycle!FairSpec

-----------------------------------------------------------------------------
(* What comments of the code say and the code does not do.                 *)

\* getNextRunnableByPOID, "we'll just pick the oldest one if no Started
\* threads": an entry is not started while an older one of its queue waits.
OldestFirst ==
    [][ \A i, j \in Ids :
          /\ i \in Waiting /\ j \in Waiting /\ j < i
          /\ sched[i].preserveOrderId = sched[j].preserveOrderId
          => sched'[i] # Null /\ ~Started(sched'[i]) ]_vars
=============================================================================
