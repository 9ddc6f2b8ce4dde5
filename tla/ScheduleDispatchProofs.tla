------------------------ MODULE ScheduleDispatchProofs ------------------------
(***************************************************************************)
(* An asynchronous request is executed at most once: IInv is an inductive  *)
(* invariant of ScheduleDispatch, for any number of services, Runs,        *)
(* tenants, queues, entries and faults.                                    *)
(*                                                                         *)
(* Most steps are one process taking a step that starts no entry and no    *)
(* Execution; StepOfOne and QuietStep prove those once.  The steps that    *)
(* matter have proofs of their own: PickWon (the compare-and-set), Launch  *)
(* (the hold on an entry changes hands) and BootOk (the Execution).        *)
(*                                                                         *)
(* On top of IInv: the abstract life of a request is implemented, a claim  *)
(* has an owner, no request is lost, and queues that nothing is added to   *)
(* are worked off one request at a time.                                   *)
(*                                                                         *)
(* Last, the collection with admins at work on it: what holds of           *)
(* ScheduleDispatch still does, no two processes answer for one entry      *)
(* before something fails, a deleted entry stays deleted, and a tenant's   *)
(* cron entries are bounded by the admins that set it.  An admin's step    *)
(* deletes, rewrites or adds one cron entry (AdminMoves), so the           *)
(* invariants of the dispatch need one more case each.                     *)
(***************************************************************************)
EXTENDS CronAdmin, FiniteSetTheorems, SequenceTheorems, TLAPS

\* What schedule.php makes of an entry (a fresh one, a picked one, one set for
\* its next time) is an entry again, and which of its fields it sets.
LEMMA EntryFacts ==
    /\ Null \notin Entry
    /\ \A q \in Poids, tenant \in Tenants, next \in Nat :
          /\ NewEntry(q, tenant, next) \in Entry
          /\ NewEntry(q, tenant, next).lastRun = Null
          /\ ~Started(NewEntry(q, tenant, next))
          /\ NewEntry(q, tenant, next).preserveOrderId = q
    /\ \A e \in Entry, x \in Pickers, t \in Nat :
          /\ Picked(e, x, t) \in Entry
          /\ Picked(e, x, t).lastRun # Null
          /\ Started(Picked(e, x, t))
          /\ (IsCron(Picked(e, x, t)) <=> IsCron(e))
    /\ \A e \in Entry, next \in Nat :
          /\ Rescheduled(e, next) \in Entry
          /\ (IsCron(Rescheduled(e, next)) <=> IsCron(e))
<1>1. Null \notin Entry
  BY NullIsNoEntry
<1>2. ASSUME NEW q \in Poids, NEW tenant \in Tenants, NEW next \in Nat
      PROVE  /\ NewEntry(q, tenant, next) \in Entry
             /\ NewEntry(q, tenant, next).lastRun = Null
             /\ ~Started(NewEntry(q, tenant, next))
             /\ NewEntry(q, tenant, next).preserveOrderId = q
  BY DEF NewEntry, Entry, Started
<1>3. ASSUME NEW e \in Entry, NEW x \in Pickers, NEW t \in Nat
      PROVE  /\ Picked(e, x, t) \in Entry
             /\ Picked(e, x, t).lastRun # Null
             /\ Started(Picked(e, x, t))
             /\ (IsCron(Picked(e, x, t)) <=> IsCron(e))
  BY StoreAssumption DEF Picked, Entry, Started, IsCron
<1>4. ASSUME NEW e \in Entry, NEW next \in Nat
      PROVE  /\ Rescheduled(e, next) \in Entry
             /\ (IsCron(Rescheduled(e, next)) <=> IsCron(e))
  BY DEF Rescheduled, Entry, IsCron
<1>5. QED
  BY <1>1, <1>2, <1>3, <1>4

\* What one picker does to its own variables disturbs no other's.
OthersUnchanged(x) ==
    /\ \A y \in Pickers \ {x} :
          pc'[y] = pc[y] /\ target'[y] = target[y] /\ p'[y] = p[y]
    /\ \A r \in RunSlots \ {x} : scheduleId'[r] = scheduleId[r]

\* The collection changes by deleting entries and by rescheduling cron entries.
OnlyFinalized ==
    \A j \in Ids :
        \/ sched'[j] = sched[j]
        \/ sched'[j] = Null
        \/ /\ sched[j] # Null /\ IsCron(sched[j])
           /\ sched'[j] # Null /\ IsCron(sched'[j])

\* A step of x that starts no entry, starts no execution and gives x nothing it
\* could start an execution from keeps the invariant if x is left in order.
LEMMA StepOfOne ==
    ASSUME IInv, NEW x \in Pickers, TypeOK', OthersUnchanged(x), OnlyFinalized,
           UNCHANGED <<inserted, draft, executions>>,
           pc'[x] \in Claiming \cup {"pick"} => target'[x] \in Ids,
           pc'[x] \in {"pick", "evictWrite", "finWrite"} => p'[x] \in Entry,
           x \in Services => pc'[x] \notin RunLabels,
           x \in RunSlots /\ pc'[x] \in Running => scheduleId'[x] \in Ids,
           target'[x] # Null => target'[x] <= inserted,
           x \in RunSlots /\ scheduleId'[x] # Null => scheduleId'[x] <= inserted,
           CopyOK(x)',
           \A i \in Ids : Holds(x, i)' => Holds(x, i),
           \A i \in Ids : Owns(x, i)' => Owns(x, i)
    PROVE  IInv'
<1>1. ShapeOK'
  <2>1. ASSUME NEW y \in Pickers
        PROVE  /\ pc'[y] \in Claiming \cup {"pick"} => target'[y] \in Ids
               /\ pc'[y] \in {"pick", "evictWrite", "finWrite"} => p'[y] \in Entry
    BY DEF IInv, ShapeOK, OthersUnchanged
  <2>2. ASSUME NEW s \in Services
        PROVE  pc'[s] \notin RunLabels
    BY DEF IInv, ShapeOK, OthersUnchanged, Pickers
  <2>3. ASSUME NEW r \in RunSlots, pc'[r] \in Running
        PROVE  scheduleId'[r] \in Ids
    BY <2>3 DEF IInv, ShapeOK, OthersUnchanged, Pickers
  <2>4. QED
    BY <2>1, <2>2, <2>3 DEF IInv, ShapeOK
<1>2. KnownIds'
  <2>1. \A i \in Ids : i > inserted => sched'[i] = Null
    BY DEF IInv, KnownIds, OnlyFinalized
  <2>2. ASSUME NEW y \in Pickers, target'[y] # Null
        PROVE  target'[y] <= inserted
    BY <2>2 DEF IInv, KnownIds, OthersUnchanged
  <2>3. ASSUME NEW r \in RunSlots, scheduleId'[r] # Null
        PROVE  scheduleId'[r] <= inserted
    BY <2>3 DEF IInv, KnownIds, OthersUnchanged, Pickers
  <2>4. QED
    BY <2>1, <2>2, <2>3 DEF IInv, KnownIds
<1>3. \A i \in Ids : OneTime(i)' => OneTime(i) /\ sched'[i] = sched[i]
  BY DEF OnlyFinalized, OneTime
<1>4. LastRunTells'
  BY <1>3 DEF IInv, LastRunTells
<1>5. CopiesOK'
  <2>1. ASSUME NEW y \in Pickers, y # x
        PROVE  CopyOK(y)'
    <3>1. CopyOK(y)
      BY DEF IInv, CopiesOK
    <3>2. /\ pc'[y] = pc[y] /\ target'[y] = target[y] /\ p'[y] = p[y]
          /\ y \in RunSlots => scheduleId'[y] = scheduleId[y]
      BY <2>1 DEF OthersUnchanged
    <3>3. pc[y] \in {"pick", "evictWrite"} => target[y] \in Ids
      BY DEF IInv, ShapeOK, Claiming
    <3>4. y \in RunSlots /\ pc[y] = "finWrite" => scheduleId[y] \in Ids
      BY DEF IInv, ShapeOK, Running
    <3>5. \A j \in Ids : sched'[j] # Null =>
             sched[j] # Null /\ (IsCron(sched'[j]) <=> IsCron(sched[j]))
      BY DEF OnlyFinalized
    <3>6. QED
      BY <3>1, <3>2, <3>3, <3>4, <3>5 DEF CopyOK, OneTime
  <2>2. QED
    BY <2>1 DEF CopiesOK
<1>6. OneHolder'
  <2>1. ASSUME NEW y \in Pickers, NEW i \in Ids, Holds(y, i)'
        PROVE  Holds(y, i)
    BY <2>1 DEF Holds, OthersUnchanged
  <2>2. ASSUME NEW y \in Pickers, NEW i \in Ids, Owns(y, i)'
        PROVE  Owns(y, i)
    BY <2>2 DEF Owns, OthersUnchanged
  <2>3. QED
    BY <1>3, <2>1, <2>2 DEF IInv, OneHolder
<1>7. AtMostOneExecution'
  BY DEF IInv, AtMostOneExecution
<1>8. QED
  BY <1>1, <1>2, <1>4, <1>5, <1>6, <1>7 DEF IInv

\* In particular a step that leaves x with no entry to act on but, at finFind,
\* its own Run's.
LEMMA QuietStep ==
    ASSUME IInv, NEW x \in Pickers, TypeOK', OthersUnchanged(x), OnlyFinalized,
           UNCHANGED <<inserted, draft, executions>>,
           pc'[x] \in {"idle", "down", "free", "loop", "finFind"},
           x \in Services => pc'[x] \notin {"free", "finFind"},
           target'[x] \in {target[x], Null},
           x \in RunSlots => scheduleId'[x] \in {scheduleId[x], Null},
           pc'[x] = "finFind" =>
               pc[x] \in Running /\ scheduleId'[x] = scheduleId[x]
    PROVE  IInv'
<1>1. pc'[x] \notin Claiming \cup {"pick", "evictWrite", "finWrite", "launch", "boot"}
  BY DEF Claiming
<1>2. x \in Services => pc'[x] \notin RunLabels
  BY DEF RunLabels
<1>3. x \in RunSlots /\ pc'[x] \in Running => scheduleId'[x] \in Ids
  BY DEF Running, IInv, ShapeOK
<1>4. /\ target'[x] # Null => target'[x] <= inserted
      /\ x \in RunSlots /\ scheduleId'[x] # Null => scheduleId'[x] <= inserted
  BY DEF IInv, KnownIds
<1>5. CopyOK(x)' /\ \A i \in Ids : ~Holds(x, i)'
  BY <1>1 DEF CopyOK, Holds
<1>6. \A i \in Ids : Owns(x, i)' => Owns(x, i)
  BY <1>1 DEF Owns, Running
<1>7. QED
  BY <1>1, <1>2, <1>3, <1>4, <1>5, <1>6, StepOfOne

\* The compare-and-set of pickScheduleForMe: a won pick of an unstarted one-time
\* entry gives the picker the only hold on it, as nobody held it before; a won
\* pick of a started one only prepares its forced finalize.
LEMMA PickWonInv ==
    ASSUME IInv, NEW x \in Pickers, PickWon(x)
    PROVE  IInv'
<1> DEFINE i == target[x]
           e == Picked(sched[i], x, now)
<1>1. /\ i \in Ids
      /\ sched[i] \in Entry /\ sched[i] # Null
      /\ p[x] \in Entry
      /\ now \in Nat
      /\ i <= inserted
      /\ pc[x] = "pick"
  <2>1. pc[x] = "pick" /\ i \in Ids /\ p[x] \in Entry
    BY DEF IInv, ShapeOK, PickWon
  <2>2. i # Null
    BY <2>1, StoreAssumption DEF Ids
  <2>3. QED
    BY <2>1, <2>2 DEF IInv, TypeOK, KnownIds, PickWon, PickMatches
<1>2. /\ e \in Entry /\ e # Null
      /\ Started(e) /\ e.lastRun # Null
      /\ (IsCron(e) <=> IsCron(sched[i]))
  BY <1>1, EntryFacts
<1> HIDE DEF e
<1>3. /\ sched' \in [Ids -> Entry \cup {Null}]
      /\ sched'[i] = e
      /\ \A j \in Ids : j # i => sched'[j] = sched[j]
      /\ \A j \in Ids : sched'[j] # Null <=> sched[j] # Null
      /\ \A j \in Ids : sched[j] # Null => (IsCron(sched'[j]) <=> IsCron(sched[j]))
      /\ \A j \in Ids : OneTime(j)' <=> OneTime(j)
  BY <1>1, <1>2 DEF IInv, TypeOK, PickWon, e, OneTime
<1>4. /\ pc' \in [Pickers -> ServiceLabels \cup PassLabels \cup RunLabels]
      /\ pc'[x] = (IF Started(p[x]) THEN "evictFind" ELSE "launch")
      /\ \A y \in Pickers : y # x => pc'[y] = pc[y]
      /\ since' \in [Pickers -> Nat]
  BY <1>1 DEF IInv, TypeOK, PickWon, PassLabels
<1>5. UNCHANGED <<now, inserted, draft, nrlessthan, todo, target, p, scheduleId, authed, executions, faults>>
  BY DEF PickWon, apiVars, passVars, runVars
<1>6. OneTime(i) /\ ~Started(p[x]) => ~Started(sched[i])
  BY <1>1 DEF IInv, LastRunTells, CopiesOK, CopyOK, PickWon, PickMatches
<1> HIDE DEF i
<1>a. TypeOK'
  BY <1>3, <1>4, <1>5 DEF IInv, TypeOK
<1>b. ShapeOK'
  <2>1. ASSUME NEW y \in Pickers
        PROVE  /\ pc'[y] \in Claiming \cup {"pick"} => target'[y] \in Ids
               /\ pc'[y] \in {"pick", "evictWrite", "finWrite"} => p'[y] \in Entry
    BY <1>1, <1>4, <1>5 DEF IInv, ShapeOK, Claiming, i
  <2>2. \A s \in Services : pc'[s] \notin RunLabels
    BY <1>4 DEF IInv, ShapeOK, RunLabels, Pickers
  <2>3. \A r \in RunSlots : pc'[r] \in Running => scheduleId'[r] \in Ids
    BY <1>4, <1>5 DEF IInv, ShapeOK, Running, Pickers
  <2>4. QED
    BY <1>5, <2>1, <2>2, <2>3 DEF IInv, ShapeOK
<1>c. KnownIds'
  BY <1>1, <1>3, <1>5 DEF IInv, KnownIds
<1>d. LastRunTells'
  BY <1>2, <1>3 DEF IInv, LastRunTells
<1>e. CopiesOK'
  <2>1. pc'[x] \notin {"pick", "evictWrite", "finWrite"}
    BY <1>4
  <2>2. ASSUME NEW y \in Pickers, y # x
        PROVE  CopyOK(y)'
    <3>1. CopyOK(y)
      BY DEF IInv, CopiesOK
    <3>2. pc'[y] = pc[y] /\ target'[y] = target[y] /\ p'[y] = p[y]
      BY <1>4, <1>5, <2>2
    <3>3. pc[y] \in {"pick", "evictWrite"} => target[y] \in Ids
      BY DEF IInv, ShapeOK, Claiming
    <3>4. y \in RunSlots /\ pc[y] = "finWrite" => scheduleId[y] \in Ids
      BY DEF IInv, ShapeOK, Running
    <3>5. QED
      BY <1>3, <1>5, <3>1, <3>2, <3>3, <3>4 DEF CopyOK
  <2>3. CopyOK(x)'
    BY <2>1 DEF CopyOK
  <2>4. QED
    BY <2>2, <2>3 DEF CopiesOK
<1>f. OneHolder'
  <2>1. \A y \in Pickers, j \in Ids : Holds(y, j)' =>
           \/ Holds(y, j) /\ y # x
           \/ y = x /\ j = i /\ ~Started(p[x])
    BY <1>1, <1>4, <1>5 DEF Holds, i
  <2>o. \A y \in Pickers, j \in Ids : Owns(y, j)' => Owns(y, j) \/ j = i
    BY <1>1, <1>4, <1>5 DEF Owns, Running, i
  <2>2. ASSUME NEW j \in Ids, OneTime(j)'
        PROVE  /\ executions'[j] > 0 => Started(sched'[j])
               /\ \A y \in Pickers : Owns(y, j)' => Started(sched'[j])
               /\ \A y \in Pickers : Holds(y, j)' =>
                     /\ executions'[j] = 0
                     /\ \A z \in Pickers : Holds(z, j)' => y = z
    <3>1. CASE j # i
      BY <1>3, <1>5, <2>1, <2>o, <2>2, <3>1 DEF IInv, OneHolder
    <3>2. CASE j = i /\ Started(p[x])
      BY <1>2, <1>3, <1>5, <2>1, <2>2, <3>2 DEF IInv, OneHolder
    <3>3. CASE j = i /\ ~Started(p[x])
      <4>1. \A y \in Pickers : ~Holds(y, j)
        BY <1>3, <1>6, <2>2, <3>3 DEF IInv, OneHolder, Holds, Owns, Claiming, Running
      <4>2. executions[j] = 0
        BY <1>3, <1>6, <2>2, <3>3 DEF IInv, OneHolder, TypeOK
      <4>3. QED
        BY <1>2, <1>3, <1>5, <2>1, <3>3, <4>1, <4>2
    <3>4. QED
      BY <3>1, <3>2, <3>3
  <2>3. QED
    BY <2>2 DEF OneHolder
<1>g. AtMostOneExecution'
  BY <1>5 DEF IInv, AtMostOneExecution
<1>8. QED
  BY <1>a, <1>b, <1>c, <1>d, <1>e, <1>f, <1>g DEF IInv

\* A picker that is done with an entry, or whose process ends, is left in order.
PassTypeOK ==
    /\ pc \in [Pickers -> ServiceLabels \cup PassLabels \cup RunLabels]
    /\ nrlessthan \in [Pickers -> Nat]
    /\ todo \in [Pickers -> SUBSET Poids]
    /\ target \in [Pickers -> Ids \cup {Null}]
    /\ p \in [Pickers -> Entry \cup {Null}]
    /\ since \in [Pickers -> Nat]

RunTypeOK ==
    /\ scheduleId \in [RunSlots -> Ids \cup {Null}]
    /\ authed \in [RunSlots -> BOOLEAN]

\* What Continue does to the state, when nothing but the picker moves.
LEMMA ContinueFacts ==
    ASSUME TypeOK, NEW x \in Pickers, NEW rest \in SUBSET Poids,
           Continue(x, rest), UNCHANGED runVars
    PROVE  /\ PassTypeOK' /\ RunTypeOK'
           /\ OthersUnchanged(x)
           /\ pc'[x] \in {"loop", "idle", "free"}
           /\ x \in Services => pc'[x] # "free"
           /\ target'[x] = Null
           /\ x \in RunSlots => scheduleId'[x] = scheduleId[x]
<1>1. AfterEntry(x, rest) \in {"loop", "idle", "free"}
      /\ (x \in Services => AfterEntry(x, rest) # "free")
  BY DEF AfterEntry
<1>2. PassTypeOK' /\ RunTypeOK'
  BY <1>1 DEF PassTypeOK, RunTypeOK, TypeOK, Continue, runVars, ServiceLabels,
              PassLabels, RunLabels
<1>3. QED
  BY <1>1, <1>2 DEF OthersUnchanged, TypeOK, Continue, runVars, Pickers

\* What Ends does to the state, when nothing but the process moves.
LEMMA EndsFacts ==
    ASSUME TypeOK, NEW x \in Pickers, Ends(x)
    PROVE  /\ PassTypeOK' /\ RunTypeOK'
           /\ OthersUnchanged(x)
           /\ pc'[x] \in {"down", "free"}
           /\ x \in Services => pc'[x] # "free"
           /\ target'[x] = Null
           /\ x \in RunSlots => scheduleId'[x] = Null
<1>1. PassTypeOK' /\ RunTypeOK'
  BY DEF PassTypeOK, RunTypeOK, TypeOK, Ends, ServiceLabels, RunLabels
<1>2. QED
  BY <1>1 DEF OthersUnchanged, TypeOK, Ends, Pickers

\* `continue` and `return` of the foreach keep the invariant.
LEMMA ContinueStep ==
    ASSUME IInv, NEW x \in Pickers, NEW rest \in SUBSET Poids, Continue(x, rest),
           sched' \in [Ids -> Entry \cup {Null}], OnlyFinalized,
           UNCHANGED <<now, apiVars, runVars, executions, faults>>
    PROVE  IInv'
<1>1. TypeOK
  BY DEF IInv
<1>2. TypeOK'
  BY <1>1, ContinueFacts DEF TypeOK, PassTypeOK, RunTypeOK, apiVars
<1>3. QED
  BY <1>1, <1>2, ContinueFacts, QuietStep DEF apiVars

\* So does the end of a process.
LEMMA EndsStep ==
    ASSUME IInv, NEW x \in Pickers, Ends(x), faults' \in 0 .. MaxFaults,
           UNCHANGED <<now, sched, apiVars, executions>>
    PROVE  IInv'
<1>1. TypeOK
  BY DEF IInv
<1>2. TypeOK'
  BY <1>1, EndsFacts DEF TypeOK, PassTypeOK, RunTypeOK, apiVars
<1>3. OnlyFinalized
  BY DEF OnlyFinalized
<1>4. QED
  BY <1>1, <1>2, <1>3, EndsFacts, QuietStep DEF apiVars

-----------------------------------------------------------------------------
(* The actions, one by one.                                                *)

\* The passing of time: no part of the invariant but the type speaks of it.
LEMMA TickInv == IInv /\ Tick => IInv'
<1> SUFFICES ASSUME IInv, Tick PROVE IInv'
  OBVIOUS
<1>1. UNCHANGED <<sched, inserted, draft, pc, nrlessthan, todo, target, p, scheduleId, authed, since, executions, faults>>
  BY DEF Tick, apiVars, passVars, runVars
<1>2. TypeOK'
  BY <1>1, DispatchAssumption DEF IInv, TypeOK, Tick
<1>3. ShapeOK' /\ KnownIds'
  BY <1>1 DEF IInv, ShapeOK, KnownIds
<1>4. LastRunTells' /\ CopiesOK'
  BY <1>1 DEF IInv, LastRunTells, CopiesOK, CopyOK, OneTime
<1>5. OneHolder' /\ AtMostOneExecution'
  BY <1>1 DEF IInv, OneHolder, AtMostOneExecution, Holds, Owns, OneTime
<1>6. QED
  BY <1>2, <1>3, <1>4, <1>5 DEF IInv

\* The faults of one step stay within their budget.
LEMMA FaultFacts == TypeOK /\ Fault => faults' \in 0 .. MaxFaults
BY DispatchAssumption DEF TypeOK, Fault

\* The start of a pass.
LEMMA StartPassInv ==
    ASSUME IInv, NEW s \in Services, StartPass(s)
    PROVE  IInv'
<1>1. s \in Pickers /\ DistinctPoids(sched, now) \in SUBSET Poids
  BY DEF Pickers, DistinctPoids
<1>2. UNCHANGED <<now, sched, inserted, draft, target, p, scheduleId, authed, since, executions, faults>>
  BY DEF StartPass, apiVars, runVars
<1>3. TypeOK'
  BY <1>1, <1>2 DEF IInv, TypeOK, StartPass, PassLabels
<1>4. OthersUnchanged(s) /\ pc'[s] = "loop"
  BY <1>1, <1>2 DEF IInv, TypeOK, StartPass, OthersUnchanged
<1>5. OnlyFinalized
  BY <1>2 DEF OnlyFinalized
<1>6. QED
  BY <1>1, <1>2, <1>3, <1>4, <1>5, QuietStep

\* The start of a service by cron.
LEMMA RestartInv ==
    ASSUME IInv, NEW s \in Services, Restart(s)
    PROVE  IInv'
<1>1. s \in Pickers
  BY DEF Pickers
<1>2. UNCHANGED <<now, sched, inserted, draft, nrlessthan, todo, target, p, scheduleId, authed, since, executions, faults>>
  BY DEF Restart, apiVars, runVars, passVars
<1>3. TypeOK'
  BY <1>1, <1>2 DEF IInv, TypeOK, Restart, ServiceLabels
<1>4. OthersUnchanged(s) /\ pc'[s] = "idle"
  BY <1>1, <1>2 DEF IInv, TypeOK, Restart, OthersUnchanged
<1>5. OnlyFinalized
  BY <1>2 DEF OnlyFinalized
<1>6. QED
  BY <1>1, <1>2, <1>3, <1>4, <1>5, QuietStep

\* The steps of a pass that find nothing to do, and those that end a process.
LEMMA PassOverInv ==
    ASSUME IInv, NEW x \in Pickers, NEW q \in Poids,
           QueueDrained(x, q) \/ QueueBusy(x, q) \/ PickLost(x)
    PROVE  IInv'
<1>1. /\ todo[x] \in SUBSET Poids /\ todo[x] \ {q} \in SUBSET Poids
      /\ {} \in SUBSET Poids
      /\ sched \in [Ids -> Entry \cup {Null}]
  BY DEF IInv, TypeOK
<1>2. sched' = sched => OnlyFinalized
  BY DEF OnlyFinalized
<1>3. CASE QueueDrained(x, q)
  BY <1>1, <1>2, <1>3, ContinueStep DEF QueueDrained
<1>4. CASE QueueBusy(x, q)
  BY <1>1, <1>2, <1>4, ContinueStep DEF QueueBusy
<1>5. CASE PickLost(x)
  BY <1>1, <1>2, <1>5, ContinueStep DEF PickLost
<1>6. QED
  BY <1>3, <1>4, <1>5

\* A launch that fails, and a kill.
LEMMA ProcessEndsInv ==
    ASSUME IInv, NEW x \in Pickers, LaunchFails(x) \/ Kill(x)
    PROVE  IInv'
<1>1. TypeOK
  BY DEF IInv
<1>2. CASE LaunchFails(x)
  BY <1>1, <1>2, FaultFacts, EndsStep DEF LaunchFails
<1>3. CASE Kill(x)
  BY <1>1, <1>3, FaultFacts, EndsStep DEF Kill
<1>4. QED
  BY <1>2, <1>3

\* A Run goes on to finalize its entry.
LEMMA ToFinalizeInv ==
    ASSUME IInv, NEW r \in RunSlots, BootGone(r) \/ BootDenied(r) \/ Finish(r)
    PROVE  IInv'
<1>1. r \in Pickers /\ pc[r] \in Running
  BY DEF Pickers, BootGone, BootDenied, Finish, Running
<1>2. pc' = [pc EXCEPT ![r] = "finFind"]
  BY DEF BootGone, BootDenied, Finish
<1>3. UNCHANGED <<now, sched, inserted, draft, nrlessthan, todo, target, p, scheduleId, authed, since, executions>>
  BY DEF BootGone, BootDenied, Finish, apiVars, runVars, passVars
<1>4. faults' \in 0 .. MaxFaults
  BY FaultFacts DEF IInv, TypeOK, BootGone, BootDenied, Finish
<1>5. TypeOK'
  BY <1>1, <1>2, <1>3, <1>4 DEF IInv, TypeOK, RunLabels
<1>6. OthersUnchanged(r) /\ pc'[r] = "finFind"
  BY <1>1, <1>2, <1>3 DEF IInv, TypeOK, OthersUnchanged
<1>7. OnlyFinalized
  BY <1>3 DEF OnlyFinalized
<1>8. r \notin Services
  BY StoreAssumption
<1>9. QED
  BY <1>1, <1>3, <1>5, <1>6, <1>7, <1>8, QuietStep

\* The read of a forced finalizeRun: the copy is of the entry's own queue.
LEMMA EvictFindInv ==
    ASSUME IInv, NEW x \in Pickers, EvictFind(x)
    PROVE  IInv'
<1>1. CASE sched[target[x]] = Null
  <2>1. Ends(x) /\ faults' \in 0 .. MaxFaults
    BY <1>1 DEF EvictFind, IInv, TypeOK
  <2>2. QED
    BY <2>1, EndsStep DEF EvictFind
<1>2. CASE sched[target[x]] # Null
  <2>1. /\ UNCHANGED <<now, sched, inserted, draft, nrlessthan, todo, target, scheduleId, authed, since, executions, faults>>
        /\ pc' = [pc EXCEPT ![x] = "evictWrite"]
        /\ p' = [p EXCEPT ![x] = sched[target[x]]]
        /\ pc[x] = "evictFind"
    BY <1>2 DEF EvictFind, apiVars, runVars
  <2>2. target[x] \in Ids /\ sched[target[x]] \in Entry
    BY <1>2, <2>1 DEF IInv, TypeOK, ShapeOK, Claiming
  <2>3. TypeOK'
    BY <2>1, <2>2 DEF IInv, TypeOK, PassLabels
  <2>4. /\ OthersUnchanged(x) /\ OnlyFinalized
        /\ pc'[x] = "evictWrite" /\ p'[x] = sched[target[x]]
    BY <2>1 DEF IInv, TypeOK, OthersUnchanged, OnlyFinalized
  <2>5. /\ CopyOK(x)' /\ \A i \in Ids : ~Holds(x, i)'
        /\ \A i \in Ids : Owns(x, i)' => Owns(x, i)
    BY <2>1, <2>4 DEF CopyOK, Holds, Owns, Claiming, Running
  <2>6. pc'[x] \notin RunLabels /\ pc'[x] \notin Running
    BY <2>4 DEF RunLabels, Running
  <2>7. /\ target'[x] # Null => target'[x] <= inserted
        /\ x \in RunSlots /\ scheduleId'[x] # Null => scheduleId'[x] <= inserted
    BY <2>1 DEF IInv, KnownIds
  <2>8. QED
    BY <2>1, <2>2, <2>3, <2>4, <2>5, <2>6, <2>7, StepOfOne
<1>3. QED
  BY <1>1, <1>2

\* The read of a Run's finalizeRun.
LEMMA FinFindInv ==
    ASSUME IInv, NEW r \in RunSlots, FinFind(r)
    PROVE  IInv'
<1>0. r \in Pickers /\ r \notin Services
  BY StoreAssumption DEF Pickers
<1>1. CASE sched[scheduleId[r]] = Null
  <2>1. Ends(r) /\ faults' \in 0 .. MaxFaults
    BY <1>1 DEF FinFind, IInv, TypeOK
  <2>2. QED
    BY <1>0, <2>1, EndsStep DEF FinFind
<1>2. CASE sched[scheduleId[r]] # Null
  <2>1. /\ UNCHANGED <<now, sched, inserted, draft, nrlessthan, todo, target, scheduleId, authed, since, executions, faults>>
        /\ pc' = [pc EXCEPT ![r] = "finWrite"]
        /\ p' = [p EXCEPT ![r] = sched[scheduleId[r]]]
        /\ pc[r] = "finFind"
    BY <1>2 DEF FinFind, apiVars, runVars
  <2>2. scheduleId[r] \in Ids /\ sched[scheduleId[r]] \in Entry
    BY <1>2, <2>1 DEF IInv, TypeOK, ShapeOK, Running
  <2>3. TypeOK'
    BY <1>0, <2>1, <2>2 DEF IInv, TypeOK, RunLabels
  <2>4. /\ OthersUnchanged(r) /\ OnlyFinalized
        /\ pc'[r] = "finWrite" /\ p'[r] = sched[scheduleId[r]]
    BY <1>0, <2>1 DEF IInv, TypeOK, OthersUnchanged, OnlyFinalized
  <2>5. /\ CopyOK(r)' /\ \A i \in Ids : ~Holds(r, i)'
        /\ \A i \in Ids : Owns(r, i)' => Owns(r, i)
    BY <2>1, <2>4 DEF CopyOK, Holds, Owns, Claiming, Running
  <2>6. pc'[r] \notin Claiming
    BY <2>4 DEF Claiming
  <2>7. /\ target'[r] # Null => target'[r] <= inserted
        /\ r \in RunSlots /\ scheduleId'[r] # Null => scheduleId'[r] <= inserted
    BY <1>0, <2>1 DEF IInv, KnownIds
  <2>8. QED
    BY <1>0, <2>1, <2>2, <2>3, <2>4, <2>5, <2>6, <2>7, StepOfOne
<1>3. QED
  BY <1>1, <1>2

\* What finalizeRun writes, if the copy it read is of the entry's queue.
LEMMA FinalizedFacts ==
    ASSUME TypeOK, NEW i \in Ids, NEW doc, NEW next \in Nat, NEW b \in BOOLEAN,
           Finalized(i, doc, b, next), IsCron(doc) <=> IsCron(sched[i])
    PROVE  sched' \in [Ids -> Entry \cup {Null}] /\ OnlyFinalized
<1>1. sched[i] \in Entry /\ sched[i] # Null
  BY DEF TypeOK, Finalized
<1>2. /\ Rescheduled(sched[i], next) \in Entry /\ Rescheduled(sched[i], next) # Null
      /\ (IsCron(Rescheduled(sched[i], next)) <=> IsCron(sched[i]))
  BY <1>1, EntryFacts
<1>3. CASE IsCron(doc)
  BY <1>1, <1>2, <1>3 DEF TypeOK, Finalized, OnlyFinalized
<1>4. CASE ~IsCron(doc)
  BY <1>1, <1>4 DEF TypeOK, Finalized, OnlyFinalized
<1>5. QED
  BY <1>3, <1>4

\* getNextRunFromCron returns a time.
LEMMA CronTimesAreTimes ==
    TypeOK => \A next \in CronTimes(now) : next \in Nat
BY StoreAssumption, DispatchAssumption DEF TypeOK, CronTimes

\* The write of a forced finalizeRun.
LEMMA EvictWriteInv ==
    ASSUME IInv, NEW x \in Pickers, EvictWrite(x)
    PROVE  IInv'
<1>1. PICK next \in CronTimes(now) :
          \/ /\ Finalized(target[x], p[x], TRUE, next)
             /\ Continue(x, todo[x])
             /\ UNCHANGED runVars
          \/ /\ FinalizeFails(target[x], p[x], TRUE, next)
             /\ Ends(x)
             /\ UNCHANGED sched
  BY DEF EvictWrite
<1>2. UNCHANGED <<now, apiVars, executions, faults>> /\ pc[x] = "evictWrite"
  BY DEF EvictWrite
<1>3. TypeOK /\ next \in Nat /\ target[x] \in Ids /\ todo[x] \in SUBSET Poids
  BY <1>2, CronTimesAreTimes DEF IInv, TypeOK, ShapeOK, Claiming
<1>4. CASE Ends(x) /\ UNCHANGED sched
  BY <1>2, <1>3, <1>4, EndsStep DEF TypeOK
<1>5. CASE /\ Finalized(target[x], p[x], TRUE, next)
           /\ Continue(x, todo[x])
           /\ UNCHANGED runVars
  <2>1. IsCron(p[x]) <=> IsCron(sched[target[x]])
    BY <1>2, <1>5 DEF IInv, CopiesOK, CopyOK, Finalized
  <2>2. sched' \in [Ids -> Entry \cup {Null}] /\ OnlyFinalized
    BY <1>3, <1>5, <2>1, FinalizedFacts
  <2>3. QED
    BY <1>2, <1>3, <1>5, <2>2, ContinueStep
<1>6. QED
  BY <1>1, <1>4, <1>5

\* The write of a Run's finalizeRun, and the start of its pass.
LEMMA FinWriteInv ==
    ASSUME IInv, NEW r \in RunSlots, FinWrite(r)
    PROVE  IInv'
<1>0. r \in Pickers /\ r \notin Services
  BY StoreAssumption DEF Pickers
<1>1. UNCHANGED <<now, inserted, draft, executions, faults>> /\ pc[r] = "finWrite"
  BY DEF FinWrite, apiVars
<1>2. TypeOK /\ scheduleId[r] \in Ids /\ p[r] \in Entry /\ now \in Nat
  BY <1>0, <1>1, DispatchAssumption DEF IInv, TypeOK, ShapeOK, Running
<1>3. CASE Ends(r) /\ UNCHANGED sched
  BY <1>0, <1>1, <1>2, <1>3, EndsStep DEF TypeOK, apiVars
<1>4. ASSUME NEW next \in CronTimes(now), Finalized(scheduleId[r], p[r], authed[r], next),
             pc' = [pc EXCEPT ![r] = "loop"],
             nrlessthan' = [nrlessthan EXCEPT ![r] = now],
             todo' = [todo EXCEPT ![r] = {p[r].preserveOrderId}],
             p' = [p EXCEPT ![r] = Null],
             since' = [since EXCEPT ![r] = 0],
             scheduleId' = [scheduleId EXCEPT ![r] = Null],
             authed' = [authed EXCEPT ![r] = FALSE],
             UNCHANGED target
      PROVE  IInv'
  <2>1. IsCron(p[r]) <=> IsCron(sched[scheduleId[r]])
    BY <1>0, <1>1, <1>4 DEF IInv, CopiesOK, CopyOK, Finalized
  <2>2. authed[r] \in BOOLEAN /\ next \in Nat
    BY <1>2, CronTimesAreTimes DEF TypeOK
  <2>3. sched' \in [Ids -> Entry \cup {Null}] /\ OnlyFinalized
    BY <1>2, <1>4, <2>1, <2>2, FinalizedFacts
  <2>4. p[r].preserveOrderId \in Poids
    BY <1>2 DEF Entry
  <2>5. TypeOK'
    BY <1>0, <1>1, <1>2, <1>4, <2>3, <2>4 DEF TypeOK, PassLabels
  <2>6. /\ OthersUnchanged(r)
        /\ pc'[r] = "loop" /\ target'[r] = target[r] /\ scheduleId'[r] = Null
    BY <1>0, <1>2, <1>4 DEF TypeOK, OthersUnchanged
  <2>7. QED
    BY <1>0, <1>1, <2>3, <2>5, <2>6, QuietStep
<1>5. QED
  BY <1>3, <1>4 DEF FinWrite

\* The read of the next entry of a queue: if the copy is unstarted, the entry
\* has no lastRun.
LEMMA QueueReadyInv ==
    ASSUME IInv, NEW x \in Pickers, NEW q \in Poids, QueueReady(x, q)
    PROVE  IInv'
<1>1. PICK i \in Ids :
          /\ IsNextRunnable(sched, nrlessthan[x], q, i)
          /\ target' = [target EXCEPT ![x] = i]
          /\ p' = [p EXCEPT ![x] = sched[i]]
  BY DEF QueueReady
<1>2. /\ UNCHANGED <<now, sched, inserted, draft, nrlessthan, scheduleId, authed, since, executions, faults>>
      /\ todo' = [todo EXCEPT ![x] = @ \ {q}]
      /\ pc' = [pc EXCEPT ![x] = "pick"]
  BY DEF QueueReady, apiVars, runVars
<1>3. sched[i] \in Entry /\ sched[i] # Null /\ i <= inserted
  BY <1>1, StoreAssumption DEF IInv, TypeOK, KnownIds, IsNextRunnable, Matching, Present, Ids
<1>4. TypeOK'
  BY <1>1, <1>2, <1>3 DEF IInv, TypeOK, PassLabels
<1>5. /\ OthersUnchanged(x) /\ OnlyFinalized
      /\ pc'[x] = "pick" /\ target'[x] = i /\ p'[x] = sched[i]
  BY <1>1, <1>2 DEF IInv, TypeOK, OthersUnchanged, OnlyFinalized
<1>6. CopyOK(x)'
  BY <1>2, <1>5 DEF CopyOK, OneTime, IInv, LastRunTells, Started
<1>7. \A j \in Ids : ~Holds(x, j)' /\ ~Owns(x, j)'
  BY <1>5 DEF Holds, Owns, Claiming, Running
<1>8. pc'[x] \notin RunLabels /\ pc'[x] \notin Running
  BY <1>5 DEF RunLabels, Running
<1>9. x \in RunSlots /\ scheduleId'[x] # Null => scheduleId'[x] <= inserted
  BY <1>2 DEF IInv, KnownIds
<1>10. QED
  BY <1>2, <1>3, <1>4, <1>5, <1>6, <1>7, <1>8, <1>9, StepOfOne

\* A launch passes the hold on the entry from the picker to the Run.
LEMMA LaunchInv ==
    ASSUME IInv, NEW x \in Pickers, NEW r \in RunSlots, Launch(x, r)
    PROVE  IInv'
<1> DEFINE i == target[x]
<1>1. /\ r \in Pickers /\ r \notin Services /\ x # r
      /\ pc[x] = "launch" /\ pc[r] = "free"
  BY StoreAssumption DEF Pickers, Launch
<1>2. i \in Ids /\ i # Null /\ i <= inserted
  BY <1>1, StoreAssumption DEF IInv, ShapeOK, KnownIds, Claiming, Ids
<1>3. /\ UNCHANGED <<now, sched, inserted, draft, todo, authed, executions, faults>>
      /\ pc' = [pc EXCEPT ![x] = AfterEntry(x, todo[x]), ![r] = "boot"]
      /\ scheduleId' = [scheduleId EXCEPT ![r] = i]
      /\ since' = [since EXCEPT ![x] = 0, ![r] = since[x]]
      /\ nrlessthan' = [nrlessthan EXCEPT ![x] = IF todo[x] = {} THEN 0 ELSE @]
      /\ target' = [target EXCEPT ![x] = Null]
      /\ p' = [p EXCEPT ![x] = Null]
  BY DEF Launch, apiVars
<1>4. /\ AfterEntry(x, todo[x]) \in {"loop", "idle", "free"}
      /\ x \in Services => AfterEntry(x, todo[x]) # "free"
  BY DEF AfterEntry
<1>5. /\ pc'[x] \in {"loop", "idle", "free"} /\ (x \in Services => pc'[x] # "free")
      /\ pc'[r] = "boot"
      /\ \A y \in Pickers \ {x, r} : pc'[y] = pc[y]
      /\ target'[x] = Null /\ p'[x] = Null /\ scheduleId'[r] = i
      /\ \A y \in Pickers \ {x} : target'[y] = target[y] /\ p'[y] = p[y]
      /\ \A y \in RunSlots \ {r} : scheduleId'[y] = scheduleId[y]
  BY <1>1, <1>3, <1>4 DEF IInv, TypeOK
<1> HIDE DEF i
<1>a. TypeOK'
  BY <1>1, <1>2, <1>3, <1>4 DEF IInv, TypeOK, ServiceLabels, PassLabels, RunLabels
<1>b. ShapeOK'
  <2>1. ASSUME NEW y \in Pickers
        PROVE  /\ pc'[y] \in Claiming \cup {"pick"} => target'[y] \in Ids
               /\ pc'[y] \in {"pick", "evictWrite", "finWrite"} => p'[y] \in Entry
    BY <1>5 DEF IInv, ShapeOK, Claiming
  <2>2. \A s \in Services : pc'[s] \notin RunLabels
    BY <1>1, <1>5 DEF IInv, ShapeOK, RunLabels, Pickers
  <2>3. \A y \in RunSlots : pc'[y] \in Running => scheduleId'[y] \in Ids
    BY <1>1, <1>2, <1>5 DEF IInv, ShapeOK, Running, Pickers
  <2>4. QED
    BY <1>3, <2>1, <2>2, <2>3 DEF IInv, ShapeOK
<1>c. KnownIds'
  BY <1>2, <1>3, <1>5 DEF IInv, KnownIds
<1>d. LastRunTells'
  BY <1>3 DEF IInv, LastRunTells, OneTime
<1>e. CopiesOK'
  <2>1. ASSUME NEW y \in Pickers
        PROVE  CopyOK(y)'
    <3>1. CASE y \in {x, r}
      BY <1>5, <3>1 DEF CopyOK
    <3>2. CASE y \notin {x, r}
      <4>1. CopyOK(y)
        BY DEF IInv, CopiesOK
      <4>2. /\ pc'[y] = pc[y] /\ target'[y] = target[y] /\ p'[y] = p[y]
            /\ y \in RunSlots => scheduleId'[y] = scheduleId[y]
        BY <1>5, <3>2
      <4>3. QED
        BY <1>3, <4>1, <4>2 DEF CopyOK, OneTime
    <3>3. QED
      BY <3>1, <3>2
  <2>2. QED
    BY <2>1 DEF CopiesOK
<1>f. OneHolder'
  <2>1. Holds(x, i)
    BY <1>1 DEF Holds, i
  <2>2. \A y \in Pickers, j \in Ids : Holds(y, j)' =>
           \/ y = r /\ j = i
           \/ y # r /\ y # x /\ Holds(y, j)
    BY <1>1, <1>5 DEF Holds
  <2>3. Owns(x, i)
    BY <1>1 DEF Owns, Claiming, i
  <2>4. \A y \in Pickers, j \in Ids : Owns(y, j)' => Owns(y, j) \/ j = i
    BY <1>1, <1>5 DEF Owns, Claiming, Running
  <2>5. QED
    BY <1>1, <1>3, <2>1, <2>2, <2>3, <2>4 DEF IInv, OneHolder, OneTime
<1>g. AtMostOneExecution'
  BY <1>3 DEF IInv, AtMostOneExecution
<1>8. QED
  BY <1>a, <1>b, <1>c, <1>d, <1>e, <1>f, <1>g DEF IInv

\* The one execution: the Run gives up its hold, nobody else has one.
LEMMA BootOkInv ==
    ASSUME IInv, NEW r \in RunSlots, BootOk(r)
    PROVE  IInv'
<1> DEFINE i == scheduleId[r]
<1>1. /\ r \in Pickers /\ r \notin Services /\ pc[r] = "boot"
      /\ i \in Ids /\ sched[i] # Null
      /\ i <= inserted
  BY StoreAssumption DEF Pickers, BootOk, IInv, ShapeOK, KnownIds, Running, Ids
<1>2. /\ UNCHANGED <<now, sched, inserted, draft, nrlessthan, todo, target, scheduleId, since, faults>>
      /\ pc' = [pc EXCEPT ![r] = "exec"]
      /\ authed' = [authed EXCEPT ![r] = TRUE]
      /\ p' = [p EXCEPT ![r] = sched[i]]
  BY DEF BootOk, apiVars
<1>3. /\ pc'[r] = "exec"
      /\ p' \in [Pickers -> Entry \cup {Null}]
      /\ \A y \in Pickers \ {r} : pc'[y] = pc[y] /\ p'[y] = p[y]
  BY <1>1, <1>2 DEF IInv, TypeOK
<1>4. Holds(r, i)
  BY <1>1 DEF Holds
<1>5. OneTime(i) => executions[i] = 0 /\ executions'[i] = 1
  BY <1>1, <1>4 DEF IInv, OneHolder, OneTime, BootOk, TypeOK
<1>6. /\ executions' \in [Ids -> 0 .. 2]
      /\ \A j \in Ids : j # i => executions'[j] = executions[j]
      /\ ~OneTime(i) => executions' = executions
  BY <1>1, <1>5 DEF BootOk, IInv, TypeOK, OneTime
<1> HIDE DEF i
<1>a. TypeOK'
  BY <1>1, <1>2, <1>3, <1>6 DEF IInv, TypeOK, RunLabels
<1>b. ShapeOK'
  <2>1. ASSUME NEW y \in Pickers
        PROVE  /\ pc'[y] \in Claiming \cup {"pick"} => target'[y] \in Ids
               /\ pc'[y] \in {"pick", "evictWrite", "finWrite"} => p'[y] \in Entry
    BY <1>2, <1>3 DEF IInv, ShapeOK, Claiming
  <2>2. \A s \in Services : pc'[s] \notin RunLabels
    BY <1>1, <1>3 DEF IInv, ShapeOK, RunLabels, Pickers
  <2>3. \A y \in RunSlots : pc'[y] \in Running => scheduleId'[y] \in Ids
    BY <1>1, <1>2, <1>3 DEF IInv, ShapeOK, Running, Pickers, i
  <2>4. QED
    BY <1>2, <2>1, <2>2, <2>3 DEF IInv, ShapeOK
<1>c. KnownIds'
  BY <1>1, <1>2, <1>6, StoreAssumption DEF IInv, KnownIds, TypeOK, Ids
<1>d. LastRunTells'
  BY <1>2 DEF IInv, LastRunTells, OneTime
<1>e. CopiesOK'
  <2>1. ASSUME NEW y \in Pickers
        PROVE  CopyOK(y)'
    BY <1>2, <1>3 DEF IInv, CopiesOK, CopyOK, OneTime
  <2>2. QED
    BY <2>1 DEF CopiesOK
<1>f. OneHolder'
  <2>1. \A y \in Pickers, j \in Ids : Holds(y, j)' => y # r /\ Holds(y, j)
    BY <1>2, <1>3 DEF Holds
  <2>o. \A y \in Pickers, j \in Ids : Owns(y, j)' => Owns(y, j)
    BY <1>1, <1>2, <1>3 DEF Owns, Claiming, Running
  <2>2. OneTime(i) => Started(sched[i]) /\ \A y \in Pickers : Holds(y, i) => y = r
    BY <1>1, <1>4 DEF IInv, OneHolder, Holds, Owns, Running
  <2>3. ASSUME NEW j \in Ids, OneTime(j)'
        PROVE  /\ executions'[j] > 0 => Started(sched'[j])
               /\ \A y \in Pickers : Owns(y, j)' => Started(sched'[j])
               /\ \A y \in Pickers : Holds(y, j)' =>
                     /\ executions'[j] = 0
                     /\ \A z \in Pickers : Holds(z, j)' => y = z
    <3>1. OneTime(j)
      BY <1>2, <2>3 DEF OneTime
    <3>2. CASE j = i
      BY <1>2, <2>1, <2>2, <3>1, <3>2
    <3>3. CASE j # i
      BY <1>2, <1>6, <2>1, <2>o, <3>1, <3>3 DEF IInv, OneHolder
    <3>4. QED
      BY <3>2, <3>3
  <2>4. QED
    BY <2>3 DEF OneHolder
<1>g. AtMostOneExecution'
  BY <1>5, <1>6 DEF IInv, AtMostOneExecution
<1>8. QED
  BY <1>a, <1>b, <1>c, <1>d, <1>e, <1>f, <1>g DEF IInv

\* getNextPOIDForImplementationId never chooses the cron queue.
LEMMA NextPoidsArePoids ==
    \A c, tenant : NextPoids(c, tenant) \subseteq Poids \ {CronPoid}
BY StoreAssumption DEF NextPoids, Poids, CronPoid

\* An entry that is not inserted yet is nobody's business.
LEMMA DraftInv ==
    ASSUME IInv, NEW a \in Apis, Draft(a)
    PROVE  IInv'
<1>1. PICK tenant \in Tenants : \E q \in NextPoids(sched, tenant) :
          draft' = [draft EXCEPT ![a] = NewEntry(q, tenant, now)]
  BY DEF Draft
<1>q. PICK q \in NextPoids(sched, tenant) :
          draft' = [draft EXCEPT ![a] = NewEntry(q, tenant, now)]
  BY <1>1
<1>2. q \in Poids /\ q # CronPoid /\ now \in Nat
  BY NextPoidsArePoids, DispatchAssumption DEF IInv, TypeOK
<1>3. /\ NewEntry(q, tenant, now) \in Entry
      /\ NewEntry(q, tenant, now).lastRun = Null
      /\ ~Started(NewEntry(q, tenant, now))
      /\ ~IsCron(NewEntry(q, tenant, now))
  BY <1>2, EntryFacts DEF IsCron
<1>4. UNCHANGED <<now, sched, inserted, pc, nrlessthan, todo, target, p, scheduleId, authed, since, executions, faults>>
  BY DEF Draft, passVars, runVars
<1>5. TypeOK'
  BY <1>q, <1>3, <1>4 DEF IInv, TypeOK
<1>6. ShapeOK'
  <2>1. ASSUME NEW b \in Apis, draft'[b] # Null
        PROVE  draft'[b].lastRun = Null /\ ~Started(draft'[b]) /\ ~IsCron(draft'[b])
    BY <1>q, <1>3, <2>1 DEF IInv, TypeOK, ShapeOK
  <2>2. QED
    BY <1>4, <2>1 DEF IInv, ShapeOK
<1>7. KnownIds' /\ LastRunTells' /\ CopiesOK'
  BY <1>4 DEF IInv, KnownIds, LastRunTells, CopiesOK, CopyOK, OneTime
<1>8. OneHolder' /\ AtMostOneExecution'
  BY <1>4 DEF IInv, OneHolder, AtMostOneExecution, Holds, Owns, OneTime
<1>9. QED
  BY <1>5, <1>6, <1>7, <1>8 DEF IInv

\* A new entry has an _id nobody knows yet.
LEMMA InsertInv ==
    ASSUME IInv, NEW a \in Apis, Insert(a)
    PROVE  IInv'
<1> DEFINE i == inserted + 1
<1>1. /\ i \in Ids /\ inserted \in Nat
      /\ draft[a] \in Entry /\ draft[a] # Null
      /\ draft[a].lastRun = Null /\ ~Started(draft[a]) /\ ~IsCron(draft[a])
  BY StoreAssumption DEF IInv, TypeOK, ShapeOK, Insert, Ids
<1>2. /\ UNCHANGED <<now, pc, nrlessthan, todo, target, p, scheduleId, authed, since, executions, faults>>
      /\ inserted' = i
      /\ sched' = [sched EXCEPT ![i] = draft[a]]
      /\ draft' = [draft EXCEPT ![a] = Null]
  BY DEF Insert, passVars, runVars
<1>3. /\ sched' \in [Ids -> Entry \cup {Null}]
      /\ sched'[i] = draft[a]
      /\ \A j \in Ids : j # i => sched'[j] = sched[j]
  BY <1>1, <1>2 DEF IInv, TypeOK
<1>4. /\ executions[i] = 0
      /\ \A x \in Pickers : target[x] # i
      /\ \A r \in RunSlots : scheduleId[r] # i
  BY <1>1, StoreAssumption DEF IInv, KnownIds, Ids
<1> HIDE DEF i
<1>a. TypeOK'
  BY <1>1, <1>2, <1>3, StoreAssumption DEF IInv, TypeOK, Insert, i, Ids
<1>b. ShapeOK'
  BY <1>1, <1>2 DEF IInv, TypeOK, ShapeOK
<1>c. KnownIds'
  <2>1. \A j \in Ids : j > i => sched'[j] = Null /\ executions[j] = 0
    BY <1>1, <1>3 DEF IInv, KnownIds, i, Ids
  <2>2. \A x \in Pickers : target[x] # Null => target[x] <= i
    BY <1>1, StoreAssumption DEF IInv, TypeOK, KnownIds, i, Ids
  <2>3. \A r \in RunSlots : scheduleId[r] # Null => scheduleId[r] <= i
    BY <1>1, StoreAssumption DEF IInv, TypeOK, KnownIds, i, Ids
  <2>4. QED
    BY <1>2, <2>1, <2>2, <2>3 DEF KnownIds
<1>d. LastRunTells'
  BY <1>1, <1>3 DEF IInv, LastRunTells, OneTime
<1>e. CopiesOK'
  <2>1. ASSUME NEW x \in Pickers
        PROVE  CopyOK(x)'
    <3>1. CopyOK(x)
      BY DEF IInv, CopiesOK
    <3>2. pc[x] \in {"pick", "evictWrite"} => target[x] \in Ids
      BY DEF IInv, ShapeOK, Claiming
    <3>3. x \in RunSlots /\ pc[x] = "finWrite" => scheduleId[x] \in Ids
      BY DEF IInv, ShapeOK, Running
    <3>4. QED
      BY <1>2, <1>3, <1>4, <3>1, <3>2, <3>3 DEF CopyOK, OneTime
  <2>2. QED
    BY <2>1 DEF CopiesOK
<1>f. OneHolder'
  <2>1. \A x \in Pickers, j \in Ids : Holds(x, j)' => Holds(x, j) /\ j # i
    BY <1>2, <1>4 DEF Holds
  <2>o. \A x \in Pickers, j \in Ids : Owns(x, j)' => Owns(x, j) /\ j # i
    BY <1>2, <1>4 DEF Owns
  <2>2. ASSUME NEW j \in Ids, OneTime(j)'
        PROVE  /\ executions'[j] > 0 => Started(sched'[j])
               /\ \A y \in Pickers : Owns(y, j)' => Started(sched'[j])
               /\ \A y \in Pickers : Holds(y, j)' =>
                     /\ executions'[j] = 0
                     /\ \A z \in Pickers : Holds(z, j)' => y = z
    <3>1. CASE j = i
      BY <1>2, <1>4, <2>1, <2>o, <3>1
    <3>2. CASE j # i
      BY <1>2, <1>3, <2>1, <2>o, <2>2, <3>2 DEF IInv, OneHolder, OneTime
    <3>3. QED
      BY <3>1, <3>2
  <2>3. QED
    BY <2>2 DEF OneHolder
<1>g. AtMostOneExecution'
  BY <1>2 DEF IInv, AtMostOneExecution
<1>8. QED
  BY <1>a, <1>b, <1>c, <1>d, <1>e, <1>f, <1>g DEF IInv

-----------------------------------------------------------------------------
(* The theorems.                                                           *)

\* The backlog consists of documents nobody has touched yet.
LEMMA BacklogFacts ==
    ASSUME Init, NEW i \in Ids, i <= Len(Backlog)
    PROVE  /\ sched[i] \in Entry /\ sched[i] # Null
           /\ sched[i].lastRun = Null /\ ~Started(sched[i])
<1>1. i \in 1 .. Len(Backlog)
  BY StoreAssumption, DispatchAssumption DEF Ids
<1>2. Backlog[i] \in [preserveOrderId : Poids, tenantId : Tenants]
  BY <1>1, DispatchAssumption, ElementOfSeq, Zenon
<1>3. Backlog[i].preserveOrderId \in Poids /\ Backlog[i].tenantId \in Tenants
  BY <1>2
<1>4. sched[i] = NewEntry(Backlog[i].preserveOrderId, Backlog[i].tenantId, 0)
  BY DEF Init
<1>5. QED
  BY <1>3, <1>4, EntryFacts

\* The invariant holds when the system starts on a backlog.
LEMMA InitInv == Init => IInv
<1> SUFFICES ASSUME Init PROVE IInv
  OBVIOUS
<1>1. \A i \in Ids : i <= Len(Backlog) =>
          /\ sched[i] \in Entry /\ sched[i] # Null
          /\ sched[i].lastRun = Null /\ ~Started(sched[i])
  BY BacklogFacts
<1>2. Len(Backlog) \in Nat /\ Len(Backlog) <= MaxEntries
  BY DispatchAssumption
<1>3. TypeOK
  <2>1. ASSUME NEW i \in Ids
        PROVE  sched[i] \in Entry \cup {Null}
    BY <1>1 DEF Init
  <2>2. sched \in [Ids -> Entry \cup {Null}]
    BY <2>1 DEF Init
  <2>3. now \in 0 .. MaxTime /\ inserted \in 0 .. MaxEntries /\ faults \in 0 .. MaxFaults
    BY <1>2, StoreAssumption, DispatchAssumption DEF Init
  <2>4. pc \in [Pickers -> ServiceLabels \cup PassLabels \cup RunLabels]
    BY DEF Init, ServiceLabels, RunLabels
  <2>5. QED
    BY <2>2, <2>3, <2>4 DEF Init, TypeOK
<1>4. ShapeOK
  BY StoreAssumption DEF Init, ShapeOK, Claiming, Running, RunLabels, Pickers
<1>5. KnownIds
  BY <1>2, StoreAssumption DEF Init, KnownIds, Ids
<1>6. LastRunTells
  BY <1>1 DEF Init, LastRunTells, OneTime
<1>7. CopiesOK
  BY DEF Init, CopiesOK, CopyOK
<1>8. OneHolder /\ AtMostOneExecution
  BY DEF Init, OneHolder, AtMostOneExecution, Holds, Owns, Claiming, Running
<1>9. QED
  BY <1>3, <1>4, <1>5, <1>6, <1>7, <1>8 DEF IInv

\* The invariant speaks of nothing but vars.
LEMMA StutterInv == IInv /\ UNCHANGED vars => IInv'
<1> SUFFICES ASSUME IInv, UNCHANGED vars PROVE IInv'
  OBVIOUS
<1>1. UNCHANGED <<now, sched, inserted, draft, pc, nrlessthan, todo, target, p, scheduleId, authed, since, executions, faults>>
  BY DEF vars, apiVars, passVars, runVars
<1>2. TypeOK' /\ ShapeOK' /\ KnownIds'
  BY <1>1 DEF IInv, TypeOK, ShapeOK, KnownIds
<1>3. LastRunTells' /\ CopiesOK'
  BY <1>1 DEF IInv, LastRunTells, CopiesOK, CopyOK, OneTime
<1>4. OneHolder' /\ AtMostOneExecution'
  BY <1>1 DEF IInv, OneHolder, AtMostOneExecution, Holds, Owns, OneTime
<1>5. QED
  BY <1>2, <1>3, <1>4 DEF IInv

\* The invariant is inductive: one case per action.
LEMMA NextInv == IInv /\ [Next]_vars => IInv'
<1> SUFFICES ASSUME IInv, [Next]_vars PROVE IInv'
  OBVIOUS
<1>1. CASE Tick
  BY <1>1, TickInv
<1>2. CASE \E a \in Apis : Draft(a) \/ Insert(a)
  BY <1>2, DraftInv, InsertInv
<1>3. CASE \E s \in Services : StartPass(s) \/ Restart(s)
  BY <1>3, StartPassInv, RestartInv
<1>4. CASE \E x \in Pickers : PassStep(x)
  <2>1. ASSUME NEW x \in Pickers, PassStep(x)
        PROVE  IInv'
    <3>1. CASE \E q \in Poids : QueueDrained(x, q) \/ QueueBusy(x, q)
      BY <3>1, PassOverInv
    <3>2. CASE \E q \in Poids : QueueReady(x, q)
      BY <3>2, QueueReadyInv
    <3>3. CASE PickWon(x)
      BY <3>3, PickWonInv
    <3>4. CASE PickLost(x)
      <4>1. CronPoid \in Poids
        BY StoreAssumption DEF Poids, CronPoid
      <4>2. QED
        BY <3>4, <4>1, PassOverInv
    <3>5. CASE \E r \in RunSlots : Launch(x, r)
      BY <3>5, LaunchInv
    <3>6. CASE EvictFind(x)
      BY <3>6, EvictFindInv
    <3>7. CASE EvictWrite(x)
      BY <3>7, EvictWriteInv
    <3>8. QED
      BY <2>1, <3>1, <3>2, <3>3, <3>4, <3>5, <3>6, <3>7 DEF PassStep
  <2>2. QED
    BY <1>4, <2>1
<1>5. CASE \E r \in RunSlots : RunStep(r) \/ Finish(r)
  BY <1>5, BootOkInv, ToFinalizeInv, FinFindInv, FinWriteInv DEF RunStep
<1>6. CASE FaultStep
  BY <1>6, ProcessEndsInv, ToFinalizeInv DEF FaultStep
<1>7. CASE UNCHANGED vars
  BY <1>7, StutterInv
<1>8. QED
  BY <1>1, <1>2, <1>3, <1>4, <1>5, <1>6, <1>7 DEF Next

\* IInv holds in every reachable state: the backbone of the theorems below and of
\* the refinement.  It says who may still start an Execution of an entry of
\* schedule.php (Holds), and that there is at most one such process, before the
\* Execution and never after it.
THEOREM Invariance == Spec => []IInv
BY InitInv, NextInv, PTL DEF Spec

\* Every reachable state has the declared types (all of schedule.php,
\* scheduleservice.php and run.php that the module models).
THEOREM TypeCorrect == Spec => []TypeOK
<1>1. IInv => TypeOK
  BY DEF IInv
<1>2. QED
  BY <1>1, Invariance, PTL

\* However many services, Runs, tenants and requests there are, and whatever
\* crashes: the compare-and-set of pickScheduleForMe and the deletion in
\* finalizeRun let at most one Execution start for a one-time entry.
THEOREM ExecutedAtMostOnce == Spec => []AtMostOneExecution
<1>1. IInv => AtMostOneExecution
  BY DEF IInv
<1>2. QED
  BY <1>1, Invariance, PTL

-----------------------------------------------------------------------------
(* ScheduleDispatch implements RequestLifecycle: the refinement that the   *)
(* property ImplementsLifecycle states, proved from the inductive          *)
(* invariant IInv.                                                         *)

jobs == [i \in Ids |-> JobOf(i)]

\* The value of JobOf in terms of what is known of the entry.
LEMMA JobValues ==
    ASSUME NEW i \in Ids
    PROVE  /\ executions[i] = 1 => JobOf(i) = "executed"
           /\ executions[i] = 0 /\ sched[i] = Null /\ i > inserted => JobOf(i) = "none"
           /\ executions[i] = 0 /\ sched[i] = Null /\ ~(i > inserted)
                 => JobOf(i) = "dropped"
           /\ executions[i] = 0 /\ sched[i] # Null /\ IsCron(sched[i])
                 => JobOf(i) = "none"
           /\ executions[i] = 0 /\ OneTime(i) /\ ~Started(sched[i])
                 => JobOf(i) = "queued"
           /\ executions[i] = 0 /\ OneTime(i) /\ Started(sched[i])
                 => JobOf(i) = "claimed"
BY DEF JobOf, OneTime

\* Nothing moves when neither the entry nor its executions change.
LEMMA JobKept ==
    ASSUME NEW i \in Ids, sched'[i] = sched[i], executions'[i] = executions[i],
           i > inserted <=> i > inserted'
    PROVE  JobOf(i)' = JobOf(i)
BY DEF JobOf

\* One request moving along an edge of the lifecycle is a step of it.
LEMMA OneJobMoves ==
    ASSUME NEW i \in Ids,
           \A j \in Ids : j # i => JobOf(j)' = JobOf(j),
           \/ JobOf(i)' = JobOf(i)
           \/ JobOf(i) = "none" /\ JobOf(i)' = "queued"
           \/ JobOf(i) = "queued" /\ JobOf(i)' = "claimed"
           \/ JobOf(i) = "claimed" /\ JobOf(i)' \in {"executed", "dropped"}
    PROVE  [Lifecycle!Next]_jobs
<1>1. jobs' = [jobs EXCEPT ![i] = JobOf(i)']
  BY DEF jobs
<1>2. jobs[i] = JobOf(i)
  BY DEF jobs
<1>3. CASE JobOf(i)' = JobOf(i)
  BY <1>1, <1>2, <1>3 DEF jobs
<1>4. CASE JobOf(i) = "none" /\ JobOf(i)' = "queued"
  BY <1>1, <1>2, <1>4 DEF jobs, Lifecycle!Next, Lifecycle!Submit
<1>5. CASE JobOf(i) = "queued" /\ JobOf(i)' = "claimed"
  BY <1>1, <1>2, <1>5 DEF jobs, Lifecycle!Next, Lifecycle!Claim
<1>6. CASE JobOf(i) = "claimed" /\ JobOf(i)' \in {"executed", "dropped"}
  BY <1>1, <1>2, <1>6 DEF jobs, Lifecycle!Next, Lifecycle!Execute, Lifecycle!Drop
<1>7. QED
  BY <1>3, <1>4, <1>5, <1>6

\* A step that touches neither the collection nor the executions is a stutter.
LEMMA Unmoved ==
    ASSUME UNCHANGED <<sched, inserted, executions>>
    PROVE  [Lifecycle!Next]_jobs
<1>1. \A i \in Ids : JobOf(i)' = JobOf(i)
  BY JobKept
<1>2. QED
  BY <1>1 DEF jobs

\* Schedule::saveToDb of a new entry submits its request.
LEMMA InsertSubmits ==
    ASSUME IInv, NEW a \in Apis, Insert(a)
    PROVE  [Lifecycle!Next]_jobs
<1>0. PICK i \in Ids : i = inserted + 1
  BY StoreAssumption DEF IInv, TypeOK, Insert, Ids
<1>1. /\ inserted \in Nat /\ inserted' = i
      /\ draft[a] # Null /\ ~Started(draft[a]) /\ ~IsCron(draft[a])
  BY <1>0 DEF IInv, TypeOK, ShapeOK, Insert
<1>2. sched[i] = Null /\ executions[i] = 0 /\ executions' = executions
  BY <1>0, <1>1 DEF IInv, KnownIds, Insert
<1>3. sched'[i] = draft[a] /\ \A j \in Ids : j # i => sched'[j] = sched[j]
  BY <1>0, <1>1 DEF IInv, TypeOK, Insert
<1>4. JobOf(i) = "none"
  BY <1>0, <1>1, <1>2, JobValues
<1>5. JobOf(i)' = "queued"
  BY <1>1, <1>2, <1>3 DEF JobOf
<1>6. \A j \in Ids : j # i => JobOf(j)' = JobOf(j)
  <2>1. \A j \in Ids : j # i => (j > inserted <=> j > i)
    BY <1>0, <1>1, StoreAssumption DEF Ids
  <2>2. QED
    BY <1>1, <1>2, <1>3, <2>1, JobKept
<1>7. QED
  BY <1>1, <1>4, <1>5, <1>6, OneJobMoves

\* Picking an unstarted entry claims it; picking a started one only moves the
\* claim to another owner.
LEMMA PickWonMaps ==
    ASSUME IInv, NEW x \in Pickers, PickWon(x)
    PROVE  [Lifecycle!Next]_jobs
<1>0. PICK i \in Ids : i = target[x]
  BY DEF IInv, ShapeOK, PickWon
<1> DEFINE e == Picked(sched[i], x, now)
<1>1. sched[i] \in Entry /\ sched[i] # Null /\ now \in Nat
  BY <1>0 DEF IInv, TypeOK, PickWon, PickMatches
<1>2. e # Null /\ Started(e) /\ (IsCron(e) <=> IsCron(sched[i]))
  BY <1>1, EntryFacts
<1>3. /\ sched'[i] = e /\ \A j \in Ids : j # i => sched'[j] = sched[j]
      /\ UNCHANGED <<inserted, executions>>
  BY <1>0, <1>1 DEF IInv, TypeOK, PickWon, apiVars
<1>4. executions[i] \in {0, 1}
  BY <1>1 DEF IInv, TypeOK, AtMostOneExecution
<1>5. \A j \in Ids : j # i => JobOf(j)' = JobOf(j)
  BY <1>3, JobKept
<1> HIDE DEF e
<1>6. CASE executions[i] = 1 \/ IsCron(sched[i])
  <2>1. JobOf(i)' = JobOf(i)
    BY <1>1, <1>2, <1>3, <1>4, <1>6 DEF JobOf
  <2>2. QED
    BY <1>1, <1>5, <2>1, OneJobMoves
<1>7. CASE executions[i] = 0 /\ ~IsCron(sched[i])
  <2>1. JobOf(i)' = "claimed"
    BY <1>2, <1>3, <1>7 DEF JobOf
  <2>2. JobOf(i) \in {"queued", "claimed"}
    BY <1>1, <1>7 DEF JobOf
  <2>3. QED
    BY <1>1, <1>5, <2>1, <2>2, OneJobMoves
<1>8. QED
  BY <1>4, <1>6, <1>7

\* A Run that has found its entry executes it, out of the claim it holds.
LEMMA BootExecutes ==
    ASSUME IInv, NEW r \in RunSlots, BootOk(r)
    PROVE  [Lifecycle!Next]_jobs
<1>0. PICK i \in Ids : i = scheduleId[r]
  BY DEF BootOk, IInv, ShapeOK, Running
<1>1. r \in Pickers /\ sched[i] # Null /\ Holds(r, i) /\ Owns(r, i)
  BY <1>0 DEF Pickers, BootOk, Running, Holds, Owns
<1>2. UNCHANGED <<sched, inserted>>
  BY DEF BootOk, apiVars
<1>3. CASE IsCron(sched[i])
  BY <1>0, <1>2, <1>3, Unmoved DEF BootOk
<1>4. CASE ~IsCron(sched[i])
  <2>1. OneTime(i) /\ executions[i] = 0 /\ Started(sched[i])
    BY <1>1, <1>4 DEF IInv, OneHolder, OneTime
  <2>2. /\ executions'[i] = 1
        /\ \A j \in Ids : j # i => executions'[j] = executions[j]
    BY <1>0, <1>1, <1>4, <2>1 DEF BootOk, IInv, TypeOK
  <2>3. JobOf(i) = "claimed" /\ JobOf(i)' = "executed"
    BY <1>1, <2>1, <2>2 DEF JobOf, OneTime
  <2>4. \A j \in Ids : j # i => JobOf(j)' = JobOf(j)
    BY <1>2, <2>2, JobKept
  <2>5. QED
    BY <1>1, <2>3, <2>4, OneJobMoves
<1>5. QED
  BY <1>3, <1>4

\* finalizeRun reschedules a cron entry, which is no request, or deletes a
\* one-time entry: one that was executed, or a claim that came to nothing.
LEMMA FinalizedDrops ==
    ASSUME IInv, NEW x \in Pickers, NEW i \in Ids, Owns(x, i), NEW doc,
           NEW next \in Nat, NEW b \in BOOLEAN, Finalized(i, doc, b, next),
           IsCron(doc) <=> IsCron(sched[i]),
           UNCHANGED <<inserted, executions>>
    PROVE  [Lifecycle!Next]_jobs
<1>1. sched[i] \in Entry /\ sched[i] # Null /\ executions[i] \in {0, 1}
  BY DEF IInv, TypeOK, AtMostOneExecution, Finalized
<1>2. \A j \in Ids : j # i => sched'[j] = sched[j]
  BY DEF IInv, TypeOK, Finalized
<1>3. \A j \in Ids : j # i => JobOf(j)' = JobOf(j)
  BY <1>2, JobKept
<1>4. CASE IsCron(sched[i])
  <2>1. sched'[i] # Null /\ IsCron(sched'[i])
    BY <1>1, <1>4, EntryFacts DEF IInv, TypeOK, Finalized
  <2>2. JobOf(i)' = JobOf(i)
    BY <1>1, <1>4, <2>1 DEF JobOf
  <2>3. QED
    BY <1>3, <2>2, OneJobMoves
<1>5. CASE ~IsCron(sched[i])
  <2>1. OneTime(i) /\ Started(sched[i])
    BY <1>1, <1>5 DEF IInv, OneHolder, OneTime
  <2>2. sched'[i] = Null
    BY <1>1, <1>5 DEF IInv, TypeOK, Finalized
  <2>3. ~(i > inserted)
    BY <1>1 DEF IInv, KnownIds
  <2>4. CASE executions[i] = 1
    <3>1. JobOf(i) = "executed" /\ JobOf(i)' = "executed"
      BY <2>4 DEF JobOf
    <3>2. QED
      BY <1>3, <3>1, OneJobMoves
  <2>5. CASE executions[i] = 0
    <3>1. JobOf(i) = "claimed" /\ JobOf(i)' = "dropped"
      BY <2>1, <2>2, <2>3, <2>5 DEF JobOf, OneTime
    <3>2. QED
      BY <1>3, <3>1, OneJobMoves
  <2>6. QED
    BY <1>1, <2>4, <2>5
<1>6. QED
  BY <1>4, <1>5

\* The write of a forced finalizeRun.
LEMMA EvictWriteDrops ==
    ASSUME IInv, NEW x \in Pickers, EvictWrite(x)
    PROVE  [Lifecycle!Next]_jobs
<1>1. PICK next \in CronTimes(now) :
          Finalized(target[x], p[x], TRUE, next) \/ UNCHANGED sched
  BY DEF EvictWrite
<1>2. UNCHANGED <<inserted, executions>> /\ pc[x] = "evictWrite"
  BY DEF EvictWrite, apiVars
<1>3. CASE UNCHANGED sched
  BY <1>2, <1>3, Unmoved
<1>4. CASE Finalized(target[x], p[x], TRUE, next)
  <2>1. target[x] \in Ids /\ Owns(x, target[x]) /\ next \in Nat
    BY <1>2, CronTimesAreTimes DEF IInv, ShapeOK, Owns, Claiming
  <2>2. IsCron(p[x]) <=> IsCron(sched[target[x]])
    BY <1>2, <1>4 DEF IInv, CopiesOK, CopyOK, Finalized
  <2>3. QED
    BY <1>2, <1>4, <2>1, <2>2, FinalizedDrops
<1>5. QED
  BY <1>1, <1>3, <1>4

\* The write of a Run's finalizeRun.
LEMMA FinWriteDrops ==
    ASSUME IInv, NEW r \in RunSlots, FinWrite(r)
    PROVE  [Lifecycle!Next]_jobs
<1>1. PICK next \in CronTimes(now) :
          Finalized(scheduleId[r], p[r], authed[r], next) \/ UNCHANGED sched
  BY DEF FinWrite
<1>2. UNCHANGED <<inserted, executions>> /\ pc[r] = "finWrite" /\ r \in Pickers
  BY DEF FinWrite, apiVars, Pickers
<1>3. CASE UNCHANGED sched
  BY <1>2, <1>3, Unmoved
<1>4. CASE Finalized(scheduleId[r], p[r], authed[r], next)
  <2>1. /\ scheduleId[r] \in Ids /\ Owns(r, scheduleId[r]) /\ next \in Nat
        /\ authed[r] \in BOOLEAN
    BY <1>2, CronTimesAreTimes DEF IInv, TypeOK, ShapeOK, Owns, Running
  <2>2. IsCron(p[r]) <=> IsCron(sched[scheduleId[r]])
    BY <1>2, <1>4 DEF IInv, CopiesOK, CopyOK, Finalized
  <2>3. QED
    BY <1>2, <1>4, <2>1, <2>2, FinalizedDrops
<1>5. QED
  BY <1>1, <1>3, <1>4

\* Every step of the dispatch is a step of the lifecycle or a stutter.
LEMMA StepRefines == IInv /\ [Next]_vars => [Lifecycle!Next]_jobs
<1> SUFFICES ASSUME IInv, [Next]_vars PROVE [Lifecycle!Next]_jobs
  OBVIOUS
<1>1. CASE Tick
  BY <1>1, Unmoved DEF Tick, apiVars
<1>2. CASE \E a \in Apis : Draft(a) \/ Insert(a)
  BY <1>2, Unmoved, InsertSubmits DEF Draft
<1>3. CASE \E s \in Services : StartPass(s) \/ Restart(s)
  BY <1>3, Unmoved DEF StartPass, Restart, apiVars
<1>4. CASE \E x \in Pickers : PassStep(x)
  <2>1. ASSUME NEW x \in Pickers, PassStep(x)
        PROVE  [Lifecycle!Next]_jobs
    <3>1. CASE \E q \in Poids : QueueDrained(x, q) \/ QueueBusy(x, q) \/ QueueReady(x, q)
      BY <3>1, Unmoved DEF QueueDrained, QueueBusy, QueueReady, apiVars
    <3>2. CASE PickWon(x)
      BY <3>2, PickWonMaps
    <3>3. CASE PickLost(x) \/ (\E r \in RunSlots : Launch(x, r)) \/ EvictFind(x)
      BY <3>3, Unmoved DEF PickLost, Launch, EvictFind, apiVars
    <3>4. CASE EvictWrite(x)
      BY <3>4, EvictWriteDrops
    <3>5. QED
      BY <2>1, <3>1, <3>2, <3>3, <3>4 DEF PassStep
  <2>2. QED
    BY <1>4, <2>1
<1>5. CASE \E r \in RunSlots : RunStep(r) \/ Finish(r)
  <2>1. ASSUME NEW r \in RunSlots, BootGone(r) \/ Finish(r) \/ FinFind(r)
        PROVE  [Lifecycle!Next]_jobs
    BY <2>1, Unmoved DEF BootGone, Finish, FinFind, apiVars
  <2>2. QED
    BY <1>5, <2>1, BootExecutes, FinWriteDrops DEF RunStep
<1>6. CASE FaultStep
  BY <1>6, Unmoved DEF FaultStep, Kill, LaunchFails, BootDenied, apiVars
<1>7. CASE UNCHANGED vars
  BY <1>7, Unmoved DEF vars, apiVars
<1>8. QED
  BY <1>1, <1>2, <1>3, <1>4, <1>5, <1>6, <1>7 DEF Next

\* A backlog is a set of queued requests.
LEMMA InitRefines == Init => Lifecycle!Init
<1> SUFFICES ASSUME Init PROVE jobs \in [Ids -> {"none", "queued"}]
  BY DEF Lifecycle!Init, jobs
<1>1. ASSUME NEW i \in Ids
      PROVE  JobOf(i) \in {"none", "queued"}
  <2>1. executions[i] = 0 /\ inserted = Len(Backlog)
    BY DEF Init
  <2>2. CASE i <= Len(Backlog)
    <3>1. sched[i] # Null /\ ~Started(sched[i])
      BY <2>2, BacklogFacts
    <3>2. QED
      BY <2>1, <3>1 DEF JobOf
  <2>3. CASE ~(i <= Len(Backlog))
    <3>1. sched[i] = Null /\ i > inserted
      BY <2>1, <2>3, StoreAssumption, DispatchAssumption DEF Init, Ids
    <3>2. QED
      BY <2>1, <3>1 DEF JobOf
  <2>4. QED
    BY <2>2, <2>3
<1>2. QED
  BY <1>1 DEF jobs

\* Whatever the number of processes, tenants and entries, and whatever fails:
\* every request keeps to the lifecycle.
THEOREM Refinement == Spec => ImplementsLifecycle
<1>1. jobs = [i \in Ids |-> JobOf(i)]
  BY DEF jobs
<1>2. Init => Lifecycle!Init
  BY InitRefines
<1>3. IInv /\ [Next]_vars => [Lifecycle!Next]_jobs
  BY StepRefines
<1>4. QED
  BY <1>2, <1>3, Invariance, PTL DEF Spec, ImplementsLifecycle, Lifecycle!Spec, jobs

-----------------------------------------------------------------------------
(* As long as nothing fails, a claim has a live owner: CInv is an inductive*)
(* invariant of ScheduleDispatch, relative to IInv.                        *)
(*                                                                         *)
(* An owner gives an entry up only by launching a Run, which owns it then, *)
(* or by a finalizeRun, after which the entry is gone or not started.  For *)
(* a Run's own finalizeRun the latter needs the tenant of its session.     *)
(*                                                                         *)
(* Two more hold as long as nothing fails and no entry can be overdue yet: *)
(* no request is lost (LossInv), and an entry has one owner at most        *)
(* (OwnersSole).  Both need that nobody evicts, since nothing that was     *)
(* started then is overdue.                                                *)

\* x is a Run that got past its authentication.
PastAuth(x) == x \in RunSlots /\ pc[x] \in {"exec", "finFind", "finWrite"}

\* A step of x keeps the claims owned if each claim after it is x's or was
\* another's, and no entry comes into being.
LEMMA OneMoves ==
    ASSUME IInv, CInv, faults = 0,
           NEW x \in Pickers, OthersUnchanged(x),
           \A r \in RunSlots \ {x} : authed'[r] = authed[r],
           \A i \in Ids : sched[i] = Null => sched'[i] = Null,
           \A i \in Ids : sched'[i] # Null /\ Started(sched'[i]) =>
              \/ Owns(x, i)'
              \/ sched[i] # Null /\ Started(sched[i]) /\ ~Owns(x, i),
           PastAuth(x)' /\ sched'[scheduleId'[x]] # Null => authed'[x]
    PROVE  CInv'
<1>1. ASSUME NEW i \in Ids, sched'[i] # Null, Started(sched'[i])
      PROVE  \E y \in Pickers : Owns(y, i)'
  <2>1. CASE Owns(x, i)'
    BY <2>1
  <2>2. CASE sched[i] # Null /\ Started(sched[i]) /\ ~Owns(x, i)
    <3>1. PICK y \in Pickers : Owns(y, i)
      BY <2>2 DEF CInv, ClaimHasOwner, Present
    <3>2. Owns(y, i)'
      BY <2>2, <3>1 DEF Owns, OthersUnchanged
    <3>3. QED
      BY <3>2
  <2>3. QED
    BY <1>1, <2>1, <2>2
<1>2. ClaimHasOwner'
  BY <1>1 DEF ClaimHasOwner, Present
<1>3. ASSUME NEW r \in RunSlots, PastAuth(r)', sched'[scheduleId'[r]] # Null
      PROVE  authed'[r]
  <2>1. CASE r = x
    BY <1>3, <2>1
  <2>2. CASE r # x
    <3>1. PastAuth(r) /\ scheduleId'[r] = scheduleId[r] /\ authed'[r] = authed[r]
      BY <1>3, <2>2 DEF PastAuth, OthersUnchanged, Pickers
    <3>2. scheduleId[r] \in Ids
      BY <3>1 DEF PastAuth, IInv, ShapeOK, Running
    <3>3. sched[scheduleId[r]] # Null
      BY <1>3, <3>1, <3>2
    <3>4. QED
      BY <3>1, <3>3 DEF CInv, AuthedOrGone, PastAuth
  <2>3. QED
    BY <2>1, <2>2
<1>4. QED
  BY <1>2, <1>3 DEF CInv, AuthedOrGone, PastAuth

\* In particular if it leaves x with nothing, what x owned is not started.
LEMMA LeavesNothing ==
    ASSUME IInv, CInv, faults = 0,
           NEW x \in Pickers, OthersUnchanged(x),
           \A r \in RunSlots \ {x} : authed'[r] = authed[r],
           \A i \in Ids : sched'[i] # Null /\ Started(sched'[i]) =>
              sched'[i] = sched[i] /\ ~Owns(x, i),
           \A i \in Ids : sched[i] = Null => sched'[i] = Null,
           pc'[x] \in {"idle", "down", "free", "loop", "pick"}
    PROVE  CInv'
<1>1. ~PastAuth(x)'
  BY DEF PastAuth
<1>2. QED
  BY <1>1, OneMoves

-----------------------------------------------------------------------------
(* The actions, one by one.                                                *)

\* Steps that touch neither claims nor what owners do.
LEMMA UntouchedClaims ==
    ASSUME CInv, UNCHANGED <<sched, pc, target, scheduleId, authed, faults>>
    PROVE  CInv'
BY DEF CInv, ClaimHasOwner, AuthedOrGone, Owns, Present

\* A new entry is not started, and no Run knows it.
LEMMA InsertClaims ==
    ASSUME IInv, CInv, NEW a \in Apis, Insert(a)
    PROVE  CInv'
<1>1. /\ inserted + 1 \in Ids
      /\ sched' = [sched EXCEPT ![inserted + 1] = draft[a]]
      /\ sched[inserted + 1] = Null
      /\ UNCHANGED <<pc, target, scheduleId, authed, faults>>
  BY StoreAssumption DEF Insert, IInv, TypeOK, KnownIds, Ids, passVars, runVars
<1>2. ~Started(sched'[inserted + 1])
      /\ \A i \in Ids : i # inserted + 1 => sched'[i] = sched[i]
  BY <1>1 DEF Insert, IInv, ShapeOK, TypeOK
<1>3. ClaimHasOwner'
  BY <1>1, <1>2 DEF CInv, ClaimHasOwner, Present, Owns
<1>4. \A r \in RunSlots : PastAuth(r) => /\ scheduleId[r] \in Ids
                                        /\ scheduleId[r] # inserted + 1
  <2>1. ASSUME NEW r \in RunSlots, PastAuth(r)
        PROVE  scheduleId[r] \in Ids /\ scheduleId[r] <= inserted
    BY <2>1, StoreAssumption DEF PastAuth, IInv, ShapeOK, KnownIds, Running, Ids
  <2>2. inserted \in Int /\ Ids \subseteq Int
    BY DEF IInv, TypeOK, Ids
  <2>3. QED
    BY <2>1, <2>2
<1>5. AuthedOrGone'
  BY <1>1, <1>2, <1>4 DEF CInv, AuthedOrGone, PastAuth
<1>6. QED
  BY <1>3, <1>5 DEF CInv

\* Where a picker that has claimed nothing goes on.
LEMMA PassClaims ==
    ASSUME IInv, CInv, faults = 0, NEW x \in Pickers, NEW q \in Poids,
           \/ QueueDrained(x, q) \/ QueueBusy(x, q) \/ QueueReady(x, q)
           \/ PickLost(x)
    PROVE  CInv'
<1>1. /\ pc[x] \in {"loop", "pick"}
      /\ UNCHANGED <<sched, scheduleId, authed>>
  BY DEF QueueDrained, QueueBusy, QueueReady, PickLost, runVars
<1>2. \A i \in Ids : ~Owns(x, i)
  BY <1>1 DEF Owns, Claiming, Running
<1>3. CASE \E rest \in SUBSET Poids : Continue(x, rest)
  <2>1. OthersUnchanged(x) /\ pc'[x] \in {"loop", "idle", "free"}
    BY <1>1, <1>3, ContinueFacts DEF IInv, runVars
  <2>2. QED
    BY <1>1, <1>2, <2>1, LeavesNothing
<1>4. CASE QueueReady(x, q)
  <2>1. OthersUnchanged(x) /\ pc'[x] = "pick"
    BY <1>1, <1>4 DEF QueueReady, OthersUnchanged, IInv, TypeOK, Pickers
  <2>2. QED
    BY <1>1, <1>2, <2>1, LeavesNothing
<1>5. todo[x] \in SUBSET Poids
  BY DEF IInv, TypeOK
<1>6. QED
  BY <1>3, <1>4, <1>5 DEF QueueDrained, QueueBusy, PickLost

\* A service starts a pass, or starts again.
LEMMA ServiceClaims ==
    ASSUME IInv, CInv, faults = 0, NEW s \in Services,
           StartPass(s) \/ Restart(s)
    PROVE  CInv'
<1>1. /\ s \in Pickers
      /\ pc[s] \in {"idle", "down"}
      /\ pc' \in {[pc EXCEPT ![s] = "loop"], [pc EXCEPT ![s] = "idle"]}
      /\ UNCHANGED <<sched, target, p, scheduleId, authed>>
  BY DEF StartPass, Restart, Pickers, passVars, runVars
<1>2. OthersUnchanged(s) /\ pc'[s] \in {"loop", "idle"}
  BY <1>1 DEF OthersUnchanged, IInv, TypeOK
<1>3. \A i \in Ids : ~Owns(s, i)
  BY <1>1 DEF Owns, Claiming, Running
<1>4. QED
  BY <1>1, <1>2, <1>3, LeavesNothing

\* A won pick makes the picker the owner.
LEMMA PickWonClaims ==
    ASSUME IInv, CInv, faults = 0, NEW x \in Pickers, PickWon(x)
    PROVE  CInv'
<1>1. /\ target[x] \in Ids
      /\ sched[target[x]] # Null
      /\ pc[x] = "pick"
      /\ pc' = [pc EXCEPT ![x] = IF Started(p[x]) THEN "evictFind" ELSE "launch"]
      /\ UNCHANGED <<target, p, scheduleId, authed>>
  BY DEF PickWon, PickMatches, IInv, ShapeOK, passVars, runVars
<1>2. OthersUnchanged(x) /\ pc'[x] \in {"evictFind", "launch"}
  BY <1>1 DEF OthersUnchanged, IInv, TypeOK
<1>3. \A i \in Ids : i # target[x] => sched'[i] = sched[i]
  BY DEF PickWon, IInv, TypeOK
<1>4. Owns(x, target[x])'
  BY <1>1, <1>2 DEF Owns, Claiming
<1>5. \A i \in Ids : ~Owns(x, i)
  BY <1>1 DEF Owns, Claiming, Running
<1>6. ~PastAuth(x)'
  BY <1>2 DEF PastAuth
<1>7. QED
  BY <1>1, <1>2, <1>3, <1>4, <1>5, <1>6, OneMoves

\* A launch makes the Run the owner in the picker's place.
LEMMA LaunchClaims ==
    ASSUME IInv, CInv, faults = 0, NEW x \in Pickers, NEW r \in RunSlots,
           Launch(x, r)
    PROVE  CInv'
<1>1. /\ r \in Pickers /\ r # x
      /\ pc[x] = "launch" /\ pc[r] = "free"
      /\ pc'[r] = "boot" /\ scheduleId'[r] = target[x]
      /\ pc'[x] \in {"loop", "idle", "free"}
      /\ \A y \in Pickers \ {x, r} : pc'[y] = pc[y]
      /\ \A y \in Pickers \ {x} : target'[y] = target[y]
      /\ \A y \in RunSlots \ {r} : scheduleId'[y] = scheduleId[y]
      /\ UNCHANGED <<sched, authed, faults>>
  BY DEF Launch, AfterEntry, IInv, TypeOK, Pickers
<1>0. PICK e \in Ids : e = target[x]
  BY <1>1 DEF IInv, ShapeOK, Claiming
<1>2. Owns(r, e)'
  BY <1>0, <1>1 DEF Owns, Running
<1>3. \A i \in Ids : ~Owns(r, i) /\ (Owns(x, i) => i = e)
  BY <1>0, <1>1 DEF Owns, Claiming, Running
<1>4. \A i \in Ids, y \in Pickers \ {x, r} : Owns(y, i) => Owns(y, i)'
  BY <1>1 DEF Owns
<1>5. ClaimHasOwner'
  <2>1. ASSUME NEW i \in Present(sched), Started(sched[i])
        PROVE  \E y \in Pickers : Owns(y, i)'
    <3>1. PICK y \in Pickers : Owns(y, i)
      BY <2>1 DEF CInv, ClaimHasOwner
    <3>2. i \in Ids
      BY DEF Present
    <3>3. QED
      BY <1>1, <1>2, <1>3, <1>4, <3>1, <3>2
  <2>2. QED
    BY <1>1, <2>1 DEF ClaimHasOwner, Present
<1>6. \A y \in RunSlots : PastAuth(y)' => y \notin {x, r} /\ PastAuth(y)
  BY <1>1 DEF PastAuth, Pickers
<1>7. AuthedOrGone'
  BY <1>1, <1>6 DEF CInv, AuthedOrGone, PastAuth
<1>8. QED
  BY <1>5, <1>7 DEF CInv

\* The read of a forced finalizeRun: the owner goes on, or the entry is gone.
LEMMA EvictFindClaims ==
    ASSUME IInv, CInv, faults = 0, NEW x \in Pickers, EvictFind(x)
    PROVE  CInv'
<1>1. pc[x] = "evictFind" /\ target[x] \in Ids /\ UNCHANGED sched
  BY DEF EvictFind, IInv, ShapeOK, Claiming
<1>2. \A i \in Ids : Owns(x, i) => i = target[x]
  BY <1>1 DEF Owns, Running
<1>3. CASE pc' = [pc EXCEPT ![x] = "evictWrite"] /\ UNCHANGED <<target, runVars>>
           /\ p' = [p EXCEPT ![x] = sched[target[x]]]
  <2>1. OthersUnchanged(x) /\ pc'[x] = "evictWrite"
    BY <1>3 DEF OthersUnchanged, IInv, TypeOK, runVars
  <2>2. \A i \in Ids : Owns(x, i) => Owns(x, i)'
    BY <1>1, <1>3, <2>1 DEF Owns, Claiming, Running
  <2>3. ~PastAuth(x)'
    BY <2>1 DEF PastAuth
  <2>4. \A r \in RunSlots \ {x} : authed'[r] = authed[r]
    BY <1>3 DEF runVars
  <2>5. \A i \in Ids : sched'[i] # Null /\ Started(sched'[i]) =>
           Owns(x, i)' \/ (sched[i] # Null /\ Started(sched[i]) /\ ~Owns(x, i))
    BY <1>1, <2>2
  <2>6. QED
    BY <1>1, <2>1, <2>3, <2>4, <2>5, OneMoves
<1>4. CASE sched[target[x]] = Null /\ Ends(x)
  <2>1. OthersUnchanged(x) /\ pc'[x] \in {"down", "free"}
    BY <1>4, EndsFacts DEF IInv
  <2>2. \A r \in RunSlots \ {x} : authed'[r] = authed[r]
    BY <1>4 DEF Ends, IInv, TypeOK
  <2>3. QED
    BY <1>1, <1>2, <1>4, <2>1, <2>2, LeavesNothing
<1>5. QED
  BY <1>3, <1>4 DEF EvictFind

\* After the write of a finalizeRun that holds the tenant, successful or not, the
\* entry is gone or not started, and the others are as they were.
LEMMA FinalizeReleases ==
    ASSUME TypeOK, NEW i \in Ids, NEW doc \in Entry, NEW next \in Nat,
           NEW ok \in BOOLEAN, sched[i] # Null => ok,
           IsCron(doc) => (sched[i] # Null => IsCron(sched[i])),
           \/ Finalized(i, doc, ok, next)
           \/ FinalizeFails(i, doc, ok, next) /\ UNCHANGED sched
    PROVE  /\ \A j \in Ids : j # i => sched'[j] = sched[j]
           /\ sched'[i] = Null \/ ~Started(sched'[i])
           /\ sched[i] = Null => sched'[i] = Null
<1>1. \A e \in Entry : ~Started(Rescheduled(e, next))
  BY DEF Started, Rescheduled, Entry
<1>2. CASE Finalized(i, doc, ok, next)
  BY <1>1, <1>2 DEF Finalized, TypeOK
<1>3. CASE FinalizeFails(i, doc, ok, next) /\ UNCHANGED sched
  BY <1>1, <1>3 DEF FinalizeFails, TypeOK
<1>4. QED
  BY <1>2, <1>3

\* The write of a forced finalizeRun.
LEMMA EvictWriteClaims ==
    ASSUME IInv, CInv, faults = 0, NEW x \in Pickers, EvictWrite(x)
    PROVE  CInv'
<1>1. TypeOK /\ pc[x] = "evictWrite" /\ target[x] \in Ids /\ p[x] \in Entry
  BY DEF EvictWrite, IInv, ShapeOK, Claiming
<1>2. \A i \in Ids : Owns(x, i) => i = target[x]
  BY <1>1 DEF Owns, Running
<1>3. PICK next \in CronTimes(now) :
         \/ /\ Finalized(target[x], p[x], TRUE, next)
            /\ Continue(x, todo[x])
            /\ UNCHANGED runVars
         \/ /\ FinalizeFails(target[x], p[x], TRUE, next)
            /\ Ends(x)
            /\ UNCHANGED sched
  BY DEF EvictWrite
<1>4. IsCron(p[x]) => (sched[target[x]] # Null => IsCron(sched[target[x]]))
  BY <1>1 DEF IInv, CopiesOK, CopyOK
<1>5. next \in Nat
  BY <1>1, CronTimesAreTimes
<1>6. /\ \A j \in Ids : j # target[x] => sched'[j] = sched[j]
      /\ sched'[target[x]] = Null \/ ~Started(sched'[target[x]])
      /\ sched[target[x]] = Null => sched'[target[x]] = Null
  BY <1>1, <1>3, <1>4, <1>5, FinalizeReleases
<1>7. todo[x] \in SUBSET Poids
  BY <1>1 DEF TypeOK
<1>8. /\ OthersUnchanged(x)
      /\ pc'[x] \in {"loop", "idle", "free", "down"}
  BY <1>1, <1>3, <1>7, ContinueFacts, EndsFacts
<1>9. \A r \in RunSlots \ {x} : authed'[r] = authed[r]
  BY <1>1, <1>3 DEF Ends, runVars, TypeOK
<1>10. QED
  BY <1>2, <1>6, <1>8, <1>9, LeavesNothing

\* A Run on its way to the read of its finalizeRun.
LEMMA RunClaims ==
    ASSUME IInv, CInv, faults = 0, NEW r \in RunSlots,
           BootOk(r) \/ BootGone(r) \/ Finish(r)
    PROVE  CInv'
<1>1. /\ r \in Pickers
      /\ pc[r] \in {"boot", "exec"}
      /\ scheduleId[r] \in Ids
      /\ pc' \in {[pc EXCEPT ![r] = "exec"], [pc EXCEPT ![r] = "finFind"]}
      /\ UNCHANGED <<sched, target, scheduleId>>
      /\ \A y \in Pickers \ {r} : p'[y] = p[y]
      /\ \A y \in RunSlots \ {r} : authed'[y] = authed[y]
  BY DEF BootOk, BootGone, Finish, Pickers, passVars, runVars, IInv, TypeOK,
         ShapeOK, Running
<1>2. OthersUnchanged(r) /\ pc'[r] \in {"exec", "finFind"}
  BY <1>1 DEF OthersUnchanged, IInv, TypeOK
<1>3. \A i \in Ids : Owns(r, i) => Owns(r, i)'
  BY <1>1, <1>2 DEF Owns, Claiming, Running
<1>4. sched[scheduleId[r]] # Null => authed'[r]
  <2>1. CASE BootOk(r)
    BY <2>1 DEF BootOk, IInv, TypeOK
  <2>2. CASE BootGone(r)
    BY <2>2 DEF BootGone
  <2>3. CASE Finish(r)
    BY <2>3 DEF Finish, runVars, CInv, AuthedOrGone
  <2>4. QED
    BY <2>1, <2>2, <2>3
<1>5. \A i \in Ids : sched'[i] # Null /\ Started(sched'[i]) =>
         Owns(r, i)' \/ (sched[i] # Null /\ Started(sched[i]) /\ ~Owns(r, i))
  BY <1>1, <1>3
<1>6. QED
  BY <1>1, <1>2, <1>4, <1>5, OneMoves

\* The read of a Run's finalizeRun.
LEMMA FinFindClaims ==
    ASSUME IInv, CInv, faults = 0, NEW r \in RunSlots, FinFind(r)
    PROVE  CInv'
<1>1. r \in Pickers /\ pc[r] = "finFind" /\ scheduleId[r] \in Ids /\ UNCHANGED sched
  BY DEF FinFind, IInv, ShapeOK, Running, Pickers
<1>2. \A i \in Ids : Owns(r, i) => i = scheduleId[r]
  BY <1>1 DEF Owns, Claiming
<1>3. CASE pc' = [pc EXCEPT ![r] = "finWrite"] /\ UNCHANGED <<target, runVars>>
           /\ p' = [p EXCEPT ![r] = sched[scheduleId[r]]]
  <2>1. OthersUnchanged(r) /\ pc'[r] = "finWrite" /\ UNCHANGED authed
    BY <1>1, <1>3 DEF OthersUnchanged, IInv, TypeOK, runVars
  <2>2. \A i \in Ids : Owns(r, i) => Owns(r, i)'
    BY <1>1, <1>3, <2>1 DEF Owns, Claiming, Running, runVars
  <2>3. sched[scheduleId[r]] # Null => authed[r]
    BY <1>1 DEF CInv, AuthedOrGone
  <2>4. scheduleId'[r] = scheduleId[r]
    BY <1>3 DEF runVars
  <2>5. \A i \in Ids : sched'[i] # Null /\ Started(sched'[i]) =>
           Owns(r, i)' \/ (sched[i] # Null /\ Started(sched[i]) /\ ~Owns(r, i))
    BY <1>1, <2>2
  <2>6. QED
    BY <1>1, <2>1, <2>3, <2>4, <2>5, OneMoves
<1>4. CASE sched[scheduleId[r]] = Null /\ Ends(r)
  <2>1. OthersUnchanged(r) /\ pc'[r] \in {"down", "free"}
    BY <1>1, <1>4, EndsFacts DEF IInv
  <2>2. \A y \in RunSlots \ {r} : authed'[y] = authed[y]
    BY <1>4 DEF Ends, IInv, TypeOK
  <2>3. QED
    BY <1>1, <1>2, <1>4, <2>1, <2>2, LeavesNothing
<1>5. QED
  BY <1>3, <1>4 DEF FinFind

\* The write of a Run's finalizeRun: if the entry is there, the tenant of the
\* session is the entry's.
LEMMA FinWriteClaims ==
    ASSUME IInv, CInv, faults = 0, NEW r \in RunSlots, FinWrite(r)
    PROVE  CInv'
<1>1. /\ TypeOK /\ r \in Pickers /\ pc[r] = "finWrite"
      /\ scheduleId[r] \in Ids /\ p[r] \in Entry /\ authed[r] \in BOOLEAN
  BY DEF FinWrite, IInv, ShapeOK, Running, Pickers, TypeOK
<1>2. \A i \in Ids : Owns(r, i) => i = scheduleId[r]
  BY <1>1 DEF Owns, Claiming
<1>3. sched[scheduleId[r]] # Null => authed[r]
  BY <1>1 DEF CInv, AuthedOrGone
<1>4. PICK next \in CronTimes(now) :
         \/ /\ Finalized(scheduleId[r], p[r], authed[r], next)
            /\ pc' = [pc EXCEPT ![r] = "loop"]
            /\ p' = [p EXCEPT ![r] = Null]
            /\ scheduleId' = [scheduleId EXCEPT ![r] = Null]
            /\ authed' = [authed EXCEPT ![r] = FALSE]
            /\ UNCHANGED target
         \/ /\ FinalizeFails(scheduleId[r], p[r], authed[r], next)
            /\ Ends(r)
            /\ UNCHANGED sched
  BY DEF FinWrite
<1>5. IsCron(p[r]) => (sched[scheduleId[r]] # Null => IsCron(sched[scheduleId[r]]))
  BY <1>1 DEF IInv, CopiesOK, CopyOK
<1>6. next \in Nat
  BY <1>1, CronTimesAreTimes
<1>7. /\ \A j \in Ids : j # scheduleId[r] => sched'[j] = sched[j]
      /\ sched'[scheduleId[r]] = Null \/ ~Started(sched'[scheduleId[r]])
      /\ sched[scheduleId[r]] = Null => sched'[scheduleId[r]] = Null
  BY <1>1, <1>3, <1>4, <1>5, <1>6, FinalizeReleases
<1>8. OthersUnchanged(r) /\ pc'[r] \in {"loop", "free", "down"}
  <2>1. CASE Ends(r)
    BY <1>1, <2>1, EndsFacts
  <2>2. CASE /\ pc' = [pc EXCEPT ![r] = "loop"]
             /\ p' = [p EXCEPT ![r] = Null]
             /\ scheduleId' = [scheduleId EXCEPT ![r] = Null]
             /\ UNCHANGED target
    BY <1>1, <2>2 DEF OthersUnchanged, TypeOK
  <2>3. QED
    BY <1>4, <2>1, <2>2
<1>9. \A y \in RunSlots \ {r} : authed'[y] = authed[y]
  BY <1>1, <1>4 DEF Ends, TypeOK
<1>10. QED
  BY <1>1, <1>2, <1>7, <1>8, <1>9, LeavesNothing

-----------------------------------------------------------------------------
(* The theorem.                                                            *)

\* Nothing is claimed and no Run exists when the system starts.
LEMMA InitClaims == Init => CInv
<1> SUFFICES ASSUME Init PROVE CInv
  OBVIOUS
<1>1. \A i \in Present(sched) : ~Started(sched[i])
  BY DEF Init, Present, Started, NewEntry
<1>2. \A r \in RunSlots : pc[r] = "free"
  BY StoreAssumption DEF Init, Pickers
<1>3. QED
  BY <1>1, <1>2 DEF CInv, ClaimHasOwner, AuthedOrGone

\* Only a step without a fault leads to a state without faults.
LEMMA FaultsStay ==
    ASSUME TypeOK, [Next]_vars, faults' = 0
    PROVE  faults = 0 /\ ~Fault
<1>1. faults \in Nat
  BY DispatchAssumption DEF TypeOK
<1>2. Fault \/ UNCHANGED faults
  BY DEF Next, vars, Tick, Draft, Insert, StartPass, Restart, PassStep, RunStep,
         FaultStep, QueueDrained, QueueBusy, QueueReady, PickWon, PickLost, Launch,
         EvictFind, EvictWrite, BootOk, BootGone, BootDenied, FinFind, FinWrite,
         Finish, Kill, LaunchFails
<1>3. ~Fault
  BY <1>1 DEF Fault
<1>4. QED
  BY <1>1, <1>2, <1>3

\* CInv is inductive, given IInv.
LEMMA NextClaims == IInv /\ CInv /\ [Next]_vars => CInv'
<1> SUFFICES ASSUME IInv, CInv, [Next]_vars PROVE CInv'
  OBVIOUS
<1>1. CASE faults' # 0
  BY <1>1 DEF CInv, ClaimHasOwner, AuthedOrGone
<1>2. CASE faults' = 0
  <2>1. faults = 0 /\ ~Fault
    BY <1>2, FaultsStay DEF IInv
  <2>2. CASE Tick \/ \E a \in Apis : Draft(a)
    BY <2>2, UntouchedClaims DEF Tick, Draft, passVars, runVars
  <2>3. CASE \E a \in Apis : Insert(a)
    BY <2>3, InsertClaims
  <2>4. CASE \E s \in Services : StartPass(s) \/ Restart(s)
    BY <2>1, <2>4, ServiceClaims
  <2>5. ASSUME NEW x \in Pickers, PassStep(x)
        PROVE  CInv'
    <3>1. CASE \E q \in Poids : QueueDrained(x, q) \/ QueueBusy(x, q) \/ QueueReady(x, q)
      BY <2>1, <3>1, PassClaims
    <3>2. CASE PickLost(x)
      <4>1. CronPoid \in Poids
        BY StoreAssumption DEF Poids, CronPoid
      <4>2. QED
        BY <2>1, <3>2, <4>1, PassClaims
    <3>3. CASE PickWon(x) \/ \E r \in RunSlots : Launch(x, r)
      BY <2>1, <3>3, PickWonClaims, LaunchClaims
    <3>4. CASE EvictFind(x) \/ EvictWrite(x)
      BY <2>1, <3>4, EvictFindClaims, EvictWriteClaims
    <3>5. QED
      BY <2>5, <3>1, <3>2, <3>3, <3>4 DEF PassStep
  <2>6. CASE \E r \in RunSlots : RunStep(r) \/ Finish(r)
    BY <2>1, <2>6, RunClaims, FinFindClaims, FinWriteClaims DEF RunStep
  <2>7. ~FaultStep
    BY <2>1 DEF FaultStep, Kill, LaunchFails, BootDenied
  <2>8. CASE UNCHANGED vars
    BY <2>8, UntouchedClaims DEF vars, passVars, runVars
  <2>9. QED
    BY <2>2, <2>3, <2>4, <2>5, <2>6, <2>7, <2>8 DEF Next
<1>3. QED
  BY <1>1, <1>2

\* As long as nothing fails, every started entry has a live owner that will
\* release it: finalizeRun "must happen ALWAYS", whatever takes over what, and
\* however many entries, queues and processes there are.
THEOREM ClaimsOwned == Spec => []ClaimHasOwner
<1>1. Spec => []CInv
  BY Invariance, InitClaims, NextClaims, PTL DEF Spec
<1>2. CInv => ClaimHasOwner
  BY DEF CInv
<1>3. QED
  BY <1>1, <1>2, PTL

-----------------------------------------------------------------------------
(* How an entry, a picker and a Run may change in a step.                  *)

\* What a finalizeRun makes of its entry.
FinalizedFrom(i) ==
    /\ sched[i] # Null
    /\ IF IsCron(sched[i])
       THEN \E next \in CronTimes(now) : sched'[i] = Rescheduled(sched[i], next)
       ELSE sched'[i] = Null

\* What a finalizeRun changes is its own entry.
LEMMA FinalizedMoves ==
    ASSUME TypeOK, NEW j \in Ids, NEW doc, NEW next \in CronTimes(now), NEW b \in BOOLEAN,
           Finalized(j, doc, b, next), IsCron(doc) <=> IsCron(sched[j]),
           NEW i \in Ids, sched'[i] # sched[i]
    PROVE  i = j /\ FinalizedFrom(i)
BY DEF TypeOK, Finalized, FinalizedFrom

\* An entry changes when it is inserted, picked or finalized.
LEMMA EntryMoves ==
    ASSUME IInv, [Next]_vars, NEW i \in Ids, sched'[i] # sched[i]
    PROVE  \/ /\ i = inserted + 1 /\ inserted' = inserted + 1
              /\ \E a \in Apis : draft[a] # Null /\ sched'[i] = draft[a]
           \/ /\ sched[i] # Null
              /\ \E x \in Pickers :
                    PickWon(x) /\ target[x] = i /\ sched'[i] = Picked(sched[i], x, now)
           \/ /\ FinalizedFrom(i)
              /\ \/ \E x \in Pickers : EvictWrite(x) /\ target[x] = i
                 \/ \E r \in RunSlots : FinWrite(r) /\ scheduleId[r] = i
<1>1. CASE Tick \/ (\E a \in Apis : Draft(a)) \/ UNCHANGED vars
  BY <1>1 DEF Tick, Draft, vars
<1>2. CASE \E a \in Apis : Insert(a)
  BY <1>2 DEF Insert, IInv, TypeOK
<1>3. CASE \E s \in Services : StartPass(s) \/ Restart(s)
  BY <1>3 DEF StartPass, Restart
<1>4. ASSUME NEW x \in Pickers, PassStep(x)
      PROVE  \/ PickWon(x) /\ target[x] = i /\ sched'[i] = Picked(sched[i], x, now)
                /\ sched[i] # Null
             \/ EvictWrite(x) /\ target[x] = i /\ FinalizedFrom(i)
  <2>1. CASE \E q \in Poids : QueueDrained(x, q) \/ QueueBusy(x, q) \/ QueueReady(x, q)
    BY <2>1 DEF QueueDrained, QueueBusy, QueueReady
  <2>2. CASE PickLost(x) \/ EvictFind(x) \/ \E r \in RunSlots : Launch(x, r)
    BY <2>2 DEF PickLost, EvictFind, Launch
  <2>3. CASE PickWon(x)
    BY <2>3 DEF PickWon, PickMatches, IInv, TypeOK, ShapeOK
  <2>4. CASE EvictWrite(x)
    <3>1. PICK next \in CronTimes(now) :
             Finalized(target[x], p[x], TRUE, next) \/ UNCHANGED sched
      BY <2>4 DEF EvictWrite
    <3>2. /\ target[x] \in Ids /\ TypeOK /\ Finalized(target[x], p[x], TRUE, next)
          /\ IsCron(p[x]) <=> IsCron(sched[target[x]])
      BY <2>4, <3>1 DEF EvictWrite, IInv, ShapeOK, Claiming, CopiesOK, CopyOK, Finalized
    <3>3. QED
      BY <2>4, <3>2, FinalizedMoves
  <2>5. QED
    BY <1>4, <2>1, <2>2, <2>3, <2>4 DEF PassStep
<1>5. ASSUME NEW r \in RunSlots, RunStep(r) \/ Finish(r)
      PROVE  FinWrite(r) /\ scheduleId[r] = i /\ FinalizedFrom(i)
  <2>1. CASE BootOk(r) \/ BootGone(r) \/ FinFind(r) \/ Finish(r)
    BY <2>1 DEF BootOk, BootGone, FinFind, Finish
  <2>2. CASE FinWrite(r)
    <3>1. PICK next \in CronTimes(now) :
             Finalized(scheduleId[r], p[r], authed[r], next) \/ UNCHANGED sched
      BY <2>2 DEF FinWrite
    <3>2. /\ scheduleId[r] \in Ids /\ TypeOK /\ Finalized(scheduleId[r], p[r], authed[r], next)
          /\ IsCron(p[r]) <=> IsCron(sched[scheduleId[r]])
          /\ authed[r] \in BOOLEAN
      BY <2>2, <3>1
      DEF FinWrite, IInv, TypeOK, ShapeOK, Running, CopiesOK, CopyOK, Finalized, Pickers
    <3>3. QED
      BY <2>2, <3>2, FinalizedMoves
  <2>3. QED
    BY <1>5, <2>1, <2>2 DEF RunStep
<1>6. CASE FaultStep
  BY <1>6 DEF FaultStep, Kill, LaunchFails, BootDenied
<1>7. QED
  BY <1>1, <1>2, <1>3, <1>4, <1>5, <1>6 DEF Next

\* A picker gets to pick, and to finalize by force, in one way.
LEMMA PickerMoves ==
    ASSUME IInv, [Next]_vars, NEW y \in Pickers,
           pc'[y] \in {"pick", "evictFind", "evictWrite"}
    PROVE  \/ pc'[y] = pc[y] /\ target'[y] = target[y] /\ p'[y] = p[y]
           \/ pc'[y] = "pick" /\ \E q \in Poids : QueueReady(y, q)
           \/ pc'[y] = "evictFind" /\ PickWon(y)
           \/ pc'[y] = "evictWrite" /\ pc[y] = "evictFind" /\ target'[y] = target[y]
<1>0. TypeOK
  BY DEF IInv
<1> DEFINE Stays == pc'[y] = pc[y] /\ target'[y] = target[y] /\ p'[y] = p[y]
<1>1. CASE Tick \/ (\E a \in Apis : Draft(a) \/ Insert(a)) \/ UNCHANGED vars
  BY <1>1 DEF Tick, Draft, Insert, vars, passVars
<1>2. CASE \E s \in Services : StartPass(s) \/ Restart(s)
  BY <1>0, <1>2 DEF StartPass, Restart, TypeOK, passVars
<1>3. ASSUME NEW x \in Pickers, x # y, OthersUnchanged(x)
      PROVE  Stays
  BY <1>3 DEF OthersUnchanged
<1>4. ASSUME NEW x \in Pickers, Ends(x)
      PROVE  Stays
  BY <1>0, <1>3, <1>4, EndsFacts
<1>5. ASSUME NEW x \in Pickers, NEW rest \in SUBSET Poids, Continue(x, rest), UNCHANGED runVars
      PROVE  Stays
  BY <1>0, <1>3, <1>5, ContinueFacts
<1>6. ASSUME NEW x \in Pickers, PassStep(x)
      PROVE  \/ Stays
             \/ pc'[y] = "pick" /\ \E q \in Poids : QueueReady(y, q)
             \/ pc'[y] = "evictFind" /\ PickWon(y)
             \/ pc'[y] = "evictWrite" /\ pc[y] = "evictFind" /\ target'[y] = target[y]
  <2>0. todo[x] \in SUBSET Poids
    BY <1>0 DEF TypeOK
  <2>1. CASE (\E q \in Poids : QueueDrained(x, q) \/ QueueBusy(x, q)) \/ PickLost(x)
    BY <1>5, <2>0, <2>1 DEF QueueDrained, QueueBusy, PickLost
  <2>2. ASSUME NEW q \in Poids, QueueReady(x, q)
        PROVE  Stays \/ (pc'[y] = "pick" /\ QueueReady(y, q))
    <3>1. CASE x = y
      BY <1>0, <2>2, <3>1 DEF QueueReady, TypeOK
    <3>2. CASE x # y
      BY <1>0, <2>2, <3>2 DEF QueueReady, TypeOK
    <3>3. QED BY <3>1, <3>2
  <2>3. CASE PickWon(x)
    BY <1>0, <2>3 DEF PickWon, TypeOK, passVars
  <2>4. CASE \E r \in RunSlots : Launch(x, r)
    BY <1>0, <2>4 DEF Launch, AfterEntry, TypeOK, Pickers
  <2>5. CASE EvictFind(x)
    <3>1. CASE Ends(x)
      BY <1>4, <3>1
    <3>2. CASE /\ pc' = [pc EXCEPT ![x] = "evictWrite"]
               /\ p' = [p EXCEPT ![x] = sched[target[x]]]
               /\ UNCHANGED target
      BY <1>0, <2>5, <3>2 DEF EvictFind, TypeOK
    <3>3. QED BY <2>5, <3>1, <3>2 DEF EvictFind
  <2>6. CASE EvictWrite(x)
    BY <1>4, <1>5, <2>0, <2>6 DEF EvictWrite
  <2>7. QED BY <1>6, <2>1, <2>2, <2>3, <2>4, <2>5, <2>6 DEF PassStep
<1>7. ASSUME NEW r \in RunSlots, RunStep(r) \/ Finish(r) \/ BootDenied(r)
      PROVE  Stays
  <2>0. r \in Pickers
    BY DEF Pickers
  <2>1. CASE BootOk(r) \/ BootGone(r) \/ Finish(r) \/ BootDenied(r)
    BY <1>0, <2>0, <2>1 DEF BootOk, BootGone, Finish, BootDenied, TypeOK, passVars
  <2>2. CASE FinFind(r)
    <3>1. CASE Ends(r)
      BY <1>4, <2>0, <3>1
    <3>2. CASE /\ pc' = [pc EXCEPT ![r] = "finWrite"]
               /\ p' = [p EXCEPT ![r] = sched[scheduleId[r]]]
               /\ UNCHANGED target
      BY <1>0, <2>0, <3>2 DEF TypeOK
    <3>3. QED BY <2>2, <3>1, <3>2 DEF FinFind
  <2>3. CASE FinWrite(r)
    <3>1. CASE Ends(r)
      BY <1>4, <2>0, <3>1
    <3>2. CASE /\ pc' = [pc EXCEPT ![r] = "loop"]
               /\ p' = [p EXCEPT ![r] = Null]
               /\ UNCHANGED target
      BY <1>0, <2>0, <3>2 DEF TypeOK
    <3>3. QED BY <2>3, <3>1, <3>2 DEF FinWrite
  <2>4. QED BY <1>7, <2>1, <2>2, <2>3 DEF RunStep
<1>8. CASE FaultStep
  BY <1>4, <1>7, <1>8 DEF FaultStep, Kill, LaunchFails
<1>9. QED
  BY <1>1, <1>2, <1>6, <1>7, <1>8 DEF Next

\* A Run gets past its start in one way, and works for one entry until it ends.
LEMMA RunMoves ==
    ASSUME IInv, [Next]_vars, NEW y \in RunSlots, PastAuth(y)'
    PROVE  /\ scheduleId'[y] = scheduleId[y]
           /\ \/ PastAuth(y)
              \/ BootOk(y) \/ BootGone(y)
              \/ BootDenied(y)
<1>0. TypeOK /\ y \in Pickers
  BY DEF IInv, Pickers
<1> DEFINE Stays == pc'[y] = pc[y] /\ scheduleId'[y] = scheduleId[y]
<1>1. CASE Tick \/ (\E a \in Apis : Draft(a) \/ Insert(a)) \/ UNCHANGED vars
  BY <1>1 DEF Tick, Draft, Insert, vars, passVars, runVars, PastAuth
<1>2. CASE \E s \in Services : StartPass(s) \/ Restart(s)
  BY <1>0, <1>2 DEF StartPass, Restart, TypeOK, runVars, PastAuth, Pickers
<1>3. ASSUME NEW x \in Pickers, OthersUnchanged(x), ~PastAuth(x)'
      PROVE  Stays
  BY <1>0, <1>3 DEF OthersUnchanged, PastAuth
<1>4. ASSUME NEW x \in Pickers, Ends(x)
      PROVE  Stays
  BY <1>0, <1>3, <1>4, EndsFacts DEF PastAuth
<1>5. ASSUME NEW x \in Pickers, NEW rest \in SUBSET Poids, Continue(x, rest), UNCHANGED runVars
      PROVE  Stays
  BY <1>0, <1>3, <1>5, ContinueFacts DEF PastAuth
<1>6. ASSUME NEW x \in Pickers, PassStep(x)
      PROVE  Stays
  <2>0. todo[x] \in SUBSET Poids
    BY <1>0 DEF TypeOK
  <2>1. CASE (\E q \in Poids : QueueDrained(x, q) \/ QueueBusy(x, q)) \/ PickLost(x)
    BY <1>5, <2>0, <2>1 DEF QueueDrained, QueueBusy, PickLost
  <2>2. CASE (\E q \in Poids : QueueReady(x, q)) \/ PickWon(x)
    BY <1>0, <2>2 DEF QueueReady, PickWon, TypeOK, PastAuth, runVars
  <2>3. CASE \E r \in RunSlots : Launch(x, r)
    BY <1>0, <2>3 DEF Launch, AfterEntry, TypeOK, Pickers, PastAuth
  <2>4. CASE EvictFind(x)
    <3>1. CASE pc' = [pc EXCEPT ![x] = "evictWrite"] /\ UNCHANGED runVars
      BY <1>0, <3>1 DEF TypeOK, PastAuth, runVars
    <3>2. QED BY <1>4, <2>4, <3>1 DEF EvictFind
  <2>5. CASE EvictWrite(x)
    BY <1>4, <1>5, <2>0, <2>5 DEF EvictWrite
  <2>6. QED BY <1>6, <2>1, <2>2, <2>3, <2>4, <2>5 DEF PassStep
<1>7. ASSUME NEW r \in RunSlots, RunStep(r) \/ Finish(r) \/ BootDenied(r)
      PROVE  /\ scheduleId'[y] = scheduleId[y]
             /\ PastAuth(y) \/ BootOk(y) \/ BootGone(y) \/ BootDenied(y)
  <2>0. r \in Pickers
    BY DEF Pickers
  <2>1. CASE BootOk(r) \/ BootGone(r) \/ BootDenied(r)
    BY <1>0, <2>0, <2>1 DEF BootOk, BootGone, BootDenied, TypeOK, PastAuth, runVars
  <2>2. CASE Finish(r)
    BY <1>0, <2>0, <2>2 DEF Finish, TypeOK, PastAuth, runVars
  <2>3. CASE FinFind(r)
    <3>1. CASE pc' = [pc EXCEPT ![r] = "finWrite"] /\ UNCHANGED runVars
      BY <1>0, <2>0, <2>3, <3>1 DEF FinFind, TypeOK, PastAuth, runVars
    <3>2. CASE Ends(r)
      BY <1>4, <2>0, <3>2 DEF PastAuth
    <3>3. QED BY <2>3, <3>1, <3>2 DEF FinFind
  <2>4. CASE FinWrite(r)
    <3>1. CASE pc' = [pc EXCEPT ![r] = "loop"] /\ scheduleId' = [scheduleId EXCEPT ![r] = Null]
      BY <1>0, <2>0, <3>1 DEF TypeOK, PastAuth
    <3>2. CASE Ends(r)
      BY <1>4, <2>0, <3>2 DEF PastAuth
    <3>3. QED BY <2>4, <3>1, <3>2 DEF FinWrite
  <2>5. QED BY <1>7, <2>1, <2>2, <2>3, <2>4 DEF RunStep
<1>8. CASE \E x \in Pickers : Kill(x) \/ LaunchFails(x)
  BY <1>4, <1>8 DEF Kill, LaunchFails, PastAuth
<1>9. QED
  BY <1>1, <1>2, <1>6, <1>7, <1>8 DEF Next, FaultStep, PastAuth

\* The clock does not go back, ids and executions are not taken back.
LEMMA OnlyForward ==
    ASSUME IInv, [Next]_vars
    PROVE  /\ now' = now \/ (now' = now + 1 /\ UNCHANGED sched)
           /\ inserted' \in {inserted, inserted + 1}
           /\ \A i \in Ids : executions'[i] >= executions[i]
           /\ \A i \in Ids : i <= inserted' => i <= inserted \/ sched'[i] # Null
<1>0. TypeOK /\ (\A i \in Ids : executions[i] \in Int) /\ inserted \in Int
  BY DEF IInv, TypeOK
<1>1. now' = now \/ (now' = now + 1 /\ UNCHANGED sched)
  BY ZenonT(30) DEF Next, vars, apiVars, Tick, Draft, StartPass, Restart, PassStep, RunStep,
      FaultStep, QueueDrained, QueueBusy, QueueReady, PickWon, PickLost, Launch,
      EvictFind, EvictWrite, BootGone, BootDenied, FinFind, FinWrite, Finish, Kill,
      LaunchFails, Insert, BootOk
<1>2. \/ UNCHANGED <<inserted, executions>>
      \/ \E a \in Apis : Insert(a)
      \/ \E r \in RunSlots : BootOk(r)
  BY ZenonT(30) DEF Next, vars, apiVars, Tick, Draft, StartPass, Restart, PassStep, RunStep,
      FaultStep, QueueDrained, QueueBusy, QueueReady, PickWon, PickLost, Launch,
      EvictFind, EvictWrite, BootGone, BootDenied, FinFind, FinWrite, Finish, Kill,
      LaunchFails
<1>3. ASSUME NEW r \in RunSlots, BootOk(r)
      PROVE  inserted' = inserted /\ \A i \in Ids : executions'[i] >= executions[i]
  <2> DEFINE counted == [executions EXCEPT ![scheduleId[r]] = executions[scheduleId[r]] + 1]
             kept == IsCron(sched[scheduleId[r]]) \/ executions[scheduleId[r]] = 2
  <2>0. inserted' = inserted /\ executions' = IF kept THEN executions ELSE counted
    BY ONLY <1>3 DEF BootOk, apiVars
  <2> HIDE DEF kept
  <2>1. executions' = executions \/ executions' = counted
    <3> HIDE DEF counted
    <3>1. QED
      BY <2>0
  <2>2. DOMAIN executions = Ids
    BY <1>0 DEF TypeOK
  <2>3. ASSUME NEW i \in Ids
        PROVE  executions'[i] = executions[i] \/ executions'[i] = executions[i] + 1
    BY <2>1, <2>2
  <2>4. \A i \in Ids : executions'[i] >= executions[i]
    BY <1>0, <2>3
  <2>5. QED
    BY <2>0, <2>4
<1>4. ASSUME NEW a \in Apis, Insert(a)
      PROVE  /\ inserted' = inserted + 1
             /\ \A i \in Ids : i <= inserted' => i <= inserted \/ sched'[i] # Null
             /\ executions' = executions
  <2>1. inserted' = inserted + 1 /\ executions' = executions
    BY <1>4 DEF Insert
  <2>2. inserted + 1 \in Ids => sched'[inserted + 1] # Null
    BY <1>0, <1>4 DEF Insert, TypeOK
  <2>3. ASSUME NEW i \in Ids, i <= inserted + 1
        PROVE  i <= inserted \/ sched'[i] # Null
    BY <1>0, <2>2, <2>3 DEF Ids
  <2>4. QED
    BY <2>1, <2>3
<1>5. inserted' \in {inserted, inserted + 1}
  BY <1>2, <1>3, <1>4
<1>6. \A i \in Ids : executions'[i] >= executions[i]
  BY <1>0, <1>2, <1>3, <1>4
<1>7. \A i \in Ids : i <= inserted' => i <= inserted \/ sched'[i] # Null
  BY <1>2, <1>3, <1>4
<1>8. QED
  BY <1>1, <1>5, <1>6, <1>7

-----------------------------------------------------------------------------
(* No request is lost while nothing fails and no lifetime can be over.     *)

Calm == faults = 0 /\ now <= MaxLifetime + 1

\* Entries are started when the clock runs, and not in the future.
StartTimes ==
    /\ now >= 1
    /\ \A i \in Ids : sched[i] # Null /\ Started(sched[i]) => sched[i].POStarted \in 1 .. now

\* So nothing is overdue yet, and nobody finalizes by force.
NoEviction ==
    Calm => \A x \in Pickers :
        /\ pc[x] \notin {"evictFind", "evictWrite"}
        /\ pc[x] = "pick" => ~Started(p[x])

\* A Run that is about to delete its entry has executed it.
ExecutedFirst ==
    Calm => \A r \in RunSlots :
        PastAuth(r) /\ OneTime(scheduleId[r]) => executions[scheduleId[r]] > 0

LossInv == StartTimes /\ NoEviction /\ ExecutedFirst /\ NoLostRequest

\* A calm state comes from a calm state, without a fault.
LEMMA CalmStays ==
    ASSUME IInv, [Next]_vars, Calm'
    PROVE  Calm /\ ~Fault
<1>1. TypeOK /\ now \in Int /\ MaxLifetime \in Int
  BY StoreAssumption, DispatchAssumption DEF IInv, TypeOK
<1>2. faults = 0 /\ ~Fault
  BY <1>1, FaultsStay DEF Calm
<1>3. now' = now \/ now' = now + 1
  BY OnlyForward
<1>4. QED
  BY <1>1, <1>2, <1>3 DEF Calm

\* The time of a start is the time of a pick.
LEMMA StartTimesKept ==
    ASSUME IInv, StartTimes, [Next]_vars
    PROVE  StartTimes'
<1>1. now \in Nat /\ now >= 1 /\ (now' = now \/ now' = now + 1)
  BY OnlyForward, DispatchAssumption DEF IInv, TypeOK, StartTimes
<1>2. ASSUME NEW i \in Ids, sched'[i] # Null, Started(sched'[i])
      PROVE  sched'[i].POStarted \in 1 .. now'
  <2>1. CASE sched'[i] = sched[i]
    BY <1>1, <1>2, <2>1 DEF StartTimes
  <2>2. CASE sched'[i] # sched[i]
    <3>1. \A a \in Apis : draft[a] # Null => ~Started(draft[a])
      BY DEF IInv, ShapeOK
    <3>2. sched[i] # Null => sched[i] \in Entry
      BY DEF IInv, TypeOK
    <3>3. \A next \in CronTimes(now) : sched[i] # Null => ~Started(Rescheduled(sched[i], next))
      BY <3>2 DEF Rescheduled, Entry, Started
    <3>4. \A x \in Pickers : sched[i] # Null => Picked(sched[i], x, now).POStarted = now
      BY <3>2 DEF Picked, Entry
    <3>5. sched'[i].POStarted = now
      BY <1>2, <2>2, <3>1, <3>3, <3>4, EntryMoves DEF FinalizedFrom
    <3>6. QED
      BY <1>1, <3>5
  <2>3. QED
    BY <2>1, <2>2
<1>3. QED
  BY <1>1, <1>2 DEF StartTimes

\* While it is calm nothing is overdue.
LEMMA NotOverdue ==
    ASSUME IInv, StartTimes, Calm, NEW i \in Ids, sched[i] # Null, Started(sched[i])
    PROVE  ~Overdue(sched[i], now)
<1>1. now \in Int /\ MaxLifetime \in Int /\ sched[i].POStarted \in 1 .. now
  BY StoreAssumption, DispatchAssumption DEF IInv, TypeOK, StartTimes
<1>2. QED
  BY <1>1 DEF Calm, Overdue

\* Before an entry can be overdue, no step starts an eviction.
LEMMA NoEvictionKept ==
    ASSUME IInv, StartTimes, NoEviction, [Next]_vars
    PROVE  NoEviction'
<1> SUFFICES ASSUME Calm', NEW x \in Pickers
             PROVE  /\ pc'[x] \notin {"evictFind", "evictWrite"}
                    /\ pc'[x] = "pick" => ~Started(p'[x])
  BY DEF NoEviction
<1>1. Calm
  BY CalmStays
<1>2. /\ pc[x] \notin {"evictFind", "evictWrite"}
      /\ pc[x] = "pick" => ~Started(p[x])
  BY <1>1 DEF NoEviction
<1>3. ~(pc'[x] = "evictFind" /\ PickWon(x))
  BY <1>2 DEF PickWon, IInv, TypeOK
<1>4. ASSUME NEW q \in Poids, QueueReady(x, q)
      PROVE  ~Started(p'[x])
  <2>1. PICK i \in Ids : /\ IsNextRunnable(sched, nrlessthan[x], q, i)
                         /\ Started(sched[i]) => Overdue(sched[i], now)
                         /\ p' = [p EXCEPT ![x] = sched[i]]
    BY <1>4 DEF QueueReady
  <2>2. sched[i] # Null /\ p'[x] = sched[i]
    BY <2>1 DEF IsNextRunnable, Matching, Present, IInv, TypeOK
  <2>3. QED
    BY <1>1, <2>1, <2>2, NotOverdue
<1>5. QED
  BY <1>2, <1>3, <1>4, PickerMoves

\* An entry of a Run stays what it is: one-time entries do not come back, nor
\* into being for an id that is known.
LEMMA OneTimeBefore ==
    ASSUME IInv, [Next]_vars, NEW i \in Ids, i <= inserted, OneTime(i)'
    PROVE  OneTime(i)
<1>1. CASE sched'[i] = sched[i]
  BY <1>1 DEF OneTime
<1>2. CASE sched'[i] # sched[i]
  <2>1. i # inserted + 1
    BY DEF IInv, TypeOK, Ids
  <2>2. sched[i] # Null => sched[i] \in Entry /\ now \in Nat
    BY DispatchAssumption DEF IInv, TypeOK
  <2>3. \A x \in Pickers : sched[i] # Null => (IsCron(Picked(sched[i], x, now)) <=> IsCron(sched[i]))
    BY <2>2, EntryFacts
  <2>4. \A next \in CronTimes(now) : sched[i] # Null =>
           (IsCron(Rescheduled(sched[i], next)) <=> IsCron(sched[i]))
    BY <2>2, CronTimesAreTimes, EntryFacts DEF IInv
  <2>5. QED
    BY <1>2, <2>1, <2>3, <2>4, EntryMoves DEF OneTime, FinalizedFrom
<1>3. QED
  BY <1>1, <1>2

\* A Run gets past its authentication into an Execution, which it saves at once.
LEMMA ExecutedFirstKept ==
    ASSUME IInv, ExecutedFirst, [Next]_vars
    PROVE  ExecutedFirst'
<1> SUFFICES ASSUME Calm', NEW r \in RunSlots, PastAuth(r)', OneTime(scheduleId[r])'
             PROVE  executions'[scheduleId'[r]] > 0
  BY DEF ExecutedFirst
<1>1. Calm /\ ~Fault
  BY CalmStays
<1>2. scheduleId'[r] = scheduleId[r] /\ (PastAuth(r) \/ BootOk(r) \/ BootGone(r))
  BY <1>1, RunMoves DEF BootDenied
<1>3. scheduleId[r] \in Ids /\ scheduleId[r] <= inserted
  BY <1>2, StoreAssumption DEF PastAuth, BootOk, BootGone, IInv, ShapeOK, KnownIds, Running, Ids
<1>4. OneTime(scheduleId[r])
  BY <1>2, <1>3, OneTimeBefore DEF OneTime
<1>5. CASE PastAuth(r)
  <2>1. executions[scheduleId[r]] > 0
    BY <1>1, <1>4, <1>5 DEF ExecutedFirst
  <2>2. /\ executions'[scheduleId[r]] >= executions[scheduleId[r]]
        /\ executions[scheduleId[r]] \in Int /\ executions'[scheduleId[r]] \in Int
    BY <1>3, OnlyForward, NextInv DEF IInv, TypeOK
  <2>3. QED
    BY <1>2, <2>1, <2>2
<1>6. CASE BootOk(r)
  BY <1>2, <1>3, <1>4, <1>6 DEF BootOk, OneTime, IInv, TypeOK
<1>7. CASE BootGone(r)
  BY <1>4, <1>7 DEF BootGone, OneTime
<1>8. QED
  BY <1>2, <1>5, <1>6, <1>7

\* An entry that leaves the collection has been executed.
LEMMA NoLossKept ==
    ASSUME IInv, LossInv, [Next]_vars
    PROVE  NoLostRequest'
<1> SUFFICES ASSUME Calm', NEW i \in Ids, i <= inserted', sched'[i] = Null, executions'[i] = 0
             PROVE  FALSE
  <2>1. IInv'
    BY NextInv
  <2>2. inserted' \in Nat /\ inserted' <= MaxEntries /\ faults' \in Nat /\ now' \in Int
    BY <2>1, StoreAssumption, DispatchAssumption DEF IInv, TypeOK
  <2>3. 1 .. inserted' \subseteq Ids
    BY <2>2, StoreAssumption DEF Ids
  <2>4. MaxLifetime \in Int
    BY StoreAssumption
  <2>5. QED
    BY <2>2, <2>3, <2>4 DEF NoLostRequest, Calm
<1>1. Calm /\ i <= inserted
  BY CalmStays, OnlyForward
<1>2. executions[i] = 0
  BY OnlyForward DEF IInv, TypeOK
<1>3. sched[i] # Null
  <2>1. i \in 1 .. inserted /\ faults = 0 /\ now \in Int /\ MaxLifetime \in Int
    BY <1>1, StoreAssumption, DispatchAssumption DEF Calm, IInv, TypeOK, Ids
  <2>2. ~(now > MaxLifetime + 1)
    BY <1>1, <2>1 DEF Calm
  <2>3. QED
    BY <1>2, <2>1, <2>2 DEF LossInv, NoLostRequest
<1>4. i # inserted + 1
  BY <1>1 DEF IInv, TypeOK, Ids
<1>5. \A x \in Pickers : Picked(sched[i], x, now) # Null
  BY <1>3, EntryFacts, DispatchAssumption DEF IInv, TypeOK
<1>6. FinalizedFrom(i) /\ \/ \E x \in Pickers : EvictWrite(x) /\ target[x] = i
                          \/ \E r \in RunSlots : FinWrite(r) /\ scheduleId[r] = i
  BY <1>3, <1>4, <1>5, EntryMoves
<1>7. ~IsCron(sched[i])
  <2>1. sched[i] \in Entry
    BY <1>3 DEF IInv, TypeOK
  <2>2. \A next \in CronTimes(now) : Rescheduled(sched[i], next) # Null
    BY <2>1, CronTimesAreTimes, EntryFacts DEF IInv
  <2>3. QED
    BY <1>6, <2>2 DEF FinalizedFrom
<1>8. ASSUME NEW x \in Pickers, EvictWrite(x)
      PROVE  FALSE
  BY <1>1, <1>8 DEF EvictWrite, LossInv, NoEviction
<1>9. ASSUME NEW r \in RunSlots, FinWrite(r), scheduleId[r] = i
      PROVE  FALSE
  BY <1>1, <1>2, <1>3, <1>7, <1>9 DEF FinWrite, LossInv, ExecutedFirst, PastAuth, OneTime
<1>10. QED
  BY <1>6, <1>8, <1>9

\* Nothing is started when the system starts, and every id is in use.
LEMMA InitLoss == Init => LossInv
<1> SUFFICES ASSUME Init PROVE LossInv
  OBVIOUS
<1>1. \A i \in Ids : sched[i] # Null => ~Started(sched[i])
  BY DEF Init, Started, NewEntry
<1>2. \A x \in Pickers : pc[x] \in {"idle", "free"}
  BY DEF Init
<1>3. \A r \in RunSlots : pc[r] \in {"idle", "free"}
  BY <1>2 DEF Pickers
<1>4. NoLostRequest
  <2>1. inserted = Len(Backlog) /\ Len(Backlog) \in Nat /\ Len(Backlog) <= MaxEntries
    BY DispatchAssumption DEF Init
  <2>2. \A i \in 1 .. inserted : i \in Ids /\ i <= Len(Backlog)
    BY <2>1, StoreAssumption DEF Ids
  <2>3. \A i \in 1 .. inserted : sched[i] # Null
    BY <2>2, BacklogFacts
  <2>4. QED
    BY <2>3 DEF NoLostRequest
<1>5. StartTimes
  BY <1>1 DEF Init, StartTimes
<1>6. NoEviction /\ ExecutedFirst
  BY <1>2, <1>3 DEF NoEviction, ExecutedFirst, PastAuth
<1>7. QED
  BY <1>4, <1>5, <1>6 DEF LossInv

\* A request whose entry is gone was executed, unless something has failed or a
\* lifetime may be over: no race between passes, Runs and the API loses one.
THEOREM NothingLost == Spec => []NoLostRequest
<1>1. IInv /\ LossInv /\ [Next]_vars => LossInv'
  BY StartTimesKept, NoEvictionKept, ExecutedFirstKept, NoLossKept DEF LossInv
<1>2. LossInv => NoLostRequest
  BY DEF LossInv
<1>3. QED
  BY <1>1, <1>2, Invariance, InitLoss, PTL DEF Spec

-----------------------------------------------------------------------------
(* No two processes answer for one entry while it is calm.                 *)

\* Who picked an entry and when are set, and reset, together.
Tells(e) == Started(e) <=> e.pickedUpBy # Null

PickersTell ==
    /\ \A i \in Ids : sched[i] # Null => Tells(sched[i])
    /\ \A a \in Apis : draft[a] # Null => Tells(draft[a])
    /\ \A x \in Pickers : pc[x] = "pick" => Tells(p[x])

\* What somebody owns is started, and has one owner.
OwnersSole ==
    Calm => \A i \in Ids :
        /\ \A x \in Pickers : Owns(x, i) /\ sched[i] # Null => Started(sched[i])
        /\ \A x, y \in Pickers : Owns(x, i) /\ Owns(y, i) => x = y

\* An owner owned the entry before, and is not done with it; or it won a pick;
\* or it is a Run and was launched by the owner.
LEMMA OwnersMove ==
    ASSUME IInv, [Next]_vars, NEW y \in Pickers, NEW i \in Ids, Owns(y, i)'
    PROVE  \/ /\ Owns(y, i)
              /\ y \in RunSlots => ~FinWrite(y)
              /\ \A r \in RunSlots : ~Launch(y, r)
           \/ PickWon(y) /\ target[y] = i
           \/ \E z \in Pickers : y \in RunSlots /\ Launch(z, y) /\ target[z] = i
<1>0. TypeOK /\ RunSlots \subseteq Pickers
  BY DEF IInv, Pickers
<1>1. ASSUME NEW x \in Pickers, OthersUnchanged(x), x # y
      PROVE  Owns(y, i)
  BY <1>1 DEF OthersUnchanged, Owns
<1>2. ASSUME NEW x \in Pickers, OthersUnchanged(x),
             pc'[x] \in {"idle", "down", "free", "loop", "pick"}
      PROVE  Owns(y, i) /\ x # y
  BY <1>1, <1>2 DEF Owns, Claiming, Running
<1>3. ASSUME NEW x \in Pickers, Ends(x)
      PROVE  Owns(y, i) /\ x # y
  BY <1>0, <1>2, <1>3, EndsFacts
<1>4. ASSUME NEW x \in Pickers, NEW rest \in SUBSET Poids, Continue(x, rest), UNCHANGED runVars
      PROVE  Owns(y, i)
  BY <1>0, <1>2, <1>4, ContinueFacts
<1>5. Owns(y, i) \/ (PickWon(y) /\ target[y] = i)
      \/ \E z \in Pickers : y \in RunSlots /\ Launch(z, y) /\ target[z] = i
  <2>1. CASE Tick \/ (\E a \in Apis : Draft(a) \/ Insert(a)) \/ UNCHANGED vars
    BY <2>1 DEF Tick, Draft, Insert, vars, passVars, runVars, Owns
  <2>2. CASE \E s \in Services : StartPass(s) \/ Restart(s)
    BY <1>0, <2>2 DEF StartPass, Restart, TypeOK, passVars, runVars, Owns, Pickers, Claiming, Running
  <2>3. ASSUME NEW x \in Pickers, PassStep(x)
        PROVE  \/ Owns(y, i) \/ (PickWon(y) /\ target[y] = i)
               \/ \E z \in Pickers : y \in RunSlots /\ Launch(z, y) /\ target[z] = i
    <3>0. todo[x] \in SUBSET Poids
      BY <1>0 DEF TypeOK
    <3>1. CASE (\E q \in Poids : QueueDrained(x, q) \/ QueueBusy(x, q)) \/ PickLost(x)
      BY <1>4, <3>0, <3>1 DEF QueueDrained, QueueBusy, PickLost
    <3>2. CASE \E q \in Poids : QueueReady(x, q)
      BY <1>0, <3>2 DEF QueueReady, TypeOK, runVars, Owns, Claiming, Running
    <3>3. CASE PickWon(x)
      BY <1>0, <3>3 DEF PickWon, TypeOK, passVars, runVars, Owns, Running
    <3>4. ASSUME NEW r \in RunSlots, Launch(x, r)
          PROVE  Owns(y, i) \/ (y = r /\ target[x] = i)
      BY <1>0, <3>4 DEF Launch, AfterEntry, TypeOK, Owns, Claiming, Running
    <3>5. CASE EvictFind(x)
      <4>1. CASE pc[x] = "evictFind" /\ pc' = [pc EXCEPT ![x] = "evictWrite"]
                 /\ UNCHANGED <<target, runVars>>
        BY <1>0, <4>1 DEF TypeOK, runVars, Owns, Claiming, Running
      <4>2. QED BY <1>3, <3>5, <4>1 DEF EvictFind
    <3>6. CASE EvictWrite(x)
      BY <1>3, <1>4, <3>0, <3>6 DEF EvictWrite
    <3>7. QED BY <2>3, <3>1, <3>2, <3>3, <3>4, <3>5, <3>6 DEF PassStep
  <2>4. ASSUME NEW r \in RunSlots, RunStep(r) \/ Finish(r) \/ BootDenied(r)
        PROVE  Owns(y, i)
    <3>1. CASE BootOk(r) \/ BootGone(r) \/ BootDenied(r) \/ Finish(r)
      BY <1>0, <3>1 DEF BootOk, BootGone, BootDenied, Finish, TypeOK, passVars, runVars,
                        Owns, Claiming, Running
    <3>2. CASE FinFind(r)
      <4>1. CASE pc[r] = "finFind" /\ pc' = [pc EXCEPT ![r] = "finWrite"]
                 /\ UNCHANGED <<target, runVars>>
        BY <1>0, <4>1 DEF TypeOK, runVars, Owns, Claiming, Running
      <4>2. QED BY <1>0, <1>3, <3>2, <4>1 DEF FinFind
    <3>3. CASE FinWrite(r)
      <4>1. CASE pc' = [pc EXCEPT ![r] = "loop"] /\ UNCHANGED target
                 /\ scheduleId' = [scheduleId EXCEPT ![r] = Null]
        BY <1>0, <4>1 DEF TypeOK, Owns, Claiming, Running
      <4>2. QED BY <1>0, <1>3, <3>3, <4>1 DEF FinWrite
    <3>4. QED BY <2>4, <3>1, <3>2, <3>3 DEF RunStep
  <2>5. CASE \E x \in Pickers : Kill(x) \/ LaunchFails(x)
    BY <1>3, <2>5 DEF Kill, LaunchFails
  <2>6. QED
    BY <2>1, <2>2, <2>3, <2>4, <2>5 DEF Next, FaultStep
<1>6. y \in RunSlots => ~FinWrite(y)
  BY <1>0, <1>3 DEF FinWrite, Owns, Claiming, Running, TypeOK
<1>7. ASSUME NEW r \in RunSlots PROVE ~Launch(y, r)
  BY <1>0 DEF Launch, AfterEntry, Owns, Claiming, Running, TypeOK
<1>8. QED
  BY <1>5, <1>6, <1>7

\* A draft is a fresh document.
LEMMA DraftMoves ==
    ASSUME IInv, [Next]_vars, NEW a \in Apis, draft'[a] # Null, draft'[a] # draft[a]
    PROVE  Tells(draft'[a])
<1>1. \E b \in Apis : Draft(b)
  BY DEF Next, vars, apiVars, Tick, Draft, Insert, StartPass, Restart, PassStep,
         RunStep, FaultStep, QueueDrained, QueueBusy, QueueReady, PickWon, PickLost,
         Launch, EvictFind, EvictWrite, BootOk, BootGone, BootDenied, FinFind,
         FinWrite, Finish, Kill, LaunchFails, IInv, TypeOK
<1>2. \A q \in Poids, tenant \in Tenants : Tells(NewEntry(q, tenant, now))
  BY DEF Tells, Started, NewEntry
<1>3. QED
  BY <1>1, <1>2, NextPoidsArePoids DEF Draft, IInv, TypeOK

\* Every step that starts an entry says who picked it up.
LEMMA PickersTellKept ==
    ASSUME IInv, PickersTell, [Next]_vars
    PROVE  PickersTell'
<1>0. TypeOK /\ now \in Nat /\ Null \notin Pickers /\ Null \notin Nat
  BY StoreAssumption, DispatchAssumption DEF IInv, TypeOK
<1>1. ASSUME NEW i \in Ids, sched'[i] # Null
      PROVE  Tells(sched'[i])
  <2>1. sched[i] # Null => sched[i] \in Entry
    BY <1>0 DEF TypeOK
  <2>2. \A x \in Pickers : sched[i] # Null => Tells(Picked(sched[i], x, now))
    BY <1>0, <2>1 DEF Tells, Started, Picked, Entry
  <2>3. \A next \in CronTimes(now) : sched[i] # Null => Tells(Rescheduled(sched[i], next))
    BY <2>1 DEF Tells, Started, Rescheduled, Entry
  <2>4. QED
    BY <1>1, <2>2, <2>3, EntryMoves DEF PickersTell, FinalizedFrom
<1>2. ASSUME NEW a \in Apis, draft'[a] # Null
      PROVE  Tells(draft'[a])
  BY <1>2, DraftMoves DEF PickersTell
<1>3. ASSUME NEW x \in Pickers, pc'[x] = "pick"
      PROVE  Tells(p'[x])
  <2>1. ASSUME NEW q \in Poids, QueueReady(x, q)
        PROVE  \E i \in Ids : sched[i] # Null /\ p'[x] = sched[i]
    BY <1>0, <2>1 DEF QueueReady, IsNextRunnable, Matching, Present, TypeOK
  <2>2. QED
    BY <1>3, <2>1, PickerMoves DEF PickersTell
<1>4. QED
  BY <1>1, <1>2, <1>3 DEF PickersTell

\* A pick that is won in a calm state is of an entry nobody owns: it is there,
\* and as little started as its copy.
LEMMA PickedUnowned ==
    ASSUME IInv, NoEviction, PickersTell, OwnersSole, Calm, NEW x \in Pickers, PickWon(x),
           NEW y \in Pickers
    PROVE  ~Owns(y, target[x])
<1>1. /\ target[x] \in Ids /\ sched[target[x]] # Null
      /\ sched[target[x]].pickedUpBy = p[x].pickedUpBy
  BY DEF PickWon, PickMatches, IInv, ShapeOK
<1>2. ~Started(p[x]) /\ Tells(p[x])
  BY DEF PickWon, NoEviction, PickersTell
<1>3. ~Started(sched[target[x]])
  BY <1>1, <1>2 DEF PickersTell, Tells
<1>4. QED
  BY <1>1, <1>3 DEF OwnersSole

\* A pick takes an entry nobody owns, and a launch passes it on.
LEMMA OwnersSoleKept ==
    ASSUME IInv, StartTimes, NoEviction, PickersTell, OwnersSole, [Next]_vars
    PROVE  OwnersSole'
<1> SUFFICES ASSUME Calm', NEW i \in Ids, NEW x \in Pickers, Owns(x, i)'
             PROVE  /\ sched'[i] # Null => Started(sched'[i])
                    /\ \A y \in Pickers : Owns(y, i)' => x = y
  BY DEF OwnersSole
<1>0. Calm /\ TypeOK
  BY CalmStays DEF IInv
<1>1. ASSUME NEW z \in Pickers, PickWon(z), target[z] = i
      PROVE  \A y \in Pickers : ~Owns(y, i)
  BY <1>0, <1>1, PickedUnowned
<1>2. ASSUME NEW z \in Pickers, NEW r \in RunSlots, Launch(z, r), target[z] = i
      PROVE  Owns(z, i) /\ UNCHANGED sched
  BY <1>2 DEF Launch, Owns, Claiming
<1>3. ASSUME sched'[i] # Null
      PROVE  Started(sched'[i])
  <2>1. \/ \E z \in Pickers : Owns(z, i)
        \/ PickWon(x) /\ target[x] = i
    BY <1>2, OwnersMove
  <2>2. CASE sched'[i] = sched[i] /\ \E z \in Pickers : Owns(z, i)
    BY <1>0, <1>3, <2>2 DEF OwnersSole
  <2>3. CASE i = inserted + 1
    <3>1. /\ \A z \in Pickers : target[z] = i => target[z] <= inserted
          /\ \A r \in RunSlots : scheduleId[r] = i => scheduleId[r] <= inserted
      BY StoreAssumption DEF IInv, KnownIds, Ids
    <3>2. inserted \in Int
      BY <1>0 DEF TypeOK
    <3>3. QED
      BY <2>1, <2>3, <3>1, <3>2 DEF Owns
  <2>4. ASSUME NEW z \in Pickers, PickWon(z), target[z] = i
        PROVE  Started(sched'[i])
    <3>1. sched[i] \in Entry /\ now \in Nat
      BY <1>0, <2>4, DispatchAssumption DEF PickWon, PickMatches, TypeOK
    <3>2. sched'[i] = Picked(sched[i], z, now)
      BY <1>0, <2>4 DEF PickWon, TypeOK
    <3>3. QED
      BY <3>1, <3>2, EntryFacts
  <2>5. ASSUME NEW z \in Pickers, EvictWrite(z)
        PROVE  FALSE
    BY <1>0, <2>5 DEF EvictWrite, NoEviction
  <2>6. ASSUME NEW r \in RunSlots, FinWrite(r), scheduleId[r] = i, sched'[i] # sched[i]
        PROVE  FALSE
    <3>1. r \in Pickers /\ Owns(r, i)
      BY <2>6 DEF FinWrite, Owns, Running, Pickers
    <3>2. \A z \in Pickers : Owns(z, i) => z = r
      BY <1>0, <3>1 DEF OwnersSole
    <3>3. QED
      BY <1>1, <1>2, <2>6, <3>1, <3>2, OwnersMove
  <2>7. QED
    BY <2>1, <2>2, <2>3, <2>4, <2>5, <2>6, EntryMoves
<1>4. ASSUME NEW y \in Pickers, Owns(y, i)'
      PROVE  x = y
  <2>1. \A u, v \in Pickers : Owns(u, i) /\ Owns(v, i) => u = v
    BY <1>0 DEF OwnersSole
  <2>2. ASSUME NEW u \in Pickers, NEW v \in Pickers, PickWon(u), target[u] = i,
               Owns(u, i)', Owns(v, i)'
        PROVE  u = v
    <3>1. PickWon(v)
      BY <1>1, <1>2, <2>2, OwnersMove
    <3>2. QED
      BY <1>0, <2>2, <3>1 DEF PickWon, TypeOK
  <2>3. ASSUME NEW u \in RunSlots, NEW v \in Pickers, NEW z \in Pickers,
               Launch(z, u), target[z] = i, Owns(v, i)'
        PROVE  u = v
    <3>1. Owns(z, i)
      BY <1>2, <2>3
    <3>2. ~Owns(v, i) \/ ~(\A r \in RunSlots : ~Launch(v, r))
      BY <2>1, <2>3, <3>1
    <3>3. ~(PickWon(v) /\ target[v] = i)
      BY <1>1, <3>1
    <3>4. \E w \in Pickers : v \in RunSlots /\ Launch(w, v) /\ target[w] = i
      BY <2>3, <3>2, <3>3, OwnersMove
    <3>5. v \in RunSlots /\ Launch(z, v)
      BY <1>2, <2>1, <3>1, <3>4
    <3>6. QED
      BY <1>0, <2>3, <3>5 DEF Launch, TypeOK
  <2>4. \/ Owns(x, i) \/ (PickWon(x) /\ target[x] = i)
        \/ \E z \in Pickers : x \in RunSlots /\ Launch(z, x) /\ target[z] = i
    BY OwnersMove
  <2>5. \/ Owns(y, i) \/ (PickWon(y) /\ target[y] = i)
        \/ \E z \in Pickers : y \in RunSlots /\ Launch(z, y) /\ target[z] = i
    BY <1>4, OwnersMove
  <2>6. QED
    BY <1>4, <2>1, <2>2, <2>3, <2>4, <2>5
<1>5. QED
  BY <1>3, <1>4

\* Nobody owns anything when the system starts.
LEMMA InitSole == Init => PickersTell /\ OwnersSole
<1> SUFFICES ASSUME Init PROVE PickersTell /\ OwnersSole
  OBVIOUS
<1>1. \A i \in Ids : sched[i] # Null => Tells(sched[i])
  BY DEF Init, Tells, Started, NewEntry
<1>2. \A x \in Pickers : pc[x] \in {"idle", "free"}
  BY DEF Init
<1>3. QED
  BY <1>1, <1>2 DEF Init, PickersTell, OwnersSole, Owns, Claiming, Running

-----------------------------------------------------------------------------
(* The requests of a queue are executed one after the other, provided that *)
(* no new ones arrive: in a closed system, which the API adds nothing to   *)
(* and which has no cron entries, a queue has at most one started entry,   *)
(* and two Runs of it overlap only if one has outlived its lifetime.       *)
(*                                                                         *)
(* With arrivals the code does not keep this (the read of the queue and    *)
(* the claim are two steps, and a newer entry may come between them).      *)
(* Here a pick is of the newest entry of its queue, and stays of it; once  *)
(* picked it is the one every later read returns, until it is deleted.     *)
(* Crashes do not change that: nothing but a finalize ends a start.        *)

\* Nothing arrives, and there are only one-time entries.
Closed ==
    /\ Apis = {}
    /\ \A n \in 1 .. Len(Backlog) : Backlog[n].preserveOrderId # CronPoid

\* All entries are requests, all due, and started when they were last run.
OnlyRequests ==
    \A i \in Ids : sched[i] # Null =>
        /\ ~IsCron(sched[i])
        /\ sched[i].nextRun = 0
        /\ Started(sched[i]) => sched[i].lastRun = sched[i].POStarted

\* So every pass matches all entries of a queue.
PassTimes ==
    /\ now >= 1
    /\ \A x \in Pickers : pc[x] \in PassLabels => nrlessthan[x] >= 1

SameQueue(i, j) ==
    /\ sched[i] # Null /\ sched[j] # Null
    /\ sched[i].preserveOrderId = sched[j].preserveOrderId

\* The started entry of a queue is its newest ...
StartedIsNewest ==
    \A i, j \in Ids : SameQueue(i, j) /\ Started(sched[i]) => j <= i

\* ... and so is the one a picker has read.
PicksNewest ==
    \A x \in Pickers : pc[x] = "pick" =>
        \A j \in Ids : SameQueue(target[x], j) => j <= target[x]

QueueInv ==
    /\ OnlyRequests
    /\ PassTimes
    /\ StartedIsNewest
    /\ PicksNewest

-----------------------------------------------------------------------------
(* One started entry per queue.                                            *)

\* An entry leaves the collection or is picked; the rest of it stays.
LEMMA RequestStays ==
    ASSUME IInv, OnlyRequests, Closed, [Next]_vars, NEW i \in Ids, sched'[i] # Null
    PROVE  /\ sched[i] # Null /\ sched[i] \in Entry
           /\ \/ sched'[i] = sched[i]
              \/ \E x \in Pickers :
                    PickWon(x) /\ target[x] = i /\ sched'[i] = Picked(sched[i], x, now)
           /\ sched'[i].preserveOrderId = sched[i].preserveOrderId
           /\ sched'[i].nextRun = sched[i].nextRun
<1>1. /\ sched[i] # Null
      /\ \/ sched'[i] = sched[i]
         \/ \E x \in Pickers :
               PickWon(x) /\ target[x] = i /\ sched'[i] = Picked(sched[i], x, now)
  BY EntryMoves DEF Closed, FinalizedFrom, OnlyRequests
<1>2. sched[i] \in Entry
  BY <1>1 DEF IInv, TypeOK
<1>3. \A x \in Pickers : /\ Picked(sched[i], x, now).preserveOrderId = sched[i].preserveOrderId
                         /\ Picked(sched[i], x, now).nextRun = sched[i].nextRun
  BY <1>2 DEF Picked, Entry
<1>4. QED
  BY <1>1, <1>2, <1>3

\* Nothing arrives, so all entries stay requests that are due.
LEMMA OnlyRequestsKept ==
    ASSUME IInv, OnlyRequests, Closed, [Next]_vars
    PROVE  OnlyRequests'
<1> SUFFICES ASSUME NEW i \in Ids, sched'[i] # Null
             PROVE  /\ ~IsCron(sched'[i])
                    /\ sched'[i].nextRun = 0
                    /\ Started(sched'[i]) => sched'[i].lastRun = sched'[i].POStarted
  BY DEF OnlyRequests
<1>1. \A x \in Pickers, e \in Entry : Picked(e, x, now).lastRun = Picked(e, x, now).POStarted
  BY DEF Picked, Entry
<1>2. QED
  BY <1>1, RequestStays DEF OnlyRequests, IsCron

\* Passes are made at a time, after the clock has started.
LEMMA PassTimesKept ==
    ASSUME IInv, PassTimes, [Next]_vars
    PROVE  PassTimes'
<1>0. /\ TypeOK /\ now \in Nat /\ now >= 1 /\ RunSlots \subseteq Pickers
      /\ now' \in Nat /\ now' >= 1
      /\ Services \subseteq Pickers
  BY OnlyForward, DispatchAssumption DEF IInv, TypeOK, PassTimes, Pickers
<1>1. ASSUME NEW y \in Pickers, pc'[y] \in PassLabels
      PROVE  nrlessthan'[y] >= 1
  <2>0. pc[y] \in PassLabels => nrlessthan[y] >= 1
    BY DEF PassTimes
  <2>1. CASE Tick \/ (\E a \in Apis : Draft(a) \/ Insert(a)) \/ UNCHANGED vars
    BY <1>1, <2>0, <2>1 DEF Tick, Draft, Insert, vars, passVars
  <2>2. CASE \E s \in Services : StartPass(s) \/ Restart(s)
    BY <1>0, <1>1, <2>0, <2>2 DEF StartPass, Restart, TypeOK, passVars, PassLabels
  <2>3. ASSUME NEW x \in Pickers, Ends(x)
        PROVE  nrlessthan'[y] >= 1
    BY <1>0, <1>1, <2>0, <2>3 DEF Ends, TypeOK, PassLabels
  <2>4. ASSUME NEW x \in Pickers, NEW rest \in SUBSET Poids, Continue(x, rest),
               pc[x] \in PassLabels
        PROVE  nrlessthan'[y] >= 1
    BY <1>0, <1>1, <2>0, <2>4 DEF Continue, AfterEntry, TypeOK, PassLabels
  <2>5. ASSUME NEW x \in Pickers, PassStep(x)
        PROVE  nrlessthan'[y] >= 1
    <3>0. todo[x] \in SUBSET Poids
      BY <1>0 DEF TypeOK
    <3>1. CASE (\E q \in Poids : QueueDrained(x, q) \/ QueueBusy(x, q)) \/ PickLost(x)
      BY <2>4, <3>0, <3>1 DEF QueueDrained, QueueBusy, PickLost, PassLabels
    <3>2. CASE (\E q \in Poids : QueueReady(x, q)) \/ PickWon(x)
      BY <1>0, <1>1, <2>0, <3>2 DEF QueueReady, PickWon, TypeOK, passVars, PassLabels
    <3>3. CASE \E r \in RunSlots : Launch(x, r)
      BY <1>0, <1>1, <2>0, <3>3 DEF Launch, AfterEntry, TypeOK, PassLabels
    <3>4. CASE EvictFind(x)
      <4>1. CASE pc[x] = "evictFind" /\ pc' = [pc EXCEPT ![x] = "evictWrite"]
                 /\ UNCHANGED nrlessthan
        BY <1>0, <1>1, <2>0, <4>1 DEF TypeOK, PassLabels
      <4>2. QED BY <2>3, <3>4, <4>1 DEF EvictFind
    <3>5. CASE EvictWrite(x)
      BY <2>3, <2>4, <3>0, <3>5 DEF EvictWrite, PassLabels
    <3>6. QED BY <2>5, <3>1, <3>2, <3>3, <3>4, <3>5 DEF PassStep
  <2>6. ASSUME NEW r \in RunSlots, RunStep(r) \/ Finish(r) \/ BootDenied(r)
        PROVE  nrlessthan'[y] >= 1
    <3>1. CASE BootOk(r) \/ BootGone(r) \/ BootDenied(r) \/ Finish(r)
      BY <1>0, <1>1, <2>0, <3>1 DEF BootOk, BootGone, BootDenied, Finish, TypeOK,
                                    passVars, PassLabels
    <3>2. CASE FinFind(r)
      <4>1. CASE pc' = [pc EXCEPT ![r] = "finWrite"] /\ UNCHANGED nrlessthan
        BY <1>0, <1>1, <2>0, <4>1 DEF TypeOK, PassLabels
      <4>2. QED BY <1>0, <2>3, <3>2, <4>1 DEF FinFind
    <3>3. CASE FinWrite(r)
      <4>1. CASE pc' = [pc EXCEPT ![r] = "loop"] /\ nrlessthan' = [nrlessthan EXCEPT ![r] = now]
        BY <1>0, <1>1, <2>0, <4>1 DEF TypeOK
      <4>2. QED BY <1>0, <2>3, <3>3, <4>1 DEF FinWrite
    <3>4. QED BY <2>6, <3>1, <3>2, <3>3 DEF RunStep
  <2>7. CASE \E x \in Pickers : Kill(x) \/ LaunchFails(x)
    BY <2>3, <2>7 DEF Kill, LaunchFails
  <2>8. QED
    BY <2>1, <2>2, <2>5, <2>6, <2>7 DEF Next, FaultStep
<1>2. QED
  BY <1>0, <1>1 DEF PassTimes

\* What a pass reads is the newest entry of its queue, started or not.
LEMMA ReadsNewest ==
    ASSUME IInv, QueueInv, NEW x \in Pickers, pc[x] = "loop", NEW q \in Poids, NEW i \in Ids,
           IsNextRunnable(sched, nrlessthan[x], q, i), NEW j \in Ids, SameQueue(i, j)
    PROVE  j <= i
<1>1. nrlessthan[x] >= 1 /\ nrlessthan[x] \in Nat
  BY DEF QueueInv, PassTimes, PassLabels, IInv, TypeOK
<1>2. j \in Matching(sched, nrlessthan[x], q)
  BY <1>1 DEF SameQueue, QueueInv, OnlyRequests, IsNextRunnable, Matching, Present
<1>3. CASE Started(sched[i])
  BY <1>3 DEF QueueInv, StartedIsNewest
<1>4. CASE ~Started(sched[i])
  BY <1>2, <1>4 DEF IsNextRunnable, Before, Ids
<1>5. QED
  BY <1>3, <1>4

\* A pass that reads a queue gets its newest entry, and an entry stays the newest.
LEMMA NewestKept ==
    ASSUME IInv, QueueInv, Closed, [Next]_vars
    PROVE  StartedIsNewest' /\ PicksNewest'
<1>1. ASSUME NEW i \in Ids, NEW j \in Ids, SameQueue(i, j)'
      PROVE  SameQueue(i, j)
  BY <1>1, RequestStays DEF SameQueue, QueueInv
<1>2. ASSUME NEW i \in Ids, NEW j \in Ids, SameQueue(i, j)', Started(sched'[i])
      PROVE  j <= i
  <2>1. SameQueue(i, j)
    BY <1>1, <1>2
  <2>2. CASE sched'[i] = sched[i]
    BY <1>2, <2>1, <2>2 DEF QueueInv, StartedIsNewest
  <2>3. ASSUME NEW x \in Pickers, PickWon(x), target[x] = i
        PROVE  j <= i
    BY <2>1, <2>3 DEF PickWon, QueueInv, PicksNewest
  <2>4. QED
    BY <1>2, <2>2, <2>3, RequestStays DEF SameQueue, QueueInv
<1>3. ASSUME NEW x \in Pickers, pc'[x] = "pick", NEW j \in Ids, SameQueue(target[x], j)'
      PROVE  j <= target'[x]
  <2>1. CASE pc[x] = "pick" /\ target'[x] = target[x]
    BY <1>1, <1>3, <2>1 DEF QueueInv, PicksNewest, IInv, ShapeOK
  <2>2. ASSUME NEW q \in Poids, QueueReady(x, q)
        PROVE  j <= target'[x]
    <3>1. PICK i \in Ids : /\ IsNextRunnable(sched, nrlessthan[x], q, i)
                           /\ target' = [target EXCEPT ![x] = i]
      BY <2>2 DEF QueueReady
    <3>2. pc[x] = "loop" /\ target'[x] = i
      BY <2>2, <3>1 DEF QueueReady, IInv, TypeOK
    <3>3. SameQueue(i, j)
      BY <1>1, <1>3, <3>2 DEF SameQueue
    <3>4. QED
      BY <3>1, <3>2, <3>3, ReadsNewest
  <2>3. QED
    BY <1>3, <2>1, <2>2, PickerMoves
<1>4. QED
  BY <1>2, <1>3 DEF StartedIsNewest, PicksNewest

\* Every step of a closed system keeps the order of its queues.
LEMMA QueueInvNext == Closed /\ IInv /\ QueueInv /\ [Next]_vars => QueueInv'
BY OnlyRequestsKept, PassTimesKept, NewestKept DEF QueueInv

\* The order of the queues holds initially.
LEMMA QueueInvInit == Closed /\ Init => QueueInv
<1> SUFFICES ASSUME Closed, Init PROVE QueueInv
  OBVIOUS
<1>1. ASSUME NEW i \in Ids, sched[i] # Null
      PROVE  /\ ~IsCron(sched[i]) /\ ~Started(sched[i])
             /\ sched[i].nextRun = 0
  <2>1. i <= Len(Backlog) /\ Len(Backlog) \in Nat /\ i \in 1 .. Len(Backlog)
    BY <1>1, DispatchAssumption DEF Init, Ids
  <2>2. sched[i] = NewEntry(Backlog[i].preserveOrderId, Backlog[i].tenantId, 0)
    BY <2>1 DEF Init
  <2>3. QED
    BY <2>1, <2>2 DEF NewEntry, IsCron, Started, Closed
<1>2. \A x \in Pickers : pc[x] \in {"idle", "free"}
  BY DEF Init
<1>3. OnlyRequests /\ StartedIsNewest
  BY <1>1 DEF OnlyRequests, StartedIsNewest, SameQueue
<1>4. PassTimes /\ PicksNewest
  BY <1>2 DEF Init, PassTimes, PicksNewest, PassLabels
<1>5. QED
  BY <1>3, <1>4 DEF QueueInv

\* "There is an Run going on ... and other may not be started with same Id"
\* (schedule.php), for a closed system: whatever crashes and is finalized by
\* force, a queue has at most one started entry.
THEOREM OneStarted ==
    ASSUME Closed
    PROVE  Spec => []OneStartedPerQueue
<1>1. QueueInv => OneStartedPerQueue
  <2> SUFFICES ASSUME QueueInv, NEW i \in Ids, NEW j \in Ids, i # j, SameQueue(i, j),
                      Started(sched[i]), Started(sched[j])
               PROVE  FALSE
    BY DEF OneStartedPerQueue, SameQueue, Present
  <2>1. j <= i /\ i <= j
    BY DEF QueueInv, StartedIsNewest, SameQueue
  <2>2. QED
    BY <2>1 DEF Ids
<1>2. Init => QueueInv
  BY QueueInvInit
<1>3. IInv /\ QueueInv /\ [Next]_vars => QueueInv'
  BY QueueInvNext
<1>4. QED
  BY <1>1, <1>2, <1>3, Invariance, PTL DEF Spec

-----------------------------------------------------------------------------
(* One executing Run per queue, in its lifetime.                           *)

\* x is about to start a Run of entry i, or is that Run.
Starts(x, i) ==
    \/ pc[x] = "launch" /\ target[x] = i
    \/ x \in RunSlots /\ pc[x] \in Running /\ scheduleId[x] = i

\* An entry is started once: it has one Run ever, for it is not released.
OneStarter ==
    \A i \in Ids : \A x, y \in Pickers : Starts(x, i) /\ Starts(y, i) => x = y

\* It stays, with the time of its claim, until the lifetime of the Run is over.
InTime ==
    \A x \in Pickers, i \in Ids : Starts(x, i) /\ ~Late(x) =>
        sched[i] # Null /\ sched[i].POStarted = since[x]

\* For who finalizes by force has found the start of that very Run overdue.
PicksOverdue ==
    \A x \in Pickers : pc[x] = "pick" /\ Started(p[x]) =>
        Overdue(p[x], now) /\ p[x].lastRun = p[x].POStarted

EvictsLate ==
    \A x, y \in Pickers :
        pc[x] \in {"evictFind", "evictWrite"} /\ Starts(y, target[x]) => Late(y)

\* An executing Run knows the queue of its entry.
RunCopies ==
    \A r \in RunSlots : pc[r] = "exec" /\ sched[scheduleId[r]] # Null =>
        p[r].preserveOrderId = sched[scheduleId[r]].preserveOrderId

StarterInv ==
    /\ OneStarter
    /\ InTime
    /\ PicksOverdue
    /\ EvictsLate
    /\ RunCopies

\* Who starts entry i did so before, and knows when it was picked, and is not
\* done with it; or it has just won the pick of an entry that was not started;
\* or it is a Run launched by who had won it.
LEMMA StartersMove ==
    ASSUME IInv, [Next]_vars, NEW y \in Pickers, NEW i \in Ids, Starts(y, i)'
    PROVE  \/ /\ Starts(y, i) /\ since'[y] = since[y]
              /\ y \in RunSlots => ~FinWrite(y)
              /\ \A r \in RunSlots : ~Launch(y, r)
           \/ PickWon(y) /\ target[y] = i /\ ~Started(p[y]) /\ since'[y] = now
           \/ \E z \in Pickers : /\ y \in RunSlots /\ Launch(z, y)
                                 /\ target[z] = i /\ since'[y] = since[z]
<1>0. TypeOK /\ RunSlots \subseteq Pickers /\ Services \subseteq Pickers
  BY DEF IInv, Pickers
<1> DEFINE Stays == Starts(y, i) /\ since'[y] = since[y]
           Wins == PickWon(y) /\ target[y] = i /\ ~Started(p[y]) /\ since'[y] = now
           Launched == \E z \in Pickers : /\ y \in RunSlots /\ Launch(z, y)
                                          /\ target[z] = i /\ since'[y] = since[z]
<1>1. ASSUME NEW x \in Pickers, Ends(x)
      PROVE  Stays
  BY <1>0, <1>1 DEF Ends, Starts, Running, TypeOK
<1>2. ASSUME NEW x \in Pickers, NEW rest \in SUBSET Poids, Continue(x, rest), UNCHANGED runVars,
             pc[x] \in PassLabels
      PROVE  Stays
  BY <1>0, <1>2 DEF Continue, AfterEntry, Starts, Running, TypeOK, runVars
<1>3. Stays \/ Wins \/ Launched
  <2>1. CASE Tick \/ (\E a \in Apis : Draft(a) \/ Insert(a)) \/ UNCHANGED vars
    BY <2>1 DEF Tick, Draft, Insert, vars, passVars, runVars, Starts
  <2>2. CASE \E s \in Services : StartPass(s) \/ Restart(s)
    BY <1>0, <2>2 DEF StartPass, Restart, TypeOK, passVars, runVars, Starts, Running
  <2>3. ASSUME NEW x \in Pickers, PassStep(x)
        PROVE  Stays \/ Wins \/ Launched
    <3>0. todo[x] \in SUBSET Poids
      BY <1>0 DEF TypeOK
    <3>1. CASE (\E q \in Poids : QueueDrained(x, q) \/ QueueBusy(x, q)) \/ PickLost(x)
      BY <1>2, <3>0, <3>1 DEF QueueDrained, QueueBusy, PickLost, PassLabels
    <3>2. CASE \E q \in Poids : QueueReady(x, q)
      BY <1>0, <3>2 DEF QueueReady, TypeOK, runVars, Starts, Running
    <3>3. CASE PickWon(x)
      BY <1>0, <3>3 DEF PickWon, TypeOK, passVars, runVars, Starts, Running
    <3>4. ASSUME NEW r \in RunSlots, Launch(x, r)
          PROVE  Stays \/ (y = r /\ target[x] = i /\ since'[y] = since[x])
      BY <1>0, <3>4 DEF Launch, AfterEntry, TypeOK, Starts, Running
    <3>5. CASE EvictFind(x)
      <4>1. CASE pc[x] = "evictFind" /\ pc' = [pc EXCEPT ![x] = "evictWrite"]
                 /\ UNCHANGED <<target, runVars, since>>
        BY <1>0, <4>1 DEF TypeOK, runVars, Starts, Running
      <4>2. QED BY <1>1, <3>5, <4>1 DEF EvictFind
    <3>6. CASE EvictWrite(x)
      BY <1>1, <1>2, <3>0, <3>6 DEF EvictWrite, PassLabels
    <3>7. QED BY <2>3, <3>1, <3>2, <3>3, <3>4, <3>5, <3>6 DEF PassStep
  <2>4. ASSUME NEW r \in RunSlots, RunStep(r) \/ Finish(r) \/ BootDenied(r)
        PROVE  Stays
    <3>1. CASE BootOk(r) \/ BootGone(r) \/ BootDenied(r) \/ Finish(r)
      BY <1>0, <3>1 DEF BootOk, BootGone, BootDenied, Finish, TypeOK, passVars, runVars,
                        Starts, Running
    <3>2. CASE FinFind(r)
      <4>1. CASE pc[r] = "finFind" /\ pc' = [pc EXCEPT ![r] = "finWrite"]
                 /\ UNCHANGED <<target, runVars, since>>
        BY <1>0, <4>1 DEF TypeOK, runVars, Starts, Running
      <4>2. QED BY <1>0, <1>1, <3>2, <4>1 DEF FinFind
    <3>3. CASE FinWrite(r)
      <4>1. CASE /\ pc' = [pc EXCEPT ![r] = "loop"] /\ UNCHANGED target
                 /\ scheduleId' = [scheduleId EXCEPT ![r] = Null]
                 /\ since' = [since EXCEPT ![r] = 0]
        BY <1>0, <4>1 DEF TypeOK, Starts, Running
      <4>2. QED BY <1>0, <1>1, <3>3, <4>1 DEF FinWrite
    <3>4. QED BY <2>4, <3>1, <3>2, <3>3 DEF RunStep
  <2>5. CASE \E x \in Pickers : Kill(x) \/ LaunchFails(x)
    BY <1>1, <2>5 DEF Kill, LaunchFails
  <2>6. QED
    BY <2>1, <2>2, <2>3, <2>4, <2>5 DEF Next, FaultStep
<1>4. y \in RunSlots => ~FinWrite(y)
  BY <1>0 DEF FinWrite, Ends, Starts, Running, TypeOK
<1>5. ASSUME NEW r \in RunSlots PROVE ~Launch(y, r)
  BY <1>0 DEF Launch, AfterEntry, Starts, Running, TypeOK
<1>6. QED
  BY <1>3, <1>4, <1>5

\* A Run starts to execute in one way, and works for one entry meanwhile.
LEMMA ExecMoves ==
    ASSUME IInv, [Next]_vars, NEW y \in RunSlots, pc'[y] = "exec"
    PROVE  /\ scheduleId'[y] = scheduleId[y]
           /\ \/ BootOk(y)
              \/ pc[y] = "exec" /\ p'[y] = p[y]
<1>0. TypeOK /\ RunSlots \subseteq Pickers /\ Services \subseteq Pickers
  BY DEF IInv, Pickers
<1>1. PastAuth(y)'
  BY DEF PastAuth
<1>2. scheduleId'[y] = scheduleId[y] /\ (PastAuth(y) \/ BootOk(y) \/ BootGone(y) \/ BootDenied(y))
  BY <1>1, RunMoves
<1>3. ~BootGone(y) /\ ~BootDenied(y)
  BY <1>0 DEF BootGone, BootDenied, TypeOK
<1>4. ASSUME PastAuth(y)
      PROVE  pc[y] = "exec" /\ p'[y] = p[y]
  <2>0. pc[y] \in {"exec", "finFind", "finWrite"}
    BY <1>4 DEF PastAuth
  <2>1. CASE Tick \/ (\E a \in Apis : Draft(a) \/ Insert(a)) \/ UNCHANGED vars
    BY <2>1 DEF Tick, Draft, Insert, vars, passVars
  <2>2. CASE \E s \in Services : StartPass(s) \/ Restart(s)
    BY <1>0, <2>0, <2>2 DEF StartPass, Restart, TypeOK, passVars
  <2>3. ASSUME NEW x \in Pickers, Ends(x)
        PROVE  pc[y] = "exec" /\ p'[y] = p[y]
    BY <1>0, <2>3 DEF Ends, TypeOK
  <2>4. ASSUME NEW x \in Pickers, NEW rest \in SUBSET Poids, Continue(x, rest)
        PROVE  pc[y] = "exec" /\ p'[y] = p[y]
    BY <1>0, <2>4 DEF Continue, AfterEntry, TypeOK
  <2>5. ASSUME NEW x \in Pickers, PassStep(x)
        PROVE  pc[y] = "exec" /\ p'[y] = p[y]
    <3>0. todo[x] \in SUBSET Poids
      BY <1>0 DEF TypeOK
    <3>1. CASE (\E q \in Poids : QueueDrained(x, q) \/ QueueBusy(x, q)) \/ PickLost(x)
      BY <2>4, <3>0, <3>1 DEF QueueDrained, QueueBusy, PickLost
    <3>2. CASE (\E q \in Poids : QueueReady(x, q)) \/ PickWon(x)
      BY <1>0, <2>0, <3>2 DEF QueueReady, PickWon, TypeOK, passVars
    <3>3. CASE \E r \in RunSlots : Launch(x, r)
      BY <1>0, <2>0, <3>3 DEF Launch, AfterEntry, TypeOK
    <3>4. CASE EvictFind(x)
      <4>1. CASE /\ pc' = [pc EXCEPT ![x] = "evictWrite"]
                 /\ p' = [p EXCEPT ![x] = sched[target[x]]]
        BY <1>0, <4>1 DEF TypeOK
      <4>2. QED BY <2>3, <3>4, <4>1 DEF EvictFind
    <3>5. CASE EvictWrite(x)
      BY <2>3, <2>4, <3>0, <3>5 DEF EvictWrite
    <3>6. QED BY <2>5, <3>1, <3>2, <3>3, <3>4, <3>5 DEF PassStep
  <2>6. ASSUME NEW r \in RunSlots, RunStep(r) \/ Finish(r) \/ BootDenied(r)
        PROVE  pc[y] = "exec" /\ p'[y] = p[y]
    <3>1. CASE BootOk(r) \/ BootGone(r) \/ BootDenied(r) \/ Finish(r)
      BY <1>0, <2>0, <3>1 DEF BootOk, BootGone, BootDenied, Finish, TypeOK, passVars
    <3>2. CASE FinFind(r)
      <4>1. CASE /\ pc' = [pc EXCEPT ![r] = "finWrite"]
                 /\ p' = [p EXCEPT ![r] = sched[scheduleId[r]]]
        BY <1>0, <4>1 DEF TypeOK
      <4>2. QED BY <1>0, <2>3, <3>2, <4>1 DEF FinFind
    <3>3. CASE FinWrite(r)
      <4>1. CASE pc' = [pc EXCEPT ![r] = "loop"] /\ p' = [p EXCEPT ![r] = Null]
        BY <1>0, <4>1 DEF TypeOK
      <4>2. QED BY <1>0, <2>3, <3>3, <4>1 DEF FinWrite
    <3>4. QED BY <2>6, <3>1, <3>2, <3>3 DEF RunStep
  <2>7. CASE \E x \in Pickers : Kill(x) \/ LaunchFails(x)
    BY <2>3, <2>7 DEF Kill, LaunchFails
  <2>8. QED
    BY <2>1, <2>2, <2>5, <2>6, <2>7 DEF Next, FaultStep
<1>5. QED
  BY <1>2, <1>3, <1>4

\* An entry that is picked to be started has no owner, of any kind.
LEMMA FreshPick ==
    ASSUME IInv, OnlyRequests, NEW x \in Pickers, PickWon(x), ~Started(p[x])
    PROVE  /\ ~Started(sched[target[x]])
           /\ \A y \in Pickers : ~Owns(y, target[x])
<1>1. target[x] \in Ids /\ OneTime(target[x]) /\ sched[target[x]].lastRun = p[x].lastRun
  BY DEF PickWon, PickMatches, IInv, ShapeOK, OnlyRequests, OneTime
<1>2. p[x].lastRun = Null
  BY <1>1 DEF PickWon, IInv, CopiesOK, CopyOK
<1>3. QED
  BY <1>1, <1>2 DEF IInv, LastRunTells, OneHolder

\* One that is picked to be finalized by force is overdue as it is.
LEMMA OverduePick ==
    ASSUME IInv, OnlyRequests, PicksOverdue, NEW x \in Pickers, PickWon(x), Started(p[x])
    PROVE  Started(sched[target[x]]) /\ Overdue(sched[target[x]], now)
<1>1. target[x] \in Ids /\ OneTime(target[x]) /\ sched[target[x]].lastRun = p[x].lastRun
  BY DEF PickWon, PickMatches, IInv, ShapeOK, OnlyRequests, OneTime
<1>2. Overdue(p[x], now) /\ p[x].lastRun = p[x].POStarted
  BY DEF PickWon, PicksOverdue
<1>3. Started(sched[target[x]])
  BY <1>1, <1>2 DEF IInv, LastRunTells, Started
<1>4. sched[target[x]].POStarted = p[x].POStarted
  BY <1>1, <1>2, <1>3 DEF OnlyRequests, OneTime
<1>5. QED
  BY <1>2, <1>3, <1>4 DEF Overdue

\* Who starts an entry owns it, and once late stays late.
LEMMA StartsOwns ==
    ASSUME NEW x \in Pickers, NEW i \in Ids, Starts(x, i)
    PROVE  Owns(x, i)
BY DEF Starts, Owns, Claiming

\* Who has outlived its lifetime stays late.
LEMMA LateStays ==
    ASSUME IInv, [Next]_vars, NEW x \in Pickers, NEW y \in Pickers, since'[y] = since[x], Late(x)
    PROVE  Late(y)'
<1>1. /\ now \in Nat /\ since[x] \in Nat /\ MaxLifetime \in Nat
      /\ now' \in {now, now + 1}
  BY OnlyForward, StoreAssumption, DispatchAssumption DEF IInv, TypeOK
<1>2. QED
  BY <1>1 DEF Late

-----------------------------------------------------------------------------
(* The invariant is kept.                                                  *)

\* A pick of an entry that is not started makes its only starter.
LEMMA OneStarterKept ==
    ASSUME IInv, OnlyRequests, OneStarter, [Next]_vars
    PROVE  OneStarter'
<1> SUFFICES ASSUME NEW i \in Ids, NEW x \in Pickers, NEW y \in Pickers,
                    Starts(x, i)', Starts(y, i)'
             PROVE  x = y
  BY DEF OneStarter
<1>0. TypeOK /\ \A u, v \in Pickers : Starts(u, i) /\ Starts(v, i) => u = v
  BY DEF IInv, OneStarter
<1>1. ASSUME NEW z \in Pickers, PickWon(z), target[z] = i, ~Started(p[z])
      PROVE  \A u \in Pickers : ~Starts(u, i)
  BY <1>1, FreshPick, StartsOwns
<1>2. \A z \in Pickers, r \in RunSlots : Launch(z, r) /\ target[z] = i => Starts(z, i)
  BY DEF Launch, Starts
<1>3. ASSUME NEW u \in Pickers, NEW v \in Pickers, PickWon(u), target[u] = i, ~Started(p[u]),
             Starts(u, i)', Starts(v, i)'
      PROVE  u = v
  <2>1. PickWon(v)
    BY <1>1, <1>2, <1>3, StartersMove
  <2>2. pc[v] = "pick" /\ pc'[v] # "pick"
    BY <1>0, <2>1 DEF PickWon, TypeOK
  <2>3. QED
    BY <1>0, <1>3, <2>2 DEF PickWon, TypeOK
<1>4. ASSUME NEW u \in RunSlots, NEW v \in Pickers, NEW z \in Pickers,
             Launch(z, u), target[z] = i, Starts(v, i)'
      PROVE  u = v
  <2>1. Starts(z, i)
    BY <1>2, <1>4
  <2>2. ~Starts(v, i) \/ ~(\A r \in RunSlots : ~Launch(v, r))
    BY <1>0, <1>4, <2>1
  <2>3. ~(PickWon(v) /\ target[v] = i /\ ~Started(p[v]))
    BY <1>1, <2>1
  <2>4. \E w \in Pickers : v \in RunSlots /\ Launch(w, v) /\ target[w] = i
    BY <1>4, <2>2, <2>3, StartersMove
  <2>5. v \in RunSlots /\ Launch(z, v)
    BY <1>0, <1>2, <2>1, <2>4
  <2>6. QED
    BY <1>0, <1>4, <2>5 DEF Launch, TypeOK
<1>5. QED
  BY <1>0, <1>3, <1>4, StartersMove

\* The start a starter made stands until it is late, or its own finalizeRun ends it.
LEMMA InTimeKept ==
    ASSUME IInv, OnlyRequests, StarterInv, Closed, [Next]_vars
    PROVE  InTime'
<1> SUFFICES ASSUME NEW x \in Pickers, NEW i \in Ids, Starts(x, i)', ~Late(x)'
             PROVE  sched'[i] # Null /\ sched'[i].POStarted = since'[x]
  BY DEF InTime
<1>0. /\ TypeOK /\ now \in Nat /\ Null \notin Nat
      /\ \A z \in Pickers : since[z] \in Nat
  BY StoreAssumption, DispatchAssumption DEF IInv, TypeOK
<1>1. ASSUME Starts(x, i), since'[x] = since[x], x \in RunSlots => ~FinWrite(x)
      PROVE  sched'[i] # Null /\ sched'[i].POStarted = since'[x]
  <2>1. ~Late(x)
    BY <1>1, LateStays
  <2>2. sched[i] # Null /\ sched[i].POStarted = since[x] /\ Started(sched[i])
    BY <1>0, <1>1, <2>1 DEF StarterInv, InTime, Started
  <2>3. ASSUME NEW z \in Pickers, PickWon(z), target[z] = i
        PROVE  FALSE
    <3>1. Started(p[z])
      BY <1>1, <2>3, FreshPick, StartsOwns
    <3>2. Overdue(sched[i], now)
      BY <2>3, <3>1, OverduePick DEF StarterInv
    <3>3. QED
      BY <2>1, <2>2, <3>2 DEF Overdue, Late
  <2>4. ASSUME NEW z \in Pickers, EvictWrite(z), target[z] = i
        PROVE  FALSE
    BY <1>1, <2>1, <2>4 DEF EvictWrite, StarterInv, EvictsLate
  <2>5. ASSUME NEW r \in RunSlots, FinWrite(r), scheduleId[r] = i
        PROVE  FALSE
    <3>1. r \in Pickers /\ Starts(r, i)
      BY <2>5 DEF FinWrite, Starts, Running, Pickers
    <3>2. QED
      BY <1>1, <2>5, <3>1 DEF StarterInv, OneStarter
  <2>6. sched'[i] = sched[i]
    BY <2>2, <2>3, <2>4, <2>5, EntryMoves DEF Closed
  <2>7. QED
    BY <1>1, <2>2, <2>6
<1>2. ASSUME PickWon(x), target[x] = i, since'[x] = now
      PROVE  sched'[i] # Null /\ sched'[i].POStarted = since'[x]
  <2>1. sched[i] \in Entry /\ sched'[i] = Picked(sched[i], x, now)
    BY <1>0, <1>2 DEF PickWon, PickMatches, TypeOK
  <2>2. Picked(sched[i], x, now) \in Entry /\ Picked(sched[i], x, now).POStarted = now
    BY <1>0, <2>1, EntryFacts DEF Picked, Entry
  <2>3. QED
    BY <1>2, <2>1, <2>2, EntryFacts
<1>3. ASSUME NEW z \in Pickers, NEW r \in RunSlots, Launch(z, r), target[z] = i,
             since'[x] = since[z]
      PROVE  sched'[i] # Null /\ sched'[i].POStarted = since'[x]
  <2>1. Starts(z, i) /\ sched' = sched
    BY <1>3 DEF Launch, Starts
  <2>2. ~Late(z)
    BY <1>3, LateStays
  <2>3. QED
    BY <1>3, <2>1, <2>2 DEF StarterInv, InTime
<1>4. QED
  BY <1>1, <1>2, <1>3, StartersMove

\* Who has read a started entry found it overdue.
LEMMA PicksOverdueKept ==
    ASSUME IInv, OnlyRequests, PicksOverdue, [Next]_vars
    PROVE  PicksOverdue'
<1> SUFFICES ASSUME NEW x \in Pickers, pc'[x] = "pick", Started(p'[x])
             PROVE  Overdue(p'[x], now') /\ p'[x].lastRun = p'[x].POStarted
  BY DEF PicksOverdue
<1>0. TypeOK /\ now \in Nat /\ now' \in {now, now + 1} /\ MaxLifetime \in Nat
  BY OnlyForward, StoreAssumption, DispatchAssumption DEF IInv, TypeOK
<1>1. CASE pc[x] = "pick" /\ p'[x] = p[x]
  <2>1. p[x].POStarted \in Nat
    BY <1>1 DEF IInv, ShapeOK, Entry, Started
  <2>2. QED
    BY <1>0, <1>1, <2>1 DEF PicksOverdue, Overdue
<1>2. ASSUME NEW q \in Poids, QueueReady(x, q)
      PROVE  Overdue(p'[x], now') /\ p'[x].lastRun = p'[x].POStarted
  <2>1. PICK i \in Ids : /\ IsNextRunnable(sched, nrlessthan[x], q, i)
                         /\ Started(sched[i]) => Overdue(sched[i], now)
                         /\ p' = [p EXCEPT ![x] = sched[i]]
    BY <1>2 DEF QueueReady
  <2>2. sched[i] # Null /\ p'[x] = sched[i] /\ now' = now
    BY <1>0, <1>2, <2>1 DEF QueueReady, IsNextRunnable, Matching, Present, TypeOK
  <2>3. QED
    BY <2>1, <2>2 DEF OnlyRequests
<1>3. QED
  BY <1>1, <1>2, PickerMoves

\* An eviction that has won its claim won it from a starter that is late.
LEMMA EvictsLateKept ==
    ASSUME IInv, OnlyRequests, StarterInv, [Next]_vars
    PROVE  EvictsLate'
<1> SUFFICES ASSUME NEW x \in Pickers, NEW y \in Pickers, pc'[x] \in {"evictFind", "evictWrite"},
                    Starts(y, target[x])'
             PROVE  Late(y)'
  BY DEF EvictsLate
<1>0. TypeOK /\ IInv'
  BY NextInv DEF IInv
<1>1. PICK i \in Ids : i = target'[x]
  BY <1>0 DEF IInv, ShapeOK, Claiming
<1>2. Starts(y, i)'
  BY <1>1 DEF Starts
<1>3. CASE pc[x] \in {"evictFind", "evictWrite"} /\ target[x] = i
  <2>1. Owns(x, i)
    BY <1>3 DEF Owns, Claiming
  <2>2. \A z \in Pickers : Starts(z, i) => Late(z)
    BY <1>3 DEF StarterInv, EvictsLate
  <2>3. ~(PickWon(y) /\ target[y] = i /\ ~Started(p[y]))
    BY <2>1, FreshPick
  <2>4. \A z \in Pickers, r \in RunSlots : Launch(z, r) /\ target[z] = i => Starts(z, i)
    BY DEF Launch, Starts
  <2>5. QED
    BY <1>2, <2>2, <2>3, <2>4, StartersMove, LateStays
<1>4. CASE pc'[x] = "evictFind" /\ PickWon(x)
  <2>1. target[x] = i /\ Started(p[x])
    BY <1>0, <1>1, <1>4 DEF PickWon, TypeOK, passVars
  <2>2. Started(sched[i]) /\ Overdue(sched[i], now)
    BY <1>4, <2>1, OverduePick DEF StarterInv
  <2>3. \A z \in Pickers : Starts(z, i) => Late(z)
    BY <2>2 DEF StarterInv, InTime, Overdue, Late
  <2>4. ~(PickWon(y) /\ target[y] = i /\ ~Started(p[y]))
    BY <2>2, FreshPick
  <2>5. \A z \in Pickers, r \in RunSlots : Launch(z, r) /\ target[z] = i => Starts(z, i)
    BY DEF Launch, Starts
  <2>6. QED
    BY <1>2, <2>3, <2>4, <2>5, StartersMove, LateStays
<1>5. QED
  BY <1>1, <1>3, <1>4, PickerMoves

\* A Run and its entry are of the same queue.
LEMMA RunCopiesKept ==
    ASSUME IInv, OnlyRequests, RunCopies, Closed, [Next]_vars
    PROVE  RunCopies'
<1> SUFFICES ASSUME NEW r \in RunSlots, pc'[r] = "exec", sched'[scheduleId'[r]] # Null
             PROVE  p'[r].preserveOrderId = sched'[scheduleId'[r]].preserveOrderId
  BY DEF RunCopies
<1>1. scheduleId'[r] = scheduleId[r] /\ (BootOk(r) \/ (pc[r] = "exec" /\ p'[r] = p[r]))
  BY ExecMoves
<1>2. scheduleId[r] \in Ids
  BY <1>1 DEF BootOk, IInv, ShapeOK, Running
<1>3. CASE BootOk(r)
  BY <1>1, <1>2, <1>3 DEF BootOk, IInv, TypeOK, Pickers
<1>4. CASE pc[r] = "exec" /\ p'[r] = p[r]
  BY <1>1, <1>2, <1>4, RequestStays DEF RunCopies
<1>5. QED
  BY <1>1, <1>3, <1>4

\* Nobody has started anything when the system starts.
LEMMA StarterInvInit == Init => StarterInv
<1> SUFFICES ASSUME Init PROVE StarterInv
  OBVIOUS
<1>1. \A x \in Pickers : pc[x] \in {"idle", "free"}
  BY DEF Init
<1>2. \A x \in Pickers, i \in Ids : ~Starts(x, i)
  BY <1>1 DEF Starts, Running
<1>3. \A r \in RunSlots : pc[r] # "exec"
  BY <1>1 DEF Pickers
<1>4. QED
  BY <1>1, <1>2, <1>3 DEF StarterInv, OneStarter, InTime, PicksOverdue, EvictsLate, RunCopies

\* Two Runs of one queue of a closed system execute at the same time only if one
\* of them has outlived POStartedMaxLifetime.  Until then the start each was made
\* by stands, so both entries would be started, and a queue's started entry is its
\* newest: they would be one entry, which has one starter.
THEOREM QueuesExclude ==
    ASSUME Closed
    PROVE  Spec => []QueueExclusive
<1>1. IInv /\ QueueInv /\ StarterInv => QueueExclusive
  <2> SUFFICES ASSUME IInv, QueueInv, StarterInv,
                      NEW r1 \in RunSlots, NEW r2 \in RunSlots, r1 # r2,
                      pc[r1] = "exec", pc[r2] = "exec",
                      p[r1].preserveOrderId = p[r2].preserveOrderId,
                      ~Late(r1), ~Late(r2)
               PROVE  FALSE
    BY DEF QueueExclusive
  <2>1. ASSUME NEW r \in RunSlots, pc[r] = "exec", ~Late(r)
        PROVE  /\ r \in Pickers /\ scheduleId[r] \in Ids /\ Starts(r, scheduleId[r])
               /\ sched[scheduleId[r]] # Null /\ Started(sched[scheduleId[r]])
               /\ p[r].preserveOrderId = sched[scheduleId[r]].preserveOrderId
    <3>1. r \in Pickers /\ scheduleId[r] \in Ids /\ Starts(r, scheduleId[r])
      BY <2>1 DEF IInv, ShapeOK, Running, Starts, Pickers
    <3>2. sched[scheduleId[r]] # Null /\ sched[scheduleId[r]].POStarted = since[r]
      BY <2>1, <3>1 DEF StarterInv, InTime
    <3>3. since[r] # Null
      BY <3>1, StoreAssumption DEF IInv, TypeOK
    <3>4. QED
      BY <2>1, <3>1, <3>2, <3>3 DEF Started, StarterInv, RunCopies
  <2>2. SameQueue(scheduleId[r1], scheduleId[r2]) /\ SameQueue(scheduleId[r2], scheduleId[r1])
    BY <2>1 DEF SameQueue
  <2>3. scheduleId[r1] <= scheduleId[r2] /\ scheduleId[r2] <= scheduleId[r1]
    BY <2>1, <2>2 DEF QueueInv, StartedIsNewest
  <2>4. scheduleId[r1] = scheduleId[r2]
    BY <2>1, <2>3 DEF Ids
  <2>5. QED
    BY <2>1, <2>4 DEF StarterInv, OneStarter
<1>2. Init => QueueInv /\ StarterInv
  BY QueueInvInit, StarterInvInit
<1>3. IInv /\ QueueInv /\ StarterInv /\ [Next]_vars => QueueInv' /\ StarterInv'
  BY QueueInvNext, OneStarterKept, InTimeKept, PicksOverdueKept, EvictsLateKept, RunCopiesKept
  DEF StarterInv, QueueInv
<1>4. QED
  BY <1>1, <1>2, <1>3, Invariance, PTL DEF Spec

-----------------------------------------------------------------------------
(* What an admin's request knows.                                          *)

\* What an admin's request knows of the entry it is about to save: a new one,
\* or a copy of the cron entry it found, with another time.
RequestOK(a) ==
    /\ adminPc[a] = "replace" =>
          /\ cronId[a] <= inserted
          /\ read[a] # Null
          /\ written[a].POStarted = read[a].POStarted
          /\ sched[cronId[a]] # Null =>
                /\ IsCron(sched[cronId[a]])
                /\ sched[cronId[a]].tenantId = written[a].tenantId
    /\ adminPc[a] = "insert" => ~Started(written[a])
    /\ adminPc[a] # "idle" =>
          /\ IsCron(written[a])
          /\ Tells(written[a])
          /\ Started(written[a]) => written[a].POStarted \in 1 .. now

RequestsOK == \A a \in Admins : RequestOK(a)

-----------------------------------------------------------------------------
(* What an admin's step does to the collection.                            *)

\* What all of them leave alone.
AdminsOnly == UNCHANGED <<now, draft, pc, passVars, runVars, since, executions>>

Dropped(i) ==
    /\ sched[i] # Null /\ IsCron(sched[i])
    /\ sched' = [sched EXCEPT ![i] = Null]
    /\ UNCHANGED <<inserted, faults>>

Rewritten(i, e) ==
    /\ sched[i] # Null /\ IsCron(sched[i])
    /\ IsCron(e) /\ Tells(e)
    /\ Started(e) => e.POStarted \in 1 .. now
    /\ e.tenantId = sched[i].tenantId
    /\ sched' = [sched EXCEPT ![i] = e]
    /\ Fault \/ (UNCHANGED faults /\ (Started(e) <=> Started(sched[i])))
    /\ UNCHANGED inserted

Added(e) ==
    /\ IsCron(e) /\ Tells(e) /\ ~Started(e)
    /\ inserted < MaxEntries
    /\ inserted' = inserted + 1
    /\ sched' = [sched EXCEPT ![inserted + 1] = e]
    /\ UNCHANGED faults

\* The collection stays as it is, or one cron entry is deleted, rewritten or
\* added.
CollectionMoves ==
    \/ UNCHANGED <<sched, inserted, faults>>
    \/ \E i \in Ids : Dropped(i)
    \/ \E i \in Ids, e \in Entry : Rewritten(i, e)
    \/ \E e \in Entry : Added(e)

\* Every step of an admin's request is one of these.
LEMMA AdminMoves ==
    ASSUME AdminTypeOK, RequestsOK, AdminStep
    PROVE  AdminsOnly /\ CollectionMoves
<1>1. PICK a \in Admins : CronFound(a) \/ CronMissing(a) \/ CronDeleted(a) \/ Saves(a)
  BY DEF AdminStep
<1>2. CASE CronFound(a) \/ CronMissing(a) \/ CronSaveFails(a)
  BY <1>2 DEF CronFound, CronMissing, CronSaveFails, vars, apiVars, AdminsOnly, CollectionMoves
<1>3. CASE CronDeleted(a)
  <2>1. PICK i \in Ids : /\ sched[i] # Null /\ IsCron(sched[i])
                         /\ sched' = [sched EXCEPT ![i] = Null]
    BY <1>3 DEF CronDeleted, CronEntries, Present
  <2>2. Dropped(i)
    BY <1>3, <2>1 DEF Dropped, CronDeleted, apiVars
  <2>3. QED
    BY <1>3, <2>2 DEF CronDeleted, AdminsOnly, CollectionMoves, apiVars
<1>4. adminPc[a] # "idle" => written[a] \in Entry
  BY DEF AdminTypeOK
<1>5. CASE CronReplaced(a)
  <2>1. cronId[a] \in Ids
    BY <1>5 DEF CronReplaced, AdminTypeOK
  <2>2. Rewritten(cronId[a], written[a])
    BY <1>5 DEF CronReplaced, RequestsOK, RequestOK, Rewritten, Started, apiVars
  <2>3. QED
    BY <1>4, <1>5, <2>1, <2>2 DEF CronReplaced, AdminsOnly, CollectionMoves, apiVars
<1>6. CASE CronInserted(a)
  BY <1>4, <1>6 DEF CronInserted, RequestsOK, RequestOK, Added, AdminsOnly, CollectionMoves
<1>7. QED
  BY <1>1, <1>2, <1>3, <1>5, <1>6 DEF Saves

\* What the moves mean for the entries: all there were stay what they are, a
\* cron entry, and there may be one more.
LEMMA EntriesAfter ==
    ASSUME IInv, AdminsOnly, CollectionMoves
    PROVE  /\ sched' \in [Ids -> Entry \cup {Null}]
           /\ inserted' \in 0 .. MaxEntries /\ faults' \in 0 .. MaxFaults
           /\ inserted <= inserted'
           /\ \A i \in Ids : sched'[i] # sched[i] =>
                 /\ sched[i] # Null => IsCron(sched[i])
                 /\ sched'[i] # Null => IsCron(sched'[i])
                 /\ sched[i] = Null => i = inserted + 1 /\ inserted' = inserted + 1
<1>0. /\ TypeOK /\ inserted \in Int /\ MaxEntries \in Int
      /\ inserted + 1 \in Int
  BY StoreAssumption DEF IInv, TypeOK
<1>1. CASE UNCHANGED <<sched, inserted, faults>>
  BY <1>0, <1>1 DEF TypeOK
<1>2. CASE \E i \in Ids : Dropped(i)
  BY <1>0, <1>2 DEF TypeOK, Dropped
<1>3. ASSUME NEW i \in Ids, NEW e \in Entry, Rewritten(i, e)
      PROVE  /\ sched' \in [Ids -> Entry \cup {Null}]
             /\ inserted' = inserted /\ faults' \in 0 .. MaxFaults
             /\ \A j \in Ids : sched'[j] # sched[j] =>
                   IsCron(sched[j]) /\ IsCron(sched'[j]) /\ sched[j] # Null
  BY <1>0, <1>3, FaultFacts DEF TypeOK, Rewritten
<1>4. ASSUME NEW e \in Entry, Added(e)
      PROVE  /\ sched' \in [Ids -> Entry \cup {Null}]
             /\ inserted' = inserted + 1 /\ inserted + 1 \in 0 .. MaxEntries
             /\ UNCHANGED faults
             /\ \A j \in Ids : sched'[j] # sched[j] =>
                   IsCron(sched'[j]) /\ sched[j] = Null /\ j = inserted + 1
  <2>1. inserted + 1 \in Ids /\ sched[inserted + 1] = Null
    BY <1>0, <1>4 DEF Added, IInv, KnownIds, TypeOK, Ids
  <2>2. QED
    BY <1>0, <1>4, <2>1 DEF Added, TypeOK
<1>5. QED
  BY <1>0, <1>1, <1>2, <1>3, <1>4 DEF CollectionMoves, TypeOK

\* IInv is about one-time entries, and about what copies tell of cron entries.
LEMMA AdminKeepsIInv ==
    ASSUME IInv, AdminsOnly, CollectionMoves
    PROVE  IInv'
<1>1. TypeOK /\ UNCHANGED <<now, draft, pc, nrlessthan, todo, target, p, scheduleId,
                            authed, since, executions>>
  BY DEF IInv, AdminsOnly, passVars, runVars
<1>2. TypeOK' /\ ShapeOK'
  BY <1>1, EntriesAfter DEF TypeOK, ShapeOK, IInv
<1>3. inserted \in Int /\ inserted' \in Int /\ Ids \subseteq Int
  BY <1>1, <1>2 DEF TypeOK, Ids
<1>4. \A i \in Ids : OneTime(i)' => OneTime(i) /\ sched'[i] = sched[i]
  BY EntriesAfter DEF OneTime
<1>5. KnownIds'
  <2>1. \A i \in Ids : i > inserted' => sched'[i] = Null /\ executions'[i] = 0
    BY <1>1, <1>3, EntriesAfter DEF IInv, KnownIds
  <2>2. /\ \A x \in Pickers : target[x] # Null => target[x] \in Int
        /\ \A r \in RunSlots : scheduleId[r] # Null => scheduleId[r] \in Int
    BY <1>1, <1>3 DEF TypeOK
  <2>3. QED
    BY <1>1, <1>3, <2>1, <2>2, EntriesAfter DEF IInv, KnownIds
<1>6. LastRunTells' /\ OneHolder' /\ AtMostOneExecution'
  BY <1>1, <1>4 DEF IInv, LastRunTells, OneHolder, AtMostOneExecution, Holds, Owns
<1>7. CopiesOK'
  <2>1. ASSUME NEW x \in Pickers
        PROVE  CopyOK(x)'
    <3>1. CopyOK(x)
      BY DEF IInv, CopiesOK
    <3>2. ASSUME NEW i \in Ids, i <= inserted, sched'[i] # Null
          PROVE  sched[i] # Null /\ (IsCron(sched'[i]) <=> IsCron(sched[i]))
      BY <1>3, <3>2, EntriesAfter
    <3>3. pc[x] \in {"pick", "evictWrite"} => target[x] \in Ids /\ target[x] <= inserted
      BY StoreAssumption DEF IInv, ShapeOK, KnownIds, Claiming, Ids
    <3>4. x \in RunSlots /\ pc[x] = "finWrite" =>
             scheduleId[x] \in Ids /\ scheduleId[x] <= inserted
      BY StoreAssumption DEF IInv, ShapeOK, KnownIds, Running, Ids
    <3>5. QED
      BY <1>1, <1>4, <3>1, <3>2, <3>3, <3>4 DEF CopyOK, OneTime
  <2>2. QED
    BY <2>1 DEF CopiesOK
<1>8. QED
  BY <1>2, <1>5, <1>6, <1>7 DEF IInv

\* A step that is not a fault leaves an entry started or not.
LEMMA ClaimsAfter ==
    ASSUME IInv, AdminsOnly, CollectionMoves, faults' = 0
    PROVE  /\ faults = 0
           /\ \A i \in Ids : sched'[i] # Null /\ Started(sched'[i]) =>
                 sched[i] # Null /\ Started(sched[i])
           /\ \A i \in Ids : sched'[i] # Null /\ sched[i] # Null =>
                 (Started(sched'[i]) <=> Started(sched[i]))
<1>0. /\ TypeOK /\ faults \in Nat /\ inserted \in Int
      /\ ~Fault
  BY DispatchAssumption DEF IInv, TypeOK, Fault
<1>1. CASE UNCHANGED <<sched, inserted, faults>>
  BY <1>1
<1>2. CASE \E i \in Ids : Dropped(i)
  BY <1>0, <1>2 DEF Dropped, TypeOK
<1>3. CASE \E i \in Ids, e \in Entry : Rewritten(i, e)
  BY <1>0, <1>3 DEF Rewritten, TypeOK
<1>4. ASSUME NEW e \in Entry, Added(e)
      PROVE  /\ faults = 0
             /\ \A i \in Ids : \/ sched'[i] = sched[i]
                               \/ sched[i] = Null /\ ~Started(sched'[i])
  <2>1. inserted + 1 \in Ids => sched[inserted + 1] = Null
    BY <1>0, <1>4 DEF Added, IInv, KnownIds
  <2>2. QED
    BY <1>0, <1>4, <2>1 DEF Added, TypeOK
<1>5. QED
  BY <1>1, <1>2, <1>3, <1>4 DEF CollectionMoves

\* A claim keeps its owner: an admin ends that of an entry it deletes; writing back an
\* outdated copy may end or make one, too, but is a fault.
LEMMA AdminKeepsCInv ==
    ASSUME IInv, CInv, AdminsOnly, CollectionMoves
    PROVE  CInv'
<1> SUFFICES ASSUME faults' = 0 PROVE CInv'
  BY DEF CInv, ClaimHasOwner, AuthedOrGone
<1>1. UNCHANGED <<pc, target, scheduleId, authed>> /\ faults = 0
  BY ClaimsAfter DEF AdminsOnly, passVars, runVars
<1>2. ClaimHasOwner'
  BY <1>1, ClaimsAfter DEF CInv, ClaimHasOwner, Present, Owns
<1>3. \A r \in RunSlots : PastAuth(r) /\ sched'[scheduleId[r]] # Null =>
         sched[scheduleId[r]] # Null
  <2>1. ASSUME NEW r \in RunSlots, PastAuth(r)
        PROVE  scheduleId[r] \in Ids /\ scheduleId[r] <= inserted
    BY <2>1, StoreAssumption DEF PastAuth, IInv, ShapeOK, KnownIds, Running, Ids
  <2>2. inserted \in Int /\ Ids \subseteq Int
    BY DEF IInv, TypeOK, Ids
  <2>3. \A i \in Ids : i <= inserted /\ sched'[i] # Null => sched[i] # Null
    <3>1. \A i \in Ids : sched'[i] # Null /\ sched[i] = Null => i = inserted + 1
      BY EntriesAfter
    <3>2. QED
      BY <2>2, <3>1
  <2>4. QED
    BY <2>1, <2>3
<1>4. AuthedOrGone'
  BY <1>1, <1>3 DEF CInv, AuthedOrGone, PastAuth
<1>5. QED
  BY <1>2, <1>4 DEF CInv

-----------------------------------------------------------------------------
(* The invariants of the dispatch, after an admin's step.                  *)

\* What is written was read from an entry, or is not started.
LEMMA AdminKeepsTimes ==
    ASSUME IInv, StartTimes, PickersTell, AdminsOnly, CollectionMoves
    PROVE  StartTimes' /\ PickersTell'
<1>0. TypeOK /\ UNCHANGED <<now, draft, pc, p>>
  BY DEF IInv, AdminsOnly, passVars
<1>1. ASSUME NEW i \in Ids, sched'[i] # Null, sched'[i] # sched[i]
      PROVE  /\ Tells(sched'[i])
             /\ Started(sched'[i]) => sched'[i].POStarted \in 1 .. now
  <2>1. ~(\E j \in Ids : Dropped(j))
    BY <1>0, <1>1 DEF Dropped, TypeOK
  <2>2. CASE \E j \in Ids, e \in Entry : Rewritten(j, e)
    BY <1>0, <1>1, <2>2 DEF Rewritten, TypeOK
  <2>3. CASE \E e \in Entry : Added(e)
    BY <1>0, <1>1, <2>3 DEF Added, TypeOK
  <2>4. QED
    BY <1>1, <2>1, <2>2, <2>3 DEF CollectionMoves
<1>2. QED
  BY <1>0, <1>1 DEF StartTimes, PickersTell

\* Nobody becomes an owner by an admin's step.
LEMMA AdminKeepsSole ==
    ASSUME IInv, NoEviction, OwnersSole, AdminsOnly, CollectionMoves
    PROVE  NoEviction' /\ OwnersSole'
<1> SUFFICES ASSUME Calm' PROVE NoEviction' /\ OwnersSole'
  BY DEF NoEviction, OwnersSole
<1>1. Calm /\ UNCHANGED <<pc, p, target, scheduleId>>
  BY ClaimsAfter DEF Calm, AdminsOnly, passVars, runVars
<1>2. ASSUME NEW i \in Ids, NEW x \in Pickers, Owns(x, i), sched'[i] # Null
      PROVE  Started(sched'[i])
  <2>1. sched[i] # Null
    <3>1. /\ target[x] = i => target[x] <= inserted
          /\ x \in RunSlots /\ scheduleId[x] = i => scheduleId[x] <= inserted
      BY StoreAssumption DEF IInv, KnownIds, Ids
    <3>2. i <= inserted /\ i \in Int /\ inserted \in Int
      BY <1>2, <3>1 DEF Owns, IInv, TypeOK, Ids
    <3>3. QED
      BY <1>2, <3>2, EntriesAfter
  <2>2. Started(sched[i])
    BY <1>1, <1>2, <2>1 DEF OwnersSole
  <2>3. QED
    BY <1>2, <2>1, <2>2, ClaimsAfter DEF Calm
<1>3. QED
  BY <1>1, <1>2 DEF NoEviction, OwnersSole, Owns

-----------------------------------------------------------------------------
(* The admins' requests.                                                   *)

\* A step of somebody else leaves a cron entry a cron entry of its tenant.
LEMMA CronStays ==
    ASSUME IInv, [Next]_vars, NEW i \in Ids, i <= inserted, sched'[i] # Null,
           sched[i] # Null => IsCron(sched[i])
    PROVE  /\ sched[i] # Null
           /\ IsCron(sched'[i])
           /\ sched'[i].tenantId = sched[i].tenantId
<1>0. TypeOK /\ now \in Nat /\ i # inserted + 1 /\ inserted <= inserted'
  BY DispatchAssumption, OnlyForward DEF IInv, TypeOK, Ids
<1>1. sched[i] # Null => sched[i] \in Entry
  BY <1>0 DEF TypeOK
<1>2. \A x \in Pickers : sched[i] # Null =>
         /\ Picked(sched[i], x, now).tenantId = sched[i].tenantId
         /\ IsCron(Picked(sched[i], x, now)) <=> IsCron(sched[i])
  BY <1>1 DEF Picked, Entry, IsCron
<1>3. \A next \in CronTimes(now) : sched[i] # Null =>
         /\ Rescheduled(sched[i], next).tenantId = sched[i].tenantId
         /\ IsCron(Rescheduled(sched[i], next)) <=> IsCron(sched[i])
  BY <1>1 DEF Rescheduled, Entry, IsCron
<1>4. CASE sched'[i] = sched[i]
  BY <1>4
<1>5. CASE sched'[i] # sched[i]
  BY <1>0, <1>2, <1>3, <1>5, EntryMoves DEF FinalizedFrom
<1>6. QED
  BY <1>4, <1>5

\* What an admin's request knows survives the steps of the dispatch.
LEMMA RequestsKept ==
    ASSUME AdminTypeOK, IInv, RequestsOK, [Next]_vars, UNCHANGED adminVars
    PROVE  RequestsOK'
<1>1. /\ UNCHANGED <<adminPc, cronId, read, written>>
      /\ now \in Nat /\ now' \in Nat /\ now <= now'
      /\ inserted \in Int /\ inserted' \in Int /\ inserted <= inserted'
  BY DispatchAssumption, OnlyForward DEF adminVars, IInv, TypeOK
<1>2. ASSUME NEW a \in Admins
      PROVE  RequestOK(a)'
  <2>1. RequestOK(a)
    BY DEF RequestsOK
  <2>2. adminPc[a] = "replace" => cronId[a] \in Ids /\ cronId[a] \in Int
    BY DEF AdminTypeOK, Ids
  <2>3. adminPc[a] = "replace" => cronId[a] <= inserted'
    BY <1>1, <2>1, <2>2 DEF RequestOK
  <2>4. adminPc[a] = "replace" /\ sched'[cronId[a]] # Null =>
           /\ IsCron(sched'[cronId[a]])
           /\ sched'[cronId[a]].tenantId = written[a].tenantId
    BY <2>1, <2>2, CronStays DEF RequestOK
  <2>5. adminPc[a] # "idle" /\ Started(written[a]) => written[a].POStarted \in 1 .. now'
    BY <1>1, <2>1 DEF RequestOK
  <2>6. QED
    BY <1>1, <2>1, <2>3, <2>4, <2>5 DEF RequestOK
<1>3. QED
  BY <1>2 DEF RequestsOK

\* Nor does a step of another admin's request change that.
LEMMA CronStaysSet ==
    ASSUME IInv, AdminsOnly, CollectionMoves, NEW i \in Ids, i <= inserted,
           sched'[i] # Null, sched[i] # Null => IsCron(sched[i])
    PROVE  /\ sched[i] # Null
           /\ IsCron(sched'[i])
           /\ sched'[i].tenantId = sched[i].tenantId
<1>0. TypeOK /\ i # inserted + 1
  BY DEF IInv, TypeOK, Ids
<1>1. CASE UNCHANGED sched
  BY <1>1
<1>2. CASE \E j \in Ids : Dropped(j)
  BY <1>0, <1>2 DEF Dropped, TypeOK
<1>3. CASE \E j \in Ids, e \in Entry : Rewritten(j, e)
  BY <1>0, <1>3 DEF Rewritten, TypeOK
<1>4. CASE \E e \in Entry : Added(e)
  BY <1>0, <1>4 DEF Added, TypeOK
<1>5. QED
  BY <1>1, <1>2, <1>3, <1>4 DEF CollectionMoves

\* The document of a request is an entry: a new one or a changed copy.
LEMMA DocumentFacts ==
    ASSUME TypeOK, NEW next \in CronTimes(now)
    PROVE  /\ \A tenant \in Tenants :
                 /\ NewEntry(CronPoid, tenant, next) \in Entry
                 /\ IsCron(NewEntry(CronPoid, tenant, next))
                 /\ Tells(NewEntry(CronPoid, tenant, next))
                 /\ ~Started(NewEntry(CronPoid, tenant, next))
                 /\ NewEntry(CronPoid, tenant, next).tenantId = tenant
           /\ \A e \in Entry :
                 /\ WithCron(e, next) \in Entry
                 /\ IsCron(WithCron(e, next)) <=> IsCron(e)
                 /\ WithCron(e, next).POStarted = e.POStarted
                 /\ WithCron(e, next).pickedUpBy = e.pickedUpBy
                 /\ WithCron(e, next).tenantId = e.tenantId
<1>1. next \in Nat /\ CronPoid \in Poids
  BY CronTimesAreTimes, StoreAssumption DEF Poids, CronPoid
<1>2. \A tenant \in Tenants : Tells(NewEntry(CronPoid, tenant, next))
                              /\ IsCron(NewEntry(CronPoid, tenant, next))
                              /\ NewEntry(CronPoid, tenant, next).tenantId = tenant
  BY DEF NewEntry, Tells, Started, IsCron
<1>3. \A e \in Entry : WithCron(e, next) \in Entry
  BY <1>1 DEF WithCron, Entry
<1>4. QED
  BY <1>1, <1>2, <1>3, EntryFacts DEF WithCron, Entry, IsCron

\* How the variables of the requests may change: one of them starts, with what
\* it has read, or is over; a deletion is done in one step.
LEMMA RequestMoves ==
    ASSUME AdminTypeOK, AdminStep
    PROVE  \/ UNCHANGED <<adminPc, cronId, read, written>> /\ Call
           \/ \E a \in Admins : Answered(a)
           \/ \E a \in Admins, tenant \in Tenants, next \in CronTimes(now) :
                 /\ adminPc[a] = "idle" /\ Call /\ UNCHANGED <<sched, inserted>>
                 /\ CronEntries(sched, tenant) = {}
                 /\ adminPc' = [adminPc EXCEPT ![a] = "insert"]
                 /\ written' = [written EXCEPT ![a] = NewEntry(CronPoid, tenant, next)]
                 /\ UNCHANGED <<cronId, read>>
           \/ \E a \in Admins, i \in Ids, next \in CronTimes(now) :
                 /\ adminPc[a] = "idle" /\ Call /\ UNCHANGED <<sched, inserted>>
                 /\ sched[i] # Null /\ IsCron(sched[i])
                 /\ adminPc' = [adminPc EXCEPT ![a] = "replace"]
                 /\ cronId' = [cronId EXCEPT ![a] = i]
                 /\ read' = [read EXCEPT ![a] = sched[i]]
                 /\ written' = [written EXCEPT ![a] = WithCron(sched[i], next)]
<1>1. PICK a \in Admins : CronFound(a) \/ CronMissing(a) \/ CronDeleted(a) \/ Saves(a)
  BY DEF AdminStep
<1>2. CASE Saves(a)
  BY <1>2 DEF Saves, CronReplaced, CronSaveFails, CronInserted
<1>3. CASE CronDeleted(a)
  BY <1>3 DEF CronDeleted
<1>4. CASE CronMissing(a)
  BY <1>4 DEF CronMissing, vars, apiVars
<1>5. CASE CronFound(a)
  <2>1. PICK i \in Ids, next \in CronTimes(now) :
           /\ sched[i] # Null /\ IsCron(sched[i])
           /\ cronId' = [cronId EXCEPT ![a] = i]
           /\ read' = [read EXCEPT ![a] = sched[i]]
           /\ written' = [written EXCEPT ![a] = WithCron(sched[i], next)]
    BY <1>5 DEF CronFound, CronEntries, Present
  <2>2. /\ adminPc[a] = "idle" /\ Call /\ UNCHANGED <<sched, inserted>>
        /\ adminPc' = [adminPc EXCEPT ![a] = "replace"]
    BY <1>5 DEF CronFound, vars, apiVars
  <2>3. QED
    BY <2>1, <2>2
<1>6. QED
  BY <1>1, <1>2, <1>3, <1>4, <1>5

\* An admin's step keeps the types.
LEMMA AdminTypeKept ==
    ASSUME AdminTypeOK, TypeOK', AdminStep
    PROVE  AdminTypeOK'
<1>0. /\ Null \notin Entry /\ Null \notin Ids /\ TypeOK
      /\ calls \in Nat /\ MaxCalls \in Nat
  BY EntryFacts, StoreAssumption, AdminAssumption DEF AdminTypeOK, Ids
<1>1. CASE UNCHANGED <<adminPc, cronId, read, written>> /\ Call
  BY <1>0, <1>1 DEF AdminTypeOK, Call
<1>2. ASSUME NEW a \in Admins, Answered(a)
      PROVE  AdminTypeOK'
  BY <1>0, <1>2 DEF AdminTypeOK, Answered
<1>3. ASSUME NEW a \in Admins, NEW tenant \in Tenants, NEW next \in CronTimes(now),
             adminPc[a] = "idle", Call,
             adminPc' = [adminPc EXCEPT ![a] = "insert"],
             written' = [written EXCEPT ![a] = NewEntry(CronPoid, tenant, next)],
             UNCHANGED <<cronId, read>>
      PROVE  AdminTypeOK'
  <2>1. NewEntry(CronPoid, tenant, next) \in Entry
    BY <1>0, DocumentFacts
  <2>2. calls' \in 0 .. MaxCalls
    BY <1>0, <1>3 DEF Call
  <2>3. QED
    BY <1>0, <1>3, <2>1, <2>2 DEF AdminTypeOK
<1>4. ASSUME NEW a \in Admins, NEW i \in Ids, NEW next \in CronTimes(now),
             adminPc[a] = "idle", Call, sched[i] # Null,
             adminPc' = [adminPc EXCEPT ![a] = "replace"],
             cronId' = [cronId EXCEPT ![a] = i],
             read' = [read EXCEPT ![a] = sched[i]],
             written' = [written EXCEPT ![a] = WithCron(sched[i], next)]
      PROVE  AdminTypeOK'
  <2>1. sched[i] \in Entry /\ WithCron(sched[i], next) \in Entry
    BY <1>0, <1>4, DocumentFacts DEF TypeOK
  <2>2. calls' \in 0 .. MaxCalls
    BY <1>0, <1>4 DEF Call
  <2>3. QED
    BY <1>0, <1>4, <2>1, <2>2 DEF AdminTypeOK
<1>5. QED
  BY <1>1, <1>2, <1>3, <1>4, RequestMoves

\* What one admin's request knows survives the steps of the others, and its own.
LEMMA AdminKeepsRequests ==
    ASSUME AdminTypeOK, IInv, StartTimes, PickersTell, RequestsOK, AdminStep
    PROVE  RequestsOK'
<1>0. /\ TypeOK /\ AdminsOnly /\ CollectionMoves /\ now' = now
      /\ inserted \in Int /\ inserted' \in Int /\ inserted <= inserted'
  BY AdminMoves, EntriesAfter DEF IInv, TypeOK, AdminsOnly
<1>1. ASSUME NEW a \in Admins, adminPc'[a] = adminPc[a], cronId'[a] = cronId[a],
             read'[a] = read[a], written'[a] = written[a]
      PROVE  RequestOK(a)'
  <2>1. RequestOK(a)
    BY DEF RequestsOK
  <2>2. adminPc[a] = "replace" => cronId[a] \in Ids /\ cronId[a] \in Int
    BY DEF AdminTypeOK, Ids
  <2>3. adminPc[a] = "replace" => cronId[a] <= inserted'
    BY <1>0, <2>1, <2>2 DEF RequestOK
  <2>4. adminPc[a] = "replace" /\ sched'[cronId[a]] # Null =>
           /\ IsCron(sched'[cronId[a]])
           /\ sched'[cronId[a]].tenantId = written[a].tenantId
    BY <1>0, <2>1, <2>2, CronStaysSet DEF RequestOK
  <2>5. QED
    BY <1>0, <1>1, <2>1, <2>3, <2>4 DEF RequestOK
<1>2. ASSUME NEW a \in Admins, adminPc'[a] = "idle"
      PROVE  RequestOK(a)'
  BY <1>2 DEF RequestOK
<1>3. ASSUME NEW a \in Admins, Answered(a)
      PROVE  RequestsOK'
  BY <1>1, <1>2, <1>3 DEF Answered, AdminTypeOK, RequestsOK
<1>4. ASSUME NEW a \in Admins, NEW tenant \in Tenants, NEW next \in CronTimes(now),
             adminPc' = [adminPc EXCEPT ![a] = "insert"],
             written' = [written EXCEPT ![a] = NewEntry(CronPoid, tenant, next)],
             UNCHANGED <<cronId, read>>
      PROVE  RequestsOK'
  <2>1. RequestOK(a)'
    BY <1>0, <1>4, DocumentFacts DEF AdminTypeOK, RequestOK
  <2>2. \A b \in Admins \ {a} : RequestOK(b)'
    BY <1>1, <1>4 DEF AdminTypeOK
  <2>3. QED
    BY <2>1, <2>2 DEF RequestsOK
<1>5. ASSUME NEW a \in Admins, NEW i \in Ids, NEW next \in CronTimes(now),
             UNCHANGED <<sched, inserted>>, sched[i] # Null, IsCron(sched[i]),
             adminPc' = [adminPc EXCEPT ![a] = "replace"],
             cronId' = [cronId EXCEPT ![a] = i],
             read' = [read EXCEPT ![a] = sched[i]],
             written' = [written EXCEPT ![a] = WithCron(sched[i], next)]
      PROVE  RequestsOK'
  <2>1. sched[i] \in Entry /\ i <= inserted
    BY <1>0, <1>5 DEF TypeOK, IInv, KnownIds, Ids
  <2>2. /\ IsCron(WithCron(sched[i], next))
        /\ WithCron(sched[i], next).POStarted = sched[i].POStarted
        /\ WithCron(sched[i], next).pickedUpBy = sched[i].pickedUpBy
        /\ WithCron(sched[i], next).tenantId = sched[i].tenantId
    BY <1>0, <1>5, <2>1, DocumentFacts
  <2>3. Tells(sched[i]) /\ (Started(sched[i]) => sched[i].POStarted \in 1 .. now)
    BY <1>5 DEF PickersTell, StartTimes
  <2>4. /\ adminPc'[a] = "replace" /\ cronId'[a] = i
        /\ read'[a] = sched[i] /\ written'[a] = WithCron(sched[i], next)
    BY <1>5 DEF AdminTypeOK
  <2>5. RequestOK(a)'
    BY <1>0, <1>5, <2>1, <2>2, <2>3, <2>4 DEF RequestOK, Tells, Started
  <2>6. \A b \in Admins \ {a} : RequestOK(b)'
    BY <1>1, <1>5 DEF AdminTypeOK
  <2>7. QED
    BY <2>5, <2>6 DEF RequestsOK
<1>6. CASE UNCHANGED <<adminPc, cronId, read, written>>
  BY <1>1, <1>6 DEF RequestsOK
<1>7. QED
  BY <1>3, <1>4, <1>5, <1>6, RequestMoves

-----------------------------------------------------------------------------
(* The theorems.                                                           *)

DispatchInv ==
    /\ IInv
    /\ CInv
    /\ StartTimes
    /\ NoEviction
    /\ PickersTell
    /\ OwnersSole

AllInv ==
    /\ AdminTypeOK
    /\ RequestsOK
    /\ DispatchInv

\* Every step, of the dispatch or an admin, keeps the invariants of both.
LEMMA AllInvNext == AllInv /\ [AdminNext]_allVars => AllInv'
<1> SUFFICES ASSUME AllInv, [AdminNext]_allVars PROVE AllInv'
  OBVIOUS
<1>0. AdminTypeOK /\ RequestsOK /\ DispatchInv
  BY DEF AllInv
<1>1. CASE [Next]_vars /\ UNCHANGED adminVars
  <2>1. DispatchInv'
    BY <1>0, <1>1, NextInv, NextClaims, StartTimesKept, NoEvictionKept, PickersTellKept,
       OwnersSoleKept DEF DispatchInv
  <2>2. RequestsOK'
    BY <1>0, <1>1, RequestsKept DEF DispatchInv
  <2>3. AdminTypeOK'
    BY <1>0, <1>1, <2>1 DEF AdminTypeOK, DispatchInv, IInv, adminVars
  <2>4. QED
    BY <2>1, <2>2, <2>3 DEF AllInv
<1>2. CASE AdminStep
  <2>1. AdminsOnly /\ CollectionMoves
    BY <1>0, <1>2, AdminMoves
  <2>2. DispatchInv'
    BY <1>0, <2>1, AdminKeepsIInv, AdminKeepsCInv, AdminKeepsTimes, AdminKeepsSole
    DEF DispatchInv
  <2>3. RequestsOK'
    BY <1>0, <1>2, AdminKeepsRequests DEF DispatchInv
  <2>4. AdminTypeOK'
    BY <1>0, <1>2, <2>2, AdminTypeKept DEF DispatchInv, IInv
  <2>5. QED
    BY <2>2, <2>3, <2>4 DEF AllInv
<1>3. QED
  BY <1>1, <1>2 DEF AdminNext, allVars

\* The invariants hold initially.
LEMMA AllInvInit == AdminInit => AllInv
<1> SUFFICES ASSUME AdminInit PROVE AllInv
  OBVIOUS
<1>1. IInv /\ CInv /\ LossInv /\ PickersTell /\ OwnersSole
  BY InitInv, InitClaims, InitLoss, InitSole DEF AdminInit
<1>2. Null \in Entry \cup {Null} /\ Null \in Ids \cup {Null} /\ 0 \in 0 .. MaxCalls
  BY AdminAssumption
<1>3. AdminTypeOK /\ RequestsOK
  BY <1>1, <1>2 DEF AdminInit, AdminTypeOK, RequestsOK, RequestOK, IInv
<1>4. QED
  BY <1>1, <1>3 DEF AllInv, DispatchInv, LossInv

\* AllInv holds whatever services, Runs, the API and admins do: IInv and CInv
\* hold of the dispatch with setcronschedule at work on the collection.
THEOREM AdminInvariance == AdminSpec => []AllInv
BY AllInvInit, AllInvNext, PTL DEF AdminSpec

\* Before anything fails or a lifetime is over, at most one process answers for
\* an entry, although setcronschedule replaces the document the claim of
\* pickScheduleForMe is part of.
THEOREM OneOwner == AdminSpec => []SoleOwner
<1>1. AllInv => SoleOwner
  BY DEF AllInv, DispatchInv, OwnersSole, SoleOwner, Calm
<1>2. QED
  BY <1>1, AdminInvariance, PTL

\* Whatever admins do, a one-time request is executed at most once, and while
\* nothing fails every claim has a live owner.
THEOREM AdminsDoNoHarm == AdminSpec => [](AtMostOneExecution /\ ClaimHasOwner)
<1>1. AllInv => AtMostOneExecution /\ ClaimHasOwner
  BY DEF AllInv, DispatchInv, IInv, CInv
<1>2. QED
  BY <1>1, AdminInvariance, PTL

\* A deleted entry stays deleted: finalizeRun, pickScheduleForMe and saveToDb
\* with a stale copy of it update nothing.
THEOREM DeletedForGood == AdminSpec => GoneStaysGone
<1>1. AllInv /\ [AdminNext]_allVars =>
         [ \A i \in 1 .. inserted : sched[i] = Null => sched'[i] = Null ]_allVars
  <2> SUFFICES ASSUME AllInv, AdminNext, NEW i \in 1 .. inserted, sched[i] = Null
               PROVE  sched'[i] = Null
    OBVIOUS
  <2>1. IInv /\ i \in Ids /\ i # inserted + 1
    BY StoreAssumption DEF AllInv, DispatchInv, IInv, TypeOK, Ids
  <2>2. CASE Next
    BY <2>1, <2>2, EntryMoves DEF FinalizedFrom
  <2>3. CASE AdminStep
    BY <2>1, <2>3, AdminMoves, EntriesAfter DEF AllInv
  <2>4. QED
    BY <2>2, <2>3 DEF AdminNext
<1>2. QED
  BY <1>1, AdminInvariance, PTL DEF AdminSpec, GoneStaysGone

-----------------------------------------------------------------------------
(* A tenant's cron entries are bounded by the admins.                      *)

\* What is counted is finite.
LEMMA CountTypes ==
    ASSUME TypeOK, NEW tenant
    PROVE  /\ IsFiniteSet(CronEntries(sched, tenant)) /\ IsFiniteSet(Inserting(tenant))
           /\ Cardinality(CronEntries(sched, tenant)) \in Nat
           /\ Cardinality(Inserting(tenant)) \in Nat
           /\ Cardinality(Inserting(tenant)) <= Cardinality(Admins)
           /\ Cardinality(Admins) \in Nat
<1>1. IsFiniteSet(Ids) /\ CronEntries(sched, tenant) \in SUBSET Ids
  BY FS_Interval, StoreAssumption DEF Ids, CronEntries, Present
<1>2. IsFiniteSet(Admins) /\ Inserting(tenant) \in SUBSET Admins
  BY AdminAssumption DEF Inserting
<1>3. QED
  BY <1>1, <1>2, FS_Subset, FS_CardinalityType

\* The count of one tenant does not grow if neither set does.
LEMMA CountsNoMore ==
    ASSUME AdminTypeOK, TypeOK', CronEntriesBounded, NEW tenant \in Tenants,
           CronEntries(sched', tenant) \subseteq CronEntries(sched, tenant),
           Inserting(tenant)' \subseteq Inserting(tenant)
    PROVE  Cardinality(CronEntries(sched', tenant)) + Cardinality(Inserting(tenant)')
               <= Cardinality(Admins)
<1> DEFINE E == CronEntries(sched, tenant)
           I == Inserting(tenant)
           F == CronEntries(sched', tenant)
           J == Inserting(tenant)'
<1>1. /\ IsFiniteSet(E) /\ IsFiniteSet(I)
      /\ Cardinality(E) \in Nat /\ Cardinality(I) \in Nat /\ Cardinality(Admins) \in Nat
  BY CountTypes DEF AdminTypeOK
<1>2. F \in SUBSET E /\ J \in SUBSET I
  OBVIOUS
<1>3. Cardinality(E) + Cardinality(I) <= Cardinality(Admins)
  BY DEF CronEntriesBounded
<1> HIDE DEF E, I, F, J
<1>4. /\ IsFiniteSet(F) /\ Cardinality(F) <= Cardinality(E)
      /\ IsFiniteSet(J) /\ Cardinality(J) <= Cardinality(I)
  BY <1>1, <1>2, FS_Subset
<1>5. Cardinality(F) \in Nat /\ Cardinality(J) \in Nat
  BY <1>4, FS_CardinalityType
<1>6. Cardinality(F) + Cardinality(J) <= Cardinality(Admins)
  BY <1>1, <1>3, <1>4, <1>5
<1>7. QED
  BY <1>6 DEF F, J

\* Services, Runs and the API make no cron entry.
LEMMA CronBefore ==
    ASSUME IInv, [Next]_vars, NEW tenant
    PROVE  CronEntries(sched', tenant) \subseteq CronEntries(sched, tenant)
<1>0. TypeOK /\ now \in Nat
  BY DispatchAssumption DEF IInv, TypeOK
<1> SUFFICES ASSUME NEW i \in Ids, sched'[i] # Null, IsCron(sched'[i]),
                    sched'[i] # sched[i]
             PROVE  sched[i] # Null /\ IsCron(sched[i])
                    /\ sched[i].tenantId = sched'[i].tenantId
  BY DEF CronEntries, Present
<1>1. sched[i] # Null => sched[i] \in Entry
  BY <1>0 DEF TypeOK
<1>2. \A x \in Pickers : sched[i] # Null =>
         /\ Picked(sched[i], x, now).tenantId = sched[i].tenantId
         /\ IsCron(Picked(sched[i], x, now)) <=> IsCron(sched[i])
  BY <1>1 DEF Picked, Entry, IsCron
<1>3. \A next \in CronTimes(now) : sched[i] # Null =>
         /\ Rescheduled(sched[i], next).tenantId = sched[i].tenantId
         /\ IsCron(Rescheduled(sched[i], next)) <=> IsCron(sched[i])
  BY <1>1 DEF Rescheduled, Entry, IsCron
<1>4. \A a \in Apis : draft[a] # Null => ~IsCron(draft[a])
  BY DEF IInv, ShapeOK
<1>5. QED
  BY <1>2, <1>3, <1>4, EntryMoves DEF FinalizedFrom

\* An insert takes the request away that the query has let pass.
LEMMA InsertedCounts ==
    ASSUME AdminTypeOK, IInv, TypeOK', CronEntriesBounded, NEW tenant \in Tenants,
           NEW a \in Admins, CronInserted(a), a \in Inserting(tenant)
    PROVE  Cardinality(CronEntries(sched', tenant)) + Cardinality(Inserting(tenant)')
               <= Cardinality(Admins)
<1> DEFINE E == CronEntries(sched, tenant)
           I == Inserting(tenant)
           F == CronEntries(sched', tenant)
           J == Inserting(tenant)'
           n == inserted + 1
<1>1. /\ IsFiniteSet(E) /\ IsFiniteSet(I) /\ IsFiniteSet(F) /\ IsFiniteSet(J)
      /\ Cardinality(E) \in Nat /\ Cardinality(I) \in Nat /\ Cardinality(Admins) \in Nat
      /\ Cardinality(F) \in Nat /\ Cardinality(J) \in Nat
  <2>1. IsFiniteSet(F) /\ Cardinality(F) \in Nat
    <3>1. IsFiniteSet(Ids) /\ F \in SUBSET Ids
      BY FS_Interval, StoreAssumption DEF Ids, CronEntries, Present
    <3>2. QED
      BY <3>1, FS_Subset, FS_CardinalityType
  <2>2. IsFiniteSet(J) /\ Cardinality(J) \in Nat
    <3>1. IsFiniteSet(Admins) /\ J \in SUBSET Admins
      BY AdminAssumption DEF Inserting
    <3>2. QED
      BY <3>1, FS_Subset, FS_CardinalityType
  <2>3. QED
    BY <2>1, <2>2, CountTypes DEF AdminTypeOK
<1>2. F \in SUBSET (E \cup {n})
  BY DEF CronInserted, CronEntries, Present, AdminTypeOK, TypeOK
<1>3. J \in SUBSET (I \ {a})
  BY DEF CronInserted, Answered, Inserting, AdminTypeOK
<1>4. Cardinality(E) + Cardinality(I) <= Cardinality(Admins)
  BY DEF CronEntriesBounded
<1>5. a \in I
  OBVIOUS
<1> HIDE DEF E, I, F, J, n
<1>6. /\ IsFiniteSet(E \cup {n})
      /\ Cardinality(E \cup {n}) \in {Cardinality(E), Cardinality(E) + 1}
  BY <1>1, FS_AddElement
<1>7. IsFiniteSet(I \ {a}) /\ Cardinality(I \ {a}) = Cardinality(I) - 1
  BY <1>1, <1>5, FS_RemoveElement
<1>8. Cardinality(F) <= Cardinality(E \cup {n}) /\ Cardinality(J) <= Cardinality(I \ {a})
  BY <1>2, <1>3, <1>6, <1>7, FS_Subset
<1>9. Cardinality(F) + Cardinality(J) <= Cardinality(Admins)
  BY <1>1, <1>4, <1>6, <1>7, <1>8
<1>10. QED
  BY <1>9 DEF F, J

\* A cron entry is added by an admin that was about to insert it.
LEMMA BoundedNext ==
    ASSUME AllInv, CronEntriesBounded, [AdminNext]_allVars
    PROVE  CronEntriesBounded'
<1> SUFFICES ASSUME NEW tenant \in Tenants
             PROVE  Cardinality(CronEntries(sched', tenant)) + Cardinality(Inserting(tenant)')
                        <= Cardinality(Admins)
  BY DEF CronEntriesBounded
<1>0. AdminTypeOK /\ TypeOK /\ RequestsOK /\ IInv /\ TypeOK'
  BY AllInvNext DEF AllInv, DispatchInv, IInv
<1>1. CASE [Next]_vars /\ UNCHANGED adminVars
  <2>1. Inserting(tenant)' \subseteq Inserting(tenant)
    BY <1>1 DEF Inserting, adminVars
  <2>2. QED
    BY <1>0, <1>1, <2>1, CronBefore, CountsNoMore
<1>2. ASSUME NEW a \in Admins, CronFound(a) \/ CronSaveFails(a) \/ CronDeleted(a) \/ CronReplaced(a)
      PROVE  Cardinality(CronEntries(sched', tenant)) + Cardinality(Inserting(tenant)')
                 <= Cardinality(Admins)
  <2>1. CronEntries(sched', tenant) \subseteq CronEntries(sched, tenant)
    <3>1. CASE CronFound(a) \/ CronSaveFails(a)
      BY <3>1 DEF CronFound, CronSaveFails, vars
    <3>2. CASE CronDeleted(a)
      BY <1>0, <3>2 DEF CronDeleted, CronEntries, Present, TypeOK
    <3>3. CASE CronReplaced(a)
      <4>1. cronId[a] \in Ids /\ RequestOK(a)
        BY <1>0, <3>3 DEF CronReplaced, AdminTypeOK, RequestsOK
      <4>2. QED
        BY <1>0, <3>3, <4>1 DEF CronReplaced, RequestOK, CronEntries, Present, TypeOK
    <3>4. QED
      BY <1>2, <3>1, <3>2, <3>3
  <2>2. Inserting(tenant)' \subseteq Inserting(tenant)
    BY <1>0, <1>2 DEF CronFound, CronSaveFails, CronDeleted, CronReplaced, Answered,
                      Inserting, AdminTypeOK
  <2>3. QED
    BY <1>0, <2>1, <2>2, CountsNoMore
<1>3. ASSUME NEW a \in Admins, CronMissing(a)
      PROVE  Cardinality(CronEntries(sched', tenant)) + Cardinality(Inserting(tenant)')
                 <= Cardinality(Admins)
  <2>1. PICK of \in Tenants, next \in CronTimes(now) :
           /\ CronEntries(sched, of) = {}
           /\ written' = [written EXCEPT ![a] = NewEntry(CronPoid, of, next)]
    BY <1>3 DEF CronMissing
  <2>2. sched' = sched /\ adminPc' = [adminPc EXCEPT ![a] = "insert"]
    BY <1>3 DEF CronMissing, vars
  <2>3. CASE of # tenant
    <3>1. NewEntry(CronPoid, of, next).tenantId # tenant
      BY <2>3 DEF NewEntry
    <3>2. Inserting(tenant)' \subseteq Inserting(tenant)
      BY <1>0, <2>1, <2>2, <3>1 DEF Inserting, AdminTypeOK
    <3>3. QED
      BY <1>0, <2>2, <3>2, CountsNoMore
  <2>4. CASE of = tenant
    <3>1. Cardinality(CronEntries(sched', tenant)) = 0
      BY <2>1, <2>2, <2>4, FS_EmptySet
    <3>2. IsFiniteSet(Admins) /\ Inserting(tenant)' \in SUBSET Admins
      BY AdminAssumption DEF Inserting
    <3>3. /\ Cardinality(Inserting(tenant)') <= Cardinality(Admins)
          /\ Cardinality(Inserting(tenant)') \in Nat
      BY <3>2, FS_Subset, FS_CardinalityType
    <3>4. QED
      BY <3>1, <3>3
  <2>5. QED
    BY <2>3, <2>4
<1>4. ASSUME NEW a \in Admins, CronInserted(a)
      PROVE  Cardinality(CronEntries(sched', tenant)) + Cardinality(Inserting(tenant)')
                 <= Cardinality(Admins)
  <2>1. CASE a \in Inserting(tenant)
    BY <1>0, <1>4, <2>1, InsertedCounts
  <2>2. CASE a \notin Inserting(tenant)
    <3>1. written[a].tenantId # tenant /\ written[a] \in Entry
      BY <1>0, <1>4, <2>2 DEF CronInserted, Inserting, AdminTypeOK
    <3>2. CronEntries(sched', tenant) \subseteq CronEntries(sched, tenant)
      BY <1>0, <1>4, <3>1 DEF CronInserted, CronEntries, Present, TypeOK
    <3>3. Inserting(tenant)' \subseteq Inserting(tenant)
      BY <1>0, <1>4 DEF CronInserted, Answered, Inserting, AdminTypeOK
    <3>4. QED
      BY <1>0, <3>2, <3>3, CountsNoMore
  <2>3. QED
    BY <2>1, <2>2
<1>5. QED
  BY <1>1, <1>2, <1>3, <1>4 DEF AdminNext, AdminStep, Saves, allVars

\* Initially no admin is inserting.
LEMMA BoundedInit == AdminInit => CronEntriesBounded
<1> SUFFICES ASSUME AdminInit, NEW tenant \in Tenants
             PROVE  Cardinality(CronEntries(sched, tenant)) + Cardinality(Inserting(tenant))
                        <= Cardinality(Admins)
  BY DEF CronEntriesBounded
<1> DEFINE B == {n \in 1 .. Len(Backlog) : /\ Backlog[n].preserveOrderId = CronPoid
                                           /\ Backlog[n].tenantId = tenant}
<1>1. Inserting(tenant) = {}
  BY DEF AdminInit, Inserting
<1>2. CronEntries(sched, tenant) \in SUBSET B
  BY DEF AdminInit, Init, CronEntries, Present, IsCron, NewEntry, Ids
<1>3. Cardinality(B) <= Cardinality(Admins)
  BY BacklogAssumption
<1>4. IsFiniteSet(B) /\ Cardinality(B) \in Nat
  <2>1. Len(Backlog) \in Int
    BY DispatchAssumption
  <2>2. IsFiniteSet(1 .. Len(Backlog)) /\ B \in SUBSET (1 .. Len(Backlog))
    BY <2>1, FS_Interval
  <2>3. QED
    BY <2>2, FS_Subset, FS_CardinalityType
<1>5. Cardinality(Admins) \in Nat
  BY AdminAssumption, FS_CardinalityType
<1> HIDE DEF B
<1>6. /\ Cardinality(CronEntries(sched, tenant)) <= Cardinality(B)
      /\ Cardinality(CronEntries(sched, tenant)) \in Nat
  BY <1>2, <1>4, FS_Subset, FS_CardinalityType
<1>7. QED
  BY <1>1, <1>3, <1>4, <1>5, <1>6, FS_EmptySet

\* setcronschedule keeps one cron entry per implementation and tenant by a query
\* alone: there are never more than admins that set it at the same time.
THEOREM CronBounded == AdminSpec => []AdminInv
<1>1. AllInv /\ CronEntriesBounded => AdminInv
  BY DEF AllInv, AdminInv
<1>2. QED
  BY <1>1, AdminInvariance, BoundedInit, BoundedNext, PTL DEF AdminSpec
=============================================================================
