---------------------------- MODULE DeferredLemmas ----------------------------
(***************************************************************************)
(* The invariants of jQuery's Callbacks and Deferred, and what the         *)
(* operations on lists do to them.  DeferredProofs has the steps and the   *)
(* theorems.                                                               *)
(*                                                                         *)
(* Two kinds of behaviour never meet: either the application has lists of  *)
(* its own (FreeInv), or deferreds, whose lists it cannot reach but by the *)
(* operations of Deferred (CoreInv).  The parts of the invariants are      *)
(* operators of the lists ls, the stack s, the states st and so on, so     *)
(* that a lemma about an operation on a list can be used for the next      *)
(* state, and for the states that an action goes through.                  *)
(***************************************************************************)
EXTENDS Deferred, FilterProofs, SequenceTheorems

Lists == Deferreds \X Ons
Outcomes == {"done", "fail"}

\* What lists are fired with.
Data == 1 .. MaxOps + MaxAnswers

-----------------------------------------------------------------------------
(* The life of the lists for done and fail.  They are fired once: a fresh  *)
(* list starts with the function that settles the deferred, and is fired   *)
(* for good once that function was called, or off if that of the other     *)
(* list was.                                                               *)

OnceList(c) == c \in CallbackList /\ c.options = {"once", "memory"}

Still(c) == ~c.firing /\ c.firingIndex = 0 /\ c.queue = <<>>

\* The function that settles d comes first, and nowhere else.
Starts(d, c) ==
    /\ c.firingIndex = 0 /\ Len(c.list) >= 1 /\ c.list[1] = Prologue(d)
    /\ \A k \in DOMAIN c.list : k > 1 => c.list[k].kind # "prologue"

FreshList(d, c) ==
    ~c.locked /\ ~c.spent /\ Still(c) /\ c.memory = NoData /\ Starts(d, c)

StartingList(d, c) ==
    /\ c.locked /\ ~c.spent /\ c.firing /\ c.queue = <<>> /\ c.memory \in Data
    /\ Starts(d, c)

GoingList(c) ==
    /\ c.locked /\ ~c.spent /\ c.firing /\ c.queue = <<>> /\ c.memory \in Data
    /\ c.firingIndex \in 0 .. Len(c.list)
    /\ \A k \in DOMAIN c.list : k > c.firingIndex => c.list[k].kind # "prologue"

FiredList(c) ==
    c.locked /\ ~c.spent /\ Still(c) /\ c.list = <<>> /\ c.memory \in Data

OffList(c) ==
    c.locked /\ c.spent /\ Still(c) /\ c.list = <<>> /\ c.memory = NoData

FreshPhase(d, st, ls) ==
    /\ st[d] \in {"unused", "pending"}
    /\ \A on \in Outcomes : FreshList(d, ls[<<d, on>>])

StartingPhase(d, on, st, ls, s) ==
    /\ st[d] = "pending"
    /\ StartingList(d, ls[<<d, on>>]) /\ FreshList(d, ls[<<d, Other(on)>>])
    /\ s # <<>> /\ s[Len(s)] = FireFrame(<<d, on>>)

SettledPhase(d, on, st, ls) ==
    /\ st[d] = Final(on)
    /\ GoingList(ls[<<d, on>>]) \/ FiredList(ls[<<d, on>>])
    /\ OffList(ls[<<d, Other(on)>>])

Phase(d, st, ls, s) ==
    \/ FreshPhase(d, st, ls)
    \/ \E on \in Outcomes : StartingPhase(d, on, st, ls, s) \/ SettledPhase(d, on, st, ls)

Phases(st, ls, s) == \A d \in Deferreds : Phase(d, st, ls, s)

\* No list is about to settle its deferred.
Quiet(ls) == \A d \in Deferreds, on \in Outcomes : ~StartingList(d, ls[<<d, on>>])

\* The callbacks that are still to be called.
Ahead(c) == {k \in DOMAIN c.list : k > c.firingIndex /\ c.list[k].kind # "prologue"}

\* What may be in the list of d for `on'.
IsRegistered(d, on, f, reg) ==
    f.kind = "call" /\ f.n \in DOMAIN reg /\ reg[f.n] = [of |-> d, on |-> on]

IsGiven(d, m, ar) == m \in Deferreds /\ \E i \in DOMAIN ar[m] : ar[m][i] = d

Fits(d, on, f, reg, ar) ==
    \/ IsRegistered(d, on, f, reg)
    \/ on = "done" /\ f.kind = "update" /\ IsGiven(d, f.n, ar)
    \/ on = "fail" /\ f.kind = "reject" /\ IsGiven(d, f.n, ar)

AllFit(ls, reg, ar) ==
    \A d \in Deferreds, on \in Outcomes : \A k \in Ahead(ls[<<d, on>>]) :
        Fits(d, on, ls[<<d, on>>].list[k], reg, ar)

\* The list for progress may be fired again and again.
ProgressList(c) ==
    /\ c \in CallbackList /\ c.options = {"memory"}
    /\ c.queue \in Seq(Data) /\ c.memory \in Data \cup {NoData}
    /\ c.firing => c.memory # NoData
    /\ ~c.firing => Still(c)

ProgressLists(ls, reg) ==
    \A d \in Deferreds :
        LET c == ls[<<d, "progress">>]
        IN  /\ ProgressList(c)
            /\ \A k \in DOMAIN c.list :
                  c.list[k] = Prologue(d) \/ IsRegistered(d, "progress", c.list[k], reg)

OnceLists(ls) == \A d \in Deferreds, on \in Outcomes : OnceList(ls[<<d, on>>])

-----------------------------------------------------------------------------
(* The stack.                                                              *)

StackFrame ==
    [frame : {"fire"}, of : Lists] \cup [frame : {"body"}, of : Nat]
    \cup [frame : {"process"}, to : Deferreds, depth : Nat]
    \cup [frame : {"handler"}, to : Deferreds, v : Data]
    \cup [frame : {"foreign"}, hook : [to : Deferreds, depth : Nat \ {0}]]
    \cup [frame : {"when"}, to : Deferreds, depth : 1 .. 2]

\* A list is fired by one loop at a time.
OneLoop(ls, s) ==
    \A k \in DOMAIN s : s[k].frame = "fire" =>
        /\ ls[s[k].of].firing
        /\ \A j \in DOMAIN s : s[j].frame = "fire" /\ s[j].of = s[k].of => j = k

\* What is in the list l while the `when' that made m runs, if the list calls
\* back: what settles its deferred, and what counts for m.
Spared(ls, l, m) ==
    /\ l[2] \in Outcomes
    /\ \A i \in DOMAIN ls[l].list :
          \/ ls[l].list[i].kind = "prologue"
          \/ ls[l].list[i].kind \in {"update", "reject"} /\ ls[l].list[i].n = m

\* While when runs only lists fire that do not call the application, and
\* nobody has seen what it will return.
WhenAlone(ls, s) ==
    \A k \in DOMAIN s : s[k].frame = "when" =>
        /\ \A on \in Outcomes : \A i \in DOMAIN ls[<<s[k].to, on>>].list :
              ls[<<s[k].to, on>>].list[i].kind = "prologue"
        /\ \A j \in k + 1 .. Len(s) : s[j].frame = "fire" /\ Spared(ls, s[j].of, s[k].to)

\* What the lists and the stack are like, with each other.
Sound(ls, s, st, reg, ar) ==
    /\ DOMAIN ls = Lists
    /\ s \in Seq(StackFrame)
    /\ OnceLists(ls)
    /\ Phases(st, ls, s)
    /\ AllFit(ls, reg, ar)
    /\ ProgressLists(ls, reg)
    /\ OneLoop(ls, s)
    /\ WhenAlone(ls, s)

\* What a then or a when may settle.
Due(t, src, md) == t.to \in Deferreds /\ src[t.to] # 0 /\ t.depth \in 0 .. md[t.to]

\* What a frame of the stack s rests on.
RestsOn(s, k, hk, md, src, ar) ==
    /\ s[k].frame = "body" => k > 1 /\ s[k - 1].frame = "fire"
    /\ s[k].frame = "handler" =>
          k = 2 /\ s[1] = ProcessFrame(s[2].to, md[s[2].to])
    /\ s[k].frame = "foreign" =>
          /\ s[k].hook \in hk
          /\ k > 1 /\ s[k - 1] = ProcessFrame(s[k].hook.to, s[k].hook.depth - 1)
    /\ s[k].frame \in {"process", "foreign"} =>
          \A j \in 1 .. k - 1 : s[j].frame \in {"process", "foreign"}
    /\ s[k].frame = "process" => Due(s[k], src, md)
    /\ s[k].frame = "when" => ar[s[k].to] # <<>>

Frames(s, hk, md, src, ar) == \A k \in DOMAIN s : RestsOn(s, k, hk, md, src, ar)

-----------------------------------------------------------------------------
(* The deferreds made by then and when.                                    *)

\* Two arguments, one of them a deferred at least, and not the new one.
ArgsOK(m) ==
    /\ args[m] \in [1 .. 2 -> 0 .. MaxDeferred]
    /\ args[m][1] # 0 \/ args[m][2] # 0
    /\ \A i \in 1 .. 2 : args[m][i] # 0 => args[m][i] # m /\ Made(args[m][i])

Sources ==
    \A d \in Deferreds :
        /\ source[d] # 0 => args[d] = <<>> /\ Made(d)
        /\ args[d] # <<>> => ArgsOK(d) /\ ops >= 1 /\ Made(d)
        /\ ~Made(d) => \A on \in Outcomes : Ahead(lists[<<d, on>>]) = {}
        /\ state[d] # "pending" => thens[d] = <<>>

Promised ==
    /\ \A d \in Deferreds : \A k \in DOMAIN thens[d] : Due(thens[d][k], source, maxDepth)
    /\ \A k \in DOMAIN timers : Due(timers[k], source, maxDepth) /\ timers[k].v \in Data
    /\ \A h \in hooks : Due(h, source, maxDepth)
    /\ \A k \in DOMAIN answers : answers[k].hook \in hooks /\ answers[k].v = MaxOps + k

DeferredTypes ==
    /\ state \in [Deferreds -> {"unused", "pending"} \cup Settled]
    /\ thens \in [Deferreds -> Seq(Then)]
    /\ timers \in Seq(Timer)
    /\ maxDepth \in [Deferreds -> Nat]
    /\ hooks \subseteq [to : Deferreds, depth : Nat \ {0}]
    /\ args \in [Deferreds -> Seq(0 .. MaxDeferred)]
    /\ remaining \in [Deferreds -> Int]
    /\ source \in [Deferreds -> 0 .. MaxDeferred]
    /\ registered \in Seq([of : Deferreds, on : Ons])
    /\ answers \in Seq([hook : [to : Deferreds, depth : Nat \ {0}], v : Nat])
    /\ heard \in Seq([of : Lists, n : Nat, v : Data])
    /\ ops \in 0 .. MaxOps
    /\ Len(answers) <= MaxAnswers

CoreInv ==
    /\ DeferredTypes
    /\ Sound(lists, stack, state, registered, args)
    /\ Frames(stack, hooks, maxDepth, source, args)
    /\ Sources
    /\ Promised

-----------------------------------------------------------------------------
(* What the second answer of a thenable says is kept nowhere.              *)

\* The answer k of an comes after another one of the same thenable.
Late(k, an) == \E j \in 1 .. k - 1 : an[j].hook = an[k].hook

\* v was fired by the application, or is an answer that is not late.
Heedable(v, an) ==
    /\ v <= MaxOps + Len(an)
    /\ \A k \in DOMAIN an : Late(k, an) => an[k].v # v

Decided(d, ls) == \E on \in Outcomes : ls[<<d, on>>].memory # NoData

AnswersInv ==
    /\ \A k \in DOMAIN answers :
          LET h == answers[k].hook IN maxDepth[h.to] > h.depth \/ Decided(h.to, lists)
    /\ \A d \in Deferreds, on \in Outcomes : Heedable(lists[<<d, on>>].memory, answers)
    /\ \A k \in DOMAIN timers : timers[k].how # "progress" => Heedable(timers[k].v, answers)
    /\ \A k \in DOMAIN stack : stack[k].frame = "handler" => Heedable(stack[k].v, answers)

-----------------------------------------------------------------------------
(* Callbacks are called in the order they were registered in.              *)

AheadCalls(c) == {k \in Ahead(c) : c.list[k].kind = "call"}

\* Of the calls of c, those of hd at X were done and those ahead are not; the
\* callbacks R were registered, and called unless the deferred went the other way.
Ordered(c, X, R, hd, to, on) ==
    /\ \A j, k \in X : j < k => hd[j].n < hd[k].n
    /\ \A j, k \in AheadCalls(c) : j < k => c.list[j].n < c.list[k].n
    /\ \A j \in X : \A k \in AheadCalls(c) : hd[j].n < c.list[k].n
    /\ \A n \in R :
          \/ \E k \in X : hd[k].n = n
          \/ \E k \in AheadCalls(c) : c.list[k].n = n
          \/ to = Final(Other(on))
    /\ \A k \in X : to = Final(on) /\ hd[k].v = c.memory

OrderOf(d, on) ==
    Ordered(lists[<<d, on>>], CallsOf(d, on), RegisteredFor(d, on), heard, state[d], on)

HeardRegistered ==
    \A k \in DOMAIN heard :
        /\ heard[k].n \in DOMAIN registered
        /\ heard[k].of = <<registered[heard[k].n].of, registered[heard[k].n].on>>

OrderInv == HeardRegistered /\ \A d \in Deferreds, on \in Outcomes : OrderOf(d, on)

-----------------------------------------------------------------------------
(* When waits for its arguments.                                           *)

\* The arguments when has not looked at yet, and those it has.
Unadopted(m, s) ==
    {i \in 1 .. 2 : \E k \in DOMAIN s : s[k].frame = "when" /\ s[k].to = m /\ i <= s[k].depth}
Adopted(m, s, ar) == {ar[m][i] : i \in (1 .. 2) \ Unadopted(m, s)} \ {0}

Update(m) == [kind |-> "update", n |-> m]
Reject(m) == [kind |-> "reject", n |-> m]

\* Where f is still to be called.
Places(c, f) == {k \in Ahead(c) : c.list[k] = f}

\* What m is waiting for.
Updates(m, ls) ==
    {p \in Deferreds \X Nat : p[2] \in Places(ls[<<p[1], "done">>], Update(m))}
Outstanding(m, ls, s) == ({0} \X Unadopted(m, s)) \cup Updates(m, ls)

SomeRejected(m, st, s, ar) == \E d \in Adopted(m, s, ar) : st[d] = "rejected"

Counts(m, left, ls, s, st, ar) ==
    /\ IsFiniteSet(Outstanding(m, ls, s))
    /\ left >= Cardinality(Outstanding(m, ls, s))
    /\ IF SomeRejected(m, st, s, ar)
       THEN left > Cardinality(Outstanding(m, ls, s))
       ELSE left = Cardinality(Outstanding(m, ls, s))

WaitsOf(m, left, ls, s, st, ar) ==
    /\ Counts(m, left, ls, s, st, ar)
    /\ \A d \in Deferreds :
          Places(ls[<<d, "done">>], Update(m)) # {} => d \in Adopted(m, s, ar)
    /\ \A d \in Adopted(m, s, ar) :
          /\ st[d] = "pending" => Places(ls[<<d, "done">>], Update(m)) # {}
          /\ st[d] # "resolved" =>
                Places(ls[<<d, "fail">>], Reject(m)) # {} \/ Decided(m, ls)
    /\ ls[<<m, "done">>].memory # NoData => left = 0
    /\ left = 0 => Decided(m, ls)
    /\ ls[<<m, "fail">>].memory # NoData =>
          \E d \in Deferreds : IsGiven(d, m, ar) /\ st[d] = "rejected"

WaitsInv ==
    \A m \in Deferreds :
        IF args[m] = <<>> THEN remaining[m] = 0
        ELSE WaitsOf(m, remaining[m], lists, stack, state, args)

DInv == CoreInv /\ emptied = {} /\ AnswersInv /\ OrderInv /\ WaitsInv

-----------------------------------------------------------------------------
(* The lists of the application.                                           *)

FreeFrame == [frame : {"fire"}, of : FreeLists] \cup [frame : {"body"}, of : Nat]

FreeTypes ==
    /\ lists \in [FreeLists -> CallbackList]
    /\ stack \in Seq(FreeFrame)
    /\ heard \in Seq([of : FreeLists, n : Nat, v : Nat])
    /\ ops \in 0 .. MaxOps
    /\ emptied \subseteq FreeLists
    /\ \A k \in DOMAIN stack : stack[k].frame = "body" => k > 1 /\ stack[k - 1].frame = "fire"

NoDeferreds ==
    /\ state = [d \in Deferreds |-> "unused"]
    /\ thens = [d \in Deferreds |-> <<>>]
    /\ timers = <<>>
    /\ maxDepth = [d \in Deferreds |-> 0]
    /\ hooks = {}
    /\ args = [d \in Deferreds |-> <<>>]
    /\ remaining = [d \in Deferreds |-> 0]
    /\ registered = <<>>
    /\ source = [d \in Deferreds |-> 0]
    /\ answers = <<>>

\* The list remembers what it was fired with, and the callbacks that the loop
\* reached were called with it, says hd: all of them if there is no loop.
Told(l, c, hd) ==
    "memory" \in c.options /\ c.memory # NoData =>
        \A k \in DOMAIN c.list : (c.firing => k <= c.firingIndex) =>
            [of |-> l, n |-> c.list[k].n, v |-> c.memory] \in ToSet(hd)

\* The list c of the application, named l; em were emptied by a callback.
FreeList(l, c, hd, em) ==
    /\ \A k \in DOMAIN c.list : c.list[k].kind = "call"
    /\ ~c.firing => c.queue = <<>> /\ c.firingIndex = 0
    /\ c.spent => c.list = <<>> /\ c.queue = <<>> /\ c.locked /\ c.memory = NoData
    /\ ~c.spent /\ l \notin em => c.firingIndex <= Len(c.list)
    /\ l \notin em => Told(l, c, hd)

FreeInv ==
    /\ FreeTypes /\ NoDeferreds
    /\ OneLoop(lists, stack)
    /\ \A l \in FreeLists : FreeList(l, lists[l], heard, emptied)

DeferredIInv == FreeInv \/ DInv

-----------------------------------------------------------------------------
(* The operations on a list of a deferred.                                 *)

LEMMA CallbackListFields ==
  ASSUME NEW c
  PROVE  c \in CallbackList <=>
           /\ c = [options |-> c.options, list |-> c.list, spent |-> c.spent,
                   queue |-> c.queue, firingIndex |-> c.firingIndex,
                   firing |-> c.firing, locked |-> c.locked, memory |-> c.memory]
           /\ c.options \in SUBSET Flags /\ c.list \in Seq(Callback)
           /\ c.spent \in BOOLEAN /\ c.queue \in Seq(Datum) /\ c.firingIndex \in Nat
           /\ c.firing \in BOOLEAN /\ c.locked \in BOOLEAN
           /\ c.memory \in Datum \cup {NoData}
BY DEF CallbackList

LEMMA NoCallbacks == <<>> \in Seq(Callback) /\ <<>> \in Seq(Datum)
OBVIOUS

LEMMA DataDatum == Data \subseteq Datum /\ NoData \notin Data
BY CallbacksAssumption, DeferredAssumption DEF Data, Datum, NoData

LEMMA OthersOf ==
  /\ Outcomes \subseteq Ons /\ Ons = Outcomes \cup {"progress"} /\ "progress" \notin Outcomes
  /\ \A on \in Outcomes :
        /\ Other(on) \in Outcomes /\ Other(on) # on /\ Other(Other(on)) = on
        /\ Outcomes = {on, Other(on)}
        /\ Final(on) \in Settled /\ Final(Other(on)) # Final(on)
        /\ Final(on) \notin {"unused", "pending"}
  /\ \A o1, o2 \in Outcomes : Final(o1) = Final(o2) => o1 = o2
BY DEF Outcomes, Ons, Other, Final, Settled

\* fireWith calls a fresh list, and leaves the others alone.
LEMMA FireFresh ==
  ASSUME NEW d, NEW c, OnceList(c), FreshList(d, c), NEW v \in Data
  PROVE  /\ StartsFiring(c)
         /\ OnceList(FiredWith(c, v)) /\ StartingList(d, FiredWith(c, v))
         /\ FiredWith(c, v).list = c.list /\ FiredWith(c, v).firingIndex = c.firingIndex
         /\ FiredWith(c, v).memory = v /\ FiredWith(c, v).firing
<1>1. StartsFiring(c)
  BY DEF StartsFiring, FreshList, Still
<1>2. c.queue = <<>> /\ ~c.locked /\ ~c.firing /\ v \in Datum
  BY DataDatum DEF FreshList, Still
<1>3. FiredWith(c, v) = [c EXCEPT !.locked = TRUE, !.firing = TRUE, !.memory = v, !.queue = <<>>]
  <2>1. Append(c.queue, v) = <<v>> /\ Head(<<v>>) = v /\ Tail(<<v>>) = <<>>
    BY <1>2
  <2>2. "once" \in c.options /\ c \in CallbackList
    BY DEF OnceList
  <2>3. FiredWith(c, v) = Entered([c EXCEPT !.queue = <<v>>])
    BY <1>2, <2>1 DEF FiredWith
  <2>4. QED BY <2>1, <2>2, <2>3, CallbackListFields DEF Entered, CallbackList
<1> DEFINE e == FiredWith(c, v)
<1>4. /\ e.options = c.options /\ e.list = c.list /\ e.spent = c.spent /\ e.queue = <<>>
      /\ e.firingIndex = c.firingIndex /\ e.firing = TRUE /\ e.locked = TRUE /\ e.memory = v
      /\ e \in CallbackList
  BY <1>2, <1>3, CallbackListFields DEF OnceList, CallbackList
<1> HIDE DEF e
<1>5. OnceList(e) /\ StartingList(d, e)
  BY <1>4 DEF OnceList, StartingList, FreshList, Starts
<1>6. QED BY <1>1, <1>4, <1>5 DEF e

LEMMA FireLocked ==
  ASSUME NEW c, c.locked, NEW v
  PROVE  FiredWith(c, v) = c /\ ~StartsFiring(c)
BY DEF FiredWith, StartsFiring

\* add puts a callback at the end; a list that was fired calls it right away,
\* one that was switched off ignores it.
LEMMA AddOnce ==
  ASSUME NEW d, NEW c, OnceList(c), NEW f \in Callback, f.kind # "prologue",
         FreshList(d, c) \/ GoingList(c) \/ FiredList(c)
  PROVE  /\ Replays(c) <=> FiredList(c)
         /\ OnceList(Added(c, f))
         /\ Added(c, f).list = Append(c.list, f)
         /\ Added(c, f).firingIndex = c.firingIndex /\ Added(c, f).memory = c.memory
         /\ FreshList(d, c) => FreshList(d, Added(c, f)) /\ Added(c, f).firing = c.firing
         /\ GoingList(c) \/ FiredList(c) => GoingList(Added(c, f)) /\ Added(c, f).firing
<1>1. /\ c \in CallbackList /\ c.options = {"once", "memory"} /\ ~c.spent
      /\ "unique" \notin c.options
  BY DEF OnceList, FreshList, GoingList, FiredList
<1>2. /\ c.list \in Seq(Callback) /\ Append(c.list, f) \in Seq(Callback)
      /\ Len(Append(c.list, f)) = Len(c.list) + 1
      /\ \A k \in 1 .. Len(c.list) : Append(c.list, f)[k] = c.list[k]
      /\ Append(c.list, f)[Len(c.list) + 1] = f
      /\ DOMAIN c.list = 1 .. Len(c.list) /\ Len(c.list) \in Nat
      /\ DOMAIN Append(c.list, f) = 1 .. Len(c.list) + 1
  BY <1>1, CallbackListFields, AppendProperties
<1> DEFINE with == [c EXCEPT !.list = Append(c.list, f)]
<1>3. CASE FreshList(d, c)
  <2>1. ~Replays(c) /\ ~FiredList(c)
    BY <1>3, DataDatum DEF Replays, FreshList, FiredList
  <2>2. Added(c, f) = with
    BY <1>1, <2>1 DEF Added
  <2>3. /\ with.options = c.options /\ with.list = Append(c.list, f) /\ with.spent = c.spent
        /\ with.queue = c.queue /\ with.firingIndex = c.firingIndex /\ with.firing = c.firing
        /\ with.locked = c.locked /\ with.memory = c.memory /\ with \in CallbackList
    BY <1>1, <1>2 DEF CallbackList
  <2> HIDE DEF with
  <2>4. Starts(d, with)
    BY <1>2, <1>3, <2>3 DEF FreshList, Starts
  <2>5. FreshList(d, with)
    BY <1>3, <2>3, <2>4 DEF FreshList, Still
  <2>6. ~GoingList(c)
    BY <1>3 DEF GoingList, FreshList
  <2>7. QED BY <1>1, <2>1, <2>2, <2>3, <2>5, <2>6 DEF OnceList
<1>4. CASE GoingList(c)
  <2>1. ~Replays(c) /\ ~FiredList(c) /\ ~FreshList(d, c)
    BY <1>4 DEF Replays, FreshList, FiredList, GoingList, Still
  <2>2. Added(c, f) = with
    BY <1>1, <2>1 DEF Added
  <2>3. /\ with.options = c.options /\ with.list = Append(c.list, f) /\ with.spent = c.spent
        /\ with.queue = c.queue /\ with.firingIndex = c.firingIndex /\ with.firing = c.firing
        /\ with.locked = c.locked /\ with.memory = c.memory /\ with \in CallbackList
    BY <1>1, <1>2 DEF CallbackList
  <2> HIDE DEF with
  <2>4. GoingList(with)
    BY <1>2, <1>4, <2>3 DEF GoingList
  <2>5. QED BY <1>1, <1>4, <2>1, <2>2, <2>3, <2>4 DEF OnceList, GoingList
<1>5. CASE FiredList(c)
  <2>1. Replays(c) /\ ~GoingList(c) /\ ~FreshList(d, c)
    BY <1>5, DataDatum DEF Replays, FreshList, FiredList, GoingList, Still
  <2>2. c.list = <<>> /\ c.queue = <<>> /\ c.firingIndex = 0 /\ c.memory \in Datum /\ c.locked
    BY <1>5, DataDatum DEF FiredList, Still
  <2> DEFINE e == Added(c, f)
  <2>3. PICK x, y, z : x = Append(c.list, f) /\ y = <<c.memory>> /\ z = <<>>
    OBVIOUS
  <2>4. e = [c EXCEPT !.list = x, !.firingIndex = 0, !.locked = TRUE, !.firing = TRUE,
                      !.memory = c.memory, !.queue = z]
    <3>1. Append(c.queue, c.memory) = y /\ Head(y) = c.memory /\ Tail(y) = z /\ Len(c.list) = 0
      BY <2>2, <2>3
    <3>2. e = Entered([with EXCEPT !.firingIndex = 0, !.queue = y])
      BY <1>1, <2>1, <3>1 DEF Added
    <3>3. e = Entered([[c EXCEPT !.list = x] EXCEPT !.firingIndex = 0, !.queue = y])
      BY <3>2, <2>3
    <3> HIDE DEF e
    <3>4. QED BY <1>1, <3>1, <3>3 DEF Entered, CallbackList
  <2>7. /\ e.options = c.options /\ e.list = Append(c.list, f) /\ e.spent = c.spent
        /\ e.queue = <<>> /\ e.firingIndex = c.firingIndex /\ e.firing = TRUE
        /\ e.locked = TRUE /\ e.memory = c.memory /\ e \in CallbackList
    <3> HIDE DEF e
    <3>1. z \in Seq(Datum) /\ x \in Seq(Callback)
      BY <1>2, <2>3, NoCallbacks
    <3>2. QED BY <1>1, <2>2, <2>3, <2>4, <3>1 DEF CallbackList
  <2> HIDE DEF e
  <2>5. GoingList(e)
    BY <1>2, <1>5, <2>2, <2>7 DEF GoingList, FiredList
  <2>6. QED BY <1>1, <1>5, <2>1, <2>2, <2>7, <2>5 DEF OnceList, e
<1>6. QED BY <1>3, <1>4, <1>5

LEMMA AddOff ==
  ASSUME NEW c, OffList(c), NEW f
  PROVE  Added(c, f) = c /\ ~Replays(c)
BY DEF OffList, Added, Replays

\* The loop goes on, or ends.
LEMMA PassGoing ==
  ASSUME NEW c, OnceList(c), GoingList(c), c.firingIndex < Len(c.list)
  PROVE  LET e == [c EXCEPT !.firingIndex = @ + 1]
         IN  /\ OnceList(e) /\ GoingList(e)
             /\ e.list = c.list /\ e.memory = c.memory /\ e.firing
             /\ e.firingIndex = c.firingIndex + 1
<1> DEFINE e == [c EXCEPT !.firingIndex = @ + 1]
<1>1. c \in CallbackList /\ c.options = {"once", "memory"} /\ c.firing
  BY DEF OnceList, GoingList
<1> DEFINE n == c.firingIndex + 1
<1>2. n \in Nat /\ e = [c EXCEPT !.firingIndex = n]
  BY <1>1 DEF CallbackList
<1>6. /\ e.options = c.options /\ e.list = c.list /\ e.spent = c.spent
      /\ e.queue = c.queue /\ e.firingIndex = n /\ e.firing = c.firing
      /\ e.locked = c.locked /\ e.memory = c.memory /\ e \in CallbackList
  <2> HIDE DEF n, e
  <2> QED BY <1>1, <1>2 DEF CallbackList
<1> HIDE DEF e
<1>3. c.list \in Seq(Callback) /\ Len(c.list) \in Nat /\ DOMAIN c.list = 1 .. Len(c.list)
  BY <1>1 DEF CallbackList
<1>4. GoingList(e)
  BY <1>6, <1>3 DEF GoingList
<1>5. QED BY <1>1, <1>6, <1>4 DEF OnceList, e

LEMMA SettleStarting ==
  ASSUME NEW d, NEW c, OnceList(c), StartingList(d, c)
  PROVE  LET e == [c EXCEPT !.firingIndex = @ + 1]
         IN  /\ OnceList(e) /\ GoingList(e)
             /\ e.list = c.list /\ e.memory = c.memory /\ e.firing
             /\ e.firingIndex = 1 /\ c.firingIndex = 0
<1> DEFINE e == [c EXCEPT !.firingIndex = @ + 1]
<1>1. c \in CallbackList /\ c.options = {"once", "memory"} /\ c.firing
  BY DEF OnceList, StartingList
<1> DEFINE n == c.firingIndex + 1
<1>2. n \in Nat /\ e = [c EXCEPT !.firingIndex = n]
  BY <1>1 DEF CallbackList
<1>6. /\ e.options = c.options /\ e.list = c.list /\ e.spent = c.spent
      /\ e.queue = c.queue /\ e.firingIndex = n /\ e.firing = c.firing
      /\ e.locked = c.locked /\ e.memory = c.memory /\ e \in CallbackList
  <2> HIDE DEF n, e
  <2> QED BY <1>1, <1>2 DEF CallbackList
<1> HIDE DEF e
<1>3. c.list \in Seq(Callback) /\ Len(c.list) \in Nat /\ DOMAIN c.list = 1 .. Len(c.list)
  BY <1>1 DEF CallbackList
<1>4. GoingList(e)
  BY <1>6, <1>3 DEF GoingList, StartingList, Starts
<1>5. c.firingIndex = 0
  BY DEF StartingList, Starts
<1>7. QED BY <1>1, <1>6, <1>4, <1>5 DEF OnceList, e

LEMMA DisableFresh ==
  ASSUME NEW d, NEW c, OnceList(c), FreshList(d, c)
  PROVE  OnceList(Disabled(c)) /\ OffList(Disabled(c))
<1> DEFINE e == Disabled(c)
<1>1. c \in CallbackList /\ c.options = {"once", "memory"}
  BY DEF OnceList
<1>2. PICK x, y : x = <<>> /\ y = <<>> /\ x \in Seq(Callback) /\ y \in Seq(Datum)
  BY NoCallbacks, Zenon
<1>3. e = [c EXCEPT !.locked = TRUE, !.queue = y, !.list = x, !.spent = TRUE, !.memory = NoData]
  BY <1>2, Zenon DEF Disabled
<1>4. /\ e.options = c.options /\ e.list = <<>> /\ e.spent = TRUE
      /\ e.queue = <<>> /\ e.firingIndex = c.firingIndex /\ e.firing = c.firing
      /\ e.locked = TRUE /\ e.memory = NoData /\ e \in CallbackList
  <2> HIDE DEF e
  <2> QED BY <1>1, <1>2, <1>3 DEF CallbackList
<1> HIDE DEF e
<1>5. QED BY <1>1, <1>4 DEF OnceList, OffList, FreshList, Still, e

LEMMA FinishGoing ==
  ASSUME NEW c, OnceList(c), GoingList(c)
  PROVE  /\ OnceList(Finished(c)) /\ FiredList(Finished(c))
         /\ Finished(c).memory = c.memory
<1> DEFINE e == Finished(c)
<1>1. c \in CallbackList /\ c.options = {"once", "memory"} /\ c.locked /\ c.memory \in Data
      /\ ~c.spent /\ c.memory # NoData /\ c.queue = <<>>
  BY DataDatum DEF OnceList, GoingList
<1>2. PICK x : x = <<>> /\ x \in Seq(Callback)
  BY NoCallbacks, Zenon
<1>3. e = [c EXCEPT !.firingIndex = 0, !.memory = c.memory, !.firing = FALSE, !.list = x,
                    !.spent = FALSE]
  BY <1>1, <1>2 DEF Finished
<1>4. /\ e.options = c.options /\ e.list = <<>> /\ e.spent = FALSE
      /\ e.queue = c.queue /\ e.firingIndex = 0 /\ e.firing = FALSE
      /\ e.locked = TRUE /\ e.memory = c.memory /\ e \in CallbackList
  <2> HIDE DEF e
  <2> QED BY <1>1, <1>2, <1>3 DEF CallbackList
<1> HIDE DEF e
<1>5. QED BY <1>1, <1>4 DEF OnceList, FiredList, Still, e

-----------------------------------------------------------------------------
(* The lists and the stack, from one state to another.                     *)

\* The same callbacks are still to be called.
SameAhead(c, e) == Ahead(e) = Ahead(c) /\ \A k \in Ahead(c) : e.list[k] = c.list[k]

LEMMA SameLists ==
  ASSUME NEW c, NEW e, e.list = c.list, e.firingIndex = c.firingIndex
  PROVE  SameAhead(c, e)
BY DEF SameAhead, Ahead

LEMMA AppendElements ==
  ASSUME NEW S, NEW q \in Seq(S), NEW f \in S
  PROVE  /\ Append(q, f) \in Seq(S) /\ Len(Append(q, f)) = Len(q) + 1
         /\ \A i \in DOMAIN Append(q, f) :
               (i \in DOMAIN q /\ Append(q, f)[i] = q[i]) \/ Append(q, f)[i] = f
OBVIOUS

LEMMA OnlyElement ==
  ASSUME NEW f
  PROVE  \A i \in DOMAIN <<f>> : <<f>>[i] = f
OBVIOUS

LEMMA Frame1 ==
  ASSUME NEW l \in Lists
  PROVE  FireFrame(l) \in StackFrame /\ FireFrame(l).frame = "fire" /\ FireFrame(l).of = l
BY DEF FireFrame, StackFrame

LEMMA LoopSame ==
  ASSUME NEW ls, NEW s, NEW ls2, OneLoop(ls, s),
         \A k \in DOMAIN s : s[k].frame = "fire" /\ ls[s[k].of].firing => ls2[s[k].of].firing
  PROVE  OneLoop(ls2, s)
BY DEF OneLoop

LEMMA LoopPush ==
  ASSUME NEW ls, NEW s, s \in Seq(StackFrame), NEW ls2, NEW l \in Lists, OneLoop(ls, s),
         ~ls[l].firing, ls2[l].firing,
         \A k \in DOMAIN s : s[k].frame = "fire" /\ ls[s[k].of].firing => ls2[s[k].of].firing
  PROVE  OneLoop(ls2, Append(s, FireFrame(l)))
<1> DEFINE s2 == Append(s, FireFrame(l))
<1>1. /\ Len(s) \in Nat /\ DOMAIN s = 1 .. Len(s) /\ DOMAIN s2 = 1 .. Len(s) + 1
      /\ \A k \in 1 .. Len(s) : s2[k] = s[k]
      /\ s2[Len(s) + 1].frame = "fire" /\ s2[Len(s) + 1].of = l
  BY Frame1, AppendProperties
<1> HIDE DEF s2
<1>2. \A k \in DOMAIN s : s[k].frame = "fire" => ls[s[k].of].firing /\ s[k].of # l
  BY DEF OneLoop
<1>3. SUFFICES ASSUME NEW k \in DOMAIN s2, s2[k].frame = "fire"
               PROVE  /\ ls2[s2[k].of].firing
                      /\ \A j \in DOMAIN s2 : s2[j].frame = "fire" /\ s2[j].of = s2[k].of => j = k
  BY DEF OneLoop, s2
<1>4. CASE k = Len(s) + 1
  <2>1. s2[k].of = l
    BY <1>1, <1>4
  <2>2. ASSUME NEW j \in DOMAIN s2, s2[j].frame = "fire", s2[j].of = l PROVE j = k
    <3>1. SUFFICES ASSUME j # k PROVE FALSE
      OBVIOUS
    <3>2. j \in DOMAIN s /\ s2[j] = s[j]
      BY <1>1, <1>4, <3>1
    <3>3. QED BY <1>2, <2>2, <3>2
  <2>3. QED BY <2>1, <2>2
<1>5. CASE k # Len(s) + 1
  <2>1. k \in DOMAIN s /\ s2[k] = s[k]
    BY <1>1, <1>5
  <2>2. ls2[s2[k].of].firing /\ s2[k].of # l
    BY <1>2, <1>3, <2>1
  <2>3. ASSUME NEW j \in DOMAIN s2, s2[j].frame = "fire", s2[j].of = s2[k].of PROVE j = k
    <3>1. j # Len(s) + 1
      BY <1>1, <2>2, <2>3
    <3>2. j \in DOMAIN s /\ s2[j] = s[j]
      BY <1>1, <3>1
    <3>3. QED BY <1>3, <2>1, <2>3, <3>2 DEF OneLoop
  <2>4. QED BY <2>2, <2>3
<1>6. QED BY <1>4, <1>5

\* Other frames than those of loops do not matter to OneLoop, nor those gone.
LEMMA LoopPushOther ==
  ASSUME NEW ls, NEW s, s \in Seq(StackFrame), NEW f, f.frame # "fire", OneLoop(ls, s)
  PROVE  OneLoop(ls, Append(s, f))
<1> DEFINE s2 == Append(s, f)
<1>1. /\ Len(s) \in Nat /\ DOMAIN s = 1 .. Len(s) /\ DOMAIN s2 = 1 .. Len(s) + 1
      /\ \A k \in 1 .. Len(s) : s2[k] = s[k]
      /\ s2[Len(s) + 1] = f
  OBVIOUS
<1> HIDE DEF s2
<1>2. \A k \in DOMAIN s2 : s2[k].frame = "fire" => k \in DOMAIN s /\ s2[k] = s[k]
  BY <1>1
<1>3. QED BY <1>2 DEF OneLoop, s2

LEMMA LoopPrefix ==
  ASSUME NEW ls, NEW s, NEW s2, OneLoop(ls, s),
         DOMAIN s2 \subseteq DOMAIN s, \A k \in DOMAIN s2 : s2[k] = s[k]
  PROVE  OneLoop(ls, s2)
BY DEF OneLoop

LEMMA SparedSame ==
  ASSUME NEW ls, NEW ls2, NEW l, NEW m, ls2[l].list = ls[l].list
  PROVE  Spared(ls, l, m) <=> Spared(ls2, l, m)
BY DEF Spared

LEMMA AloneSame ==
  ASSUME NEW ls, NEW s, NEW ls2, s \in Seq(StackFrame), WhenAlone(ls, s),
         \A l \in Lists : ls2[l].list = ls[l].list
  PROVE  WhenAlone(ls2, s)
<1>1. SUFFICES ASSUME NEW k \in DOMAIN s, s[k].frame = "when"
               PROVE  /\ \A on \in Outcomes : \A i \in DOMAIN ls2[<<s[k].to, on>>].list :
                            ls2[<<s[k].to, on>>].list[i].kind = "prologue"
                      /\ \A j \in k + 1 .. Len(s) :
                            s[j].frame = "fire" /\ Spared(ls2, s[j].of, s[k].to)
  BY DEF WhenAlone
<1>2. s[k].to \in Deferreds
  BY <1>1 DEF StackFrame
<1>3. \A on \in Outcomes : <<s[k].to, on>> \in Lists
  BY <1>2, OthersOf DEF Lists
<1>4. \A j \in k + 1 .. Len(s) : s[j].frame = "fire" /\ s[j].of \in Lists
  BY <1>1 DEF WhenAlone, StackFrame
<1>5. QED BY <1>1, <1>3, <1>4, SparedSame DEF WhenAlone

LEMMA AlonePush ==
  ASSUME NEW ls, NEW s, NEW ls2, NEW l \in Lists, s \in Seq(StackFrame), WhenAlone(ls2, s),
         \A k \in DOMAIN s : s[k].frame = "when" => Spared(ls2, l, s[k].to)
  PROVE  WhenAlone(ls2, Append(s, FireFrame(l)))
<1> DEFINE s2 == Append(s, FireFrame(l))
<1>1. /\ Len(s) \in Nat /\ DOMAIN s = 1 .. Len(s) /\ DOMAIN s2 = 1 .. Len(s) + 1
      /\ Len(s2) = Len(s) + 1
      /\ \A k \in 1 .. Len(s) : s2[k] = s[k]
      /\ s2[Len(s) + 1].frame = "fire" /\ s2[Len(s) + 1].of = l
  BY Frame1, AppendProperties
<1> HIDE DEF s2
<1>2. SUFFICES ASSUME NEW k \in DOMAIN s2, s2[k].frame = "when"
               PROVE  /\ \A on \in Outcomes : \A i \in DOMAIN ls2[<<s2[k].to, on>>].list :
                            ls2[<<s2[k].to, on>>].list[i].kind = "prologue"
                      /\ \A j \in k + 1 .. Len(s2) :
                            s2[j].frame = "fire" /\ Spared(ls2, s2[j].of, s2[k].to)
  BY DEF WhenAlone, s2
<1>3. k \in DOMAIN s /\ s2[k] = s[k]
  BY <1>1, <1>2
<1>4. ASSUME NEW j \in k + 1 .. Len(s2)
      PROVE  s2[j].frame = "fire" /\ Spared(ls2, s2[j].of, s2[k].to)
  <2>1. CASE j = Len(s) + 1
    BY <1>1, <1>2, <1>3, <2>1
  <2>2. CASE j # Len(s) + 1
    <3>1. j \in k + 1 .. Len(s) /\ s2[j] = s[j]
      BY <1>1, <1>3, <2>2
    <3>2. QED BY <1>2, <1>3, <3>1 DEF WhenAlone
  <2>3. QED BY <2>1, <2>2
<1>5. QED BY <1>2, <1>3, <1>4 DEF WhenAlone

\* Without a frame of `when', there is nothing to ask.
NoWhen(s) == \A k \in DOMAIN s : s[k].frame # "when"

LEMMA AloneNoWhen == ASSUME NEW ls, NEW s, NoWhen(s) PROVE WhenAlone(ls, s)
BY DEF NoWhen, WhenAlone

LEMMA AlonePrefix ==
  ASSUME NEW ls, NEW s, NEW s2, s \in Seq(StackFrame), WhenAlone(ls, s), Len(s2) \in Nat,
         DOMAIN s2 = 1 .. Len(s2), Len(s2) <= Len(s), \A k \in DOMAIN s2 : s2[k] = s[k]
  PROVE  WhenAlone(ls, s2)
<1>1. SUFFICES ASSUME NEW k \in DOMAIN s2, s2[k].frame = "when"
               PROVE  /\ \A on \in Outcomes : \A i \in DOMAIN ls[<<s2[k].to, on>>].list :
                            ls[<<s2[k].to, on>>].list[i].kind = "prologue"
                      /\ \A j \in k + 1 .. Len(s2) :
                            s2[j].frame = "fire" /\ Spared(ls, s2[j].of, s2[k].to)
  BY DEF WhenAlone
<1>2. Len(s) \in Nat /\ DOMAIN s = 1 .. Len(s)
  OBVIOUS
<1>3. k \in DOMAIN s /\ s2[k] = s[k]
  BY <1>2
<1>4. \A j \in k + 1 .. Len(s2) : j \in k + 1 .. Len(s) /\ s2[j] = s[j]
  BY <1>2, <1>3
<1>5. QED BY <1>1, <1>3, <1>4 DEF WhenAlone

\* Where nothing is about to settle, states and lists agree.
LEMMA QuietPhases ==
  ASSUME NEW ls, NEW s, NEW st, Phases(st, ls, s), Quiet(ls), NEW d \in Deferreds
  PROVE  /\ FreshPhase(d, st, ls) \/ \E on \in Outcomes : SettledPhase(d, on, st, ls)
         /\ st[d] \in {"unused", "pending"} => FreshPhase(d, st, ls)
         /\ \A on \in Outcomes : st[d] = Final(on) => SettledPhase(d, on, st, ls)
<1>1. FreshPhase(d, st, ls) \/ \E on \in Outcomes : SettledPhase(d, on, st, ls)
  BY DEF Phases, Phase, Quiet, StartingPhase
<1>2. \A on \in Outcomes : SettledPhase(d, on, st, ls) => st[d] = Final(on)
  BY DEF SettledPhase
<1>3. FreshPhase(d, st, ls) => st[d] \in {"unused", "pending"}
  BY DEF FreshPhase
<1>4. QED BY <1>1, <1>2, <1>3, OthersOf

LEMMA PhaseKept ==
  ASSUME NEW ls, NEW s, NEW st, NEW ls2, NEW s2, NEW st2, Phases(st, ls, s), Quiet(ls),
         NEW d \in Deferreds, \A on \in Outcomes : ls2[<<d, on>>] = ls[<<d, on>>],
         st2[d] = st[d]
  PROVE  Phase(d, st2, ls2, s2)
<1>1. FreshPhase(d, st, ls) => FreshPhase(d, st2, ls2)
  BY DEF FreshPhase
<1>2. \A on \in Outcomes : SettledPhase(d, on, st, ls) => SettledPhase(d, on, st2, ls2)
  BY OthersOf DEF SettledPhase
<1>3. QED BY <1>1, <1>2, QuietPhases DEF Phase

LEMMA PhasesKept ==
  ASSUME NEW ls, NEW s, NEW st, NEW ls2, NEW s2, Phases(st, ls, s), Quiet(ls),
         \A d \in Deferreds, on \in Outcomes : ls2[<<d, on>>] = ls[<<d, on>>]
  PROVE  Phases(st, ls2, s2)
<1>1. ASSUME NEW d \in Deferreds PROVE Phase(d, st, ls2, s2)
  <2>1. \A on \in Outcomes : ls2[<<d, on>>] = ls[<<d, on>>]
    OBVIOUS
  <2>2. QED BY <2>1, PhaseKept
<1>2. QED BY <1>1 DEF Phases

\* fireWith: on a deferred that was not settled the list starts, else nothing
\* happens; what is to be called stays the same.
FireEffect(d, on, v, ls, ls2, st) ==
    \A e \in Deferreds, o \in Outcomes :
        /\ SameAhead(ls[<<e, o>>], ls2[<<e, o>>])
        /\ ls2[<<e, o>>].memory =
              IF e = d /\ o = on /\ st[d] = "pending" THEN v ELSE ls[<<e, o>>].memory

LEMMA SoundTypes ==
  ASSUME NEW ls, NEW s, NEW st, NEW reg, NEW ar, Sound(ls, s, st, reg, ar)
  PROVE  /\ DOMAIN ls = Lists /\ \A l \in Lists : ls[l] \in CallbackList
         /\ s \in Seq(StackFrame) /\ Len(s) \in Nat /\ DOMAIN s = 1 .. Len(s)
         /\ \A k \in DOMAIN s : s[k].frame = "fire" => s[k].of \in Lists
<1>1. DOMAIN ls = Lists /\ s \in Seq(StackFrame)
  BY DEF Sound
<1>2. \A k \in DOMAIN s : s[k].frame = "fire" => s[k].of \in Lists
  BY <1>1 DEF StackFrame
<1>3. ASSUME NEW l \in Lists PROVE ls[l] \in CallbackList
  <2>1. PICK d \in Deferreds, on \in Ons : l = <<d, on>>
    BY DEF Lists
  <2>2. CASE on \in Outcomes
    BY <2>1, <2>2 DEF Sound, OnceLists, OnceList
  <2>3. CASE on = "progress"
    BY <2>1, <2>3 DEF Sound, ProgressLists, ProgressList
  <2>4. QED BY <2>2, <2>3, OthersOf
<1>4. QED BY <1>1, <1>2, <1>3

LEMMA AllFitSame ==
  ASSUME NEW ls, NEW ls2, NEW reg, NEW ar, AllFit(ls, reg, ar),
         \A d \in Deferreds, on \in Outcomes : SameAhead(ls[<<d, on>>], ls2[<<d, on>>])
  PROVE  AllFit(ls2, reg, ar)
<1>1. SUFFICES ASSUME NEW d \in Deferreds, NEW on \in Outcomes, NEW k \in Ahead(ls2[<<d, on>>])
               PROVE  Fits(d, on, ls2[<<d, on>>].list[k], reg, ar)
  BY DEF AllFit
<1>2. k \in Ahead(ls[<<d, on>>]) /\ ls2[<<d, on>>].list[k] = ls[<<d, on>>].list[k]
  BY DEF SameAhead
<1>3. QED BY <1>2 DEF AllFit

LEMMA NoFireEffect ==
  ASSUME NEW d, NEW on, NEW v, NEW ls, NEW ls2, NEW st, on \notin Outcomes \/ st[d] # "pending",
         \A e \in Deferreds, o \in Outcomes : ls2[<<e, o>>] = ls[<<e, o>>]
  PROVE  FireEffect(d, on, v, ls, ls2, st)
<1>1. SUFFICES ASSUME NEW e \in Deferreds, NEW o \in Outcomes
               PROVE  /\ SameAhead(ls[<<e, o>>], ls2[<<e, o>>])
                      /\ ls2[<<e, o>>].memory = ls[<<e, o>>].memory
                      /\ ~(e = d /\ o = on /\ st[d] = "pending")
  BY DEF FireEffect
<1>2. ls2[<<e, o>>] = ls[<<e, o>>]
  OBVIOUS
<1>3. QED BY <1>2, SameLists

LEMMA FireProgress ==
  ASSUME NEW c, ProgressList(c), NEW v \in Data
  PROVE  /\ ProgressList(FiredWith(c, v)) /\ FiredWith(c, v).list = c.list
         /\ StartsFiring(c) => ~c.firing /\ FiredWith(c, v).firing
         /\ c.firing => FiredWith(c, v).firing
<1>1. /\ c \in CallbackList /\ c.options = {"memory"} /\ c.queue \in Seq(Data) /\ v \in Datum
      /\ c.locked \in BOOLEAN /\ c.firing \in BOOLEAN
  BY DataDatum DEF ProgressList, CallbackList
<1>2. CASE c.locked
  BY <1>2, FireLocked
<1>3. CASE ~c.locked /\ c.firing
  <2>1. PICK q : q = Append(c.queue, v) /\ q \in Seq(Data) /\ q \in Seq(Datum)
    <3>1. c.queue \in Seq(Datum)
      BY <1>1 DEF CallbackList
    <3> HIDE DEF Data
    <3>2. Append(c.queue, v) \in Seq(Data) /\ Append(c.queue, v) \in Seq(Datum)
      BY <1>1, <3>1
    <3>3. QED BY <3>2
  <2>2. FiredWith(c, v) = [c EXCEPT !.queue = q]
    BY <1>3, <2>1 DEF FiredWith
  <2>3. LET e == [c EXCEPT !.queue = q]
        IN  /\ e \in CallbackList /\ e.options = c.options /\ e.list = c.list /\ e.queue = q
            /\ e.firing = c.firing /\ e.memory = c.memory
    BY <1>1, <2>1 DEF CallbackList
  <2>4. QED BY <1>1, <1>3, <2>1, <2>2, <2>3 DEF ProgressList, StartsFiring
<1>4. CASE ~c.locked /\ ~c.firing
  <2>1. c.queue = <<>> /\ c.firingIndex = 0
    BY <1>4 DEF ProgressList, Still
  <2>2. PICK q, z : /\ q = Append(c.queue, v) /\ Head(q) = v /\ Tail(q) = z /\ z = <<>>
                    /\ z \in Seq(Data) /\ z \in Seq(Datum)
    <3>1. Append(c.queue, v) = <<v>> /\ Head(<<v>>) = v /\ Tail(<<v>>) = <<>>
      BY <2>1
    <3>2. <<>> \in Seq(Data) /\ <<>> \in Seq(Datum)
      OBVIOUS
    <3>3. QED BY <3>1, <3>2, Zenon
  <2>3. FiredWith(c, v) = Entered([c EXCEPT !.queue = q])
    BY <1>4, <2>2 DEF FiredWith
  <2>4. FiredWith(c, v) = [c EXCEPT !.firing = TRUE, !.memory = v, !.queue = z]
    <3>1. "once" \notin c.options /\ c.locked = FALSE
      BY <1>1, <1>4
    <3>2. QED BY <1>1, <2>2, <2>3, <3>1 DEF Entered, CallbackList
  <2>5. LET e == [c EXCEPT !.firing = TRUE, !.memory = v, !.queue = z]
        IN  /\ e \in CallbackList /\ e.options = c.options /\ e.list = c.list /\ e.queue = z
            /\ e.firing /\ e.memory = v
    BY <1>1, <2>2 DEF CallbackList
  <2>6. QED BY <1>1, <1>4, <2>2, <2>4, <2>5, DataDatum DEF ProgressList, StartsFiring
<1>5. QED BY <1>1, <1>2, <1>3, <1>4

\* fireWith of the list of d for `on', of the lists ls, on top of the stack s.
FireStep(d, on, v, ls, s, ls2, s2) ==
    /\ ls2 = [ls EXCEPT ![<<d, on>>] = FiredWith(@, v)]
    /\ s2 = IF StartsFiring(ls[<<d, on>>]) THEN Append(s, FireFrame(<<d, on>>)) ELSE s

\* While `when' runs, only some lists may be fired.
MayFire(l, ls, s) == \A k \in DOMAIN s : s[k].frame = "when" => Spared(ls, l, s[k].to)

LEMMA FireSound ==
  ASSUME NEW ls, NEW s, NEW st, NEW reg, NEW ar, Sound(ls, s, st, reg, ar), Quiet(ls),
         NEW d \in Deferreds, NEW on \in Ons, NEW v \in Data,
         on \in Outcomes => st[d] # "unused",
         MayFire(<<d, on>>, ls, s), NEW ls2, NEW s2, FireStep(d, on, v, ls, s, ls2, s2)
  PROVE  Sound(ls2, s2, st, reg, ar) /\ FireEffect(d, on, v, ls, ls2, st)
<1> DEFINE l == <<d, on>>
           c == ls[l]
<1>1. l \in Lists /\ DOMAIN ls = Lists /\ s \in Seq(StackFrame)
  BY SoundTypes DEF Lists
<1>2. ls2[l] = FiredWith(c, v) /\ DOMAIN ls2 = Lists /\ \A k \in Lists : k # l => ls2[k] = ls[k]
  BY <1>1 DEF FireStep
<1>3. s2 = IF StartsFiring(c) THEN Append(s, FireFrame(l)) ELSE s
  BY DEF FireStep
<1>4. l[1] = d /\ l[2] = on
  OBVIOUS
<1>5. \A e \in Deferreds, o \in Ons : <<e, o>> \in Lists /\ (<<e, o>> = l <=> e = d /\ o = on)
  BY DEF Lists
<1>0. c = ls[l]
  OBVIOUS
<1> HIDE DEF l, c
<1>6. \* What becomes of this list is enough.
      ASSUME ls2[l].list = c.list, StartsFiring(c) => ~c.firing /\ ls2[l].firing,
             c.firing => ls2[l].firing,
             OnceLists(ls2), Phases(st, ls2, s2), ProgressLists(ls2, reg),
             FireEffect(d, on, v, ls, ls2, st)
      PROVE  Sound(ls2, s2, st, reg, ar) /\ FireEffect(d, on, v, ls, ls2, st)
  <2>1. s2 \in Seq(StackFrame)
    BY <1>1, <1>3, Frame1
  <2>2. \A k \in Lists : ls2[k].list = ls[k].list /\ (ls[k].firing => ls2[k].firing)
    BY <1>0, <1>2, <1>6
  <2>3. AllFit(ls2, reg, ar)
    BY <1>6, AllFitSame DEF Sound, FireEffect
  <2>4. \A k \in DOMAIN s : s[k].frame = "fire" /\ ls[s[k].of].firing => ls2[s[k].of].firing
    BY <2>2, SoundTypes
  <2>5. OneLoop(ls2, s2)
    <3>1. OneLoop(ls, s)
      BY DEF Sound
    <3>2. CASE StartsFiring(c)
      BY <1>0, <1>1, <1>3, <1>6, <2>4, <3>1, <3>2, LoopPush
    <3>3. CASE ~StartsFiring(c)
      <4>1. OneLoop(ls2, s)
        BY <2>4, <3>1, LoopSame
      <4>2. QED BY <1>3, <3>3, <4>1
    <3>4. QED BY <3>2, <3>3
  <2>6. WhenAlone(ls2, s2)
    <3>1. WhenAlone(ls2, s)
      BY <1>1, <2>2, AloneSame DEF Sound
    <3>2. \A k \in DOMAIN s : s[k].frame = "when" => Spared(ls2, l, s[k].to)
      BY <1>1, <2>2, SparedSame DEF l, MayFire
    <3>3. CASE StartsFiring(c)
      BY <1>1, <1>3, <3>1, <3>2, <3>3, AlonePush
    <3>4. CASE ~StartsFiring(c)
      BY <1>3, <3>1, <3>4
    <3>5. QED BY <3>3, <3>4
  <2>7. QED BY <1>2, <1>6, <2>1, <2>3, <2>5, <2>6 DEF Sound
<1>7. \A e \in Deferreds : e # d => Phase(e, st, ls2, s2)
  BY <1>2, <1>5, OthersOf, PhaseKept DEF Sound
<1>8. CASE on = "progress"
  <2>1. ProgressList(c)
    BY <1>5, <1>8 DEF Sound, ProgressLists, l, c
  <2>2. /\ ProgressList(ls2[l]) /\ ls2[l].list = c.list
        /\ StartsFiring(c) => ~c.firing /\ ls2[l].firing
        /\ c.firing => ls2[l].firing
    BY <1>2, <2>1, FireProgress
  <2>3. \A e \in Deferreds, o \in Outcomes : ls2[<<e, o>>] = ls[<<e, o>>]
    BY <1>2, <1>5, <1>8, OthersOf
  <2>4. OnceLists(ls2)
    BY <2>3 DEF Sound, OnceLists
  <2>5. Phases(st, ls2, s2)
    BY <2>3, PhasesKept DEF Sound
  <2>6. ProgressLists(ls2, reg)
    <3>1. SUFFICES ASSUME NEW e \in Deferreds
                   PROVE  LET p == ls2[<<e, "progress">>]
                          IN  /\ ProgressList(p)
                              /\ \A k \in DOMAIN p.list :
                                    \/ p.list[k] = Prologue(e)
                                    \/ IsRegistered(e, "progress", p.list[k], reg)
      BY DEF ProgressLists
    <3>2. <<e, "progress">> \in Lists /\ (e = d => <<e, "progress">> = l)
      BY <1>5, <1>8, OthersOf
    <3>3. ls2[<<e, "progress">>].list = ls[<<e, "progress">>].list
      BY <1>0, <1>2, <2>2, <3>2
    <3>4. ProgressList(ls2[<<e, "progress">>])
      BY <1>2, <2>2, <3>2 DEF Sound, ProgressLists
    <3>5. QED BY <3>3, <3>4 DEF Sound, ProgressLists
  <2>7. FireEffect(d, on, v, ls, ls2, st)
    <3>1. on \notin Outcomes
      BY <1>8, OthersOf
    <3>2. QED BY <2>3, <3>1, NoFireEffect
  <2>8. QED BY <1>6, <2>2, <2>4, <2>5, <2>6, <2>7
<1>9. CASE on \in Outcomes
  <2>1. \A e \in Deferreds : ls2[<<e, "progress">>] = ls[<<e, "progress">>]
    BY <1>2, <1>5, <1>9, OthersOf
  <2>2. ProgressLists(ls2, reg)
    BY <2>1 DEF Sound, ProgressLists
  <2>3. OnceList(c)
    BY <1>9 DEF Sound, OnceLists, l, c
  <2>4. \A e \in Deferreds, o \in Outcomes : ~(e = d /\ o = on) => ls2[<<e, o>>] = ls[<<e, o>>]
    BY <1>2, <1>5, OthersOf
  <2>5. CASE st[d] = "pending"
    <3>1. FreshPhase(d, st, ls)
      BY <2>5, QuietPhases DEF Sound
    <3>2. FreshList(d, c) /\ FreshList(d, ls[<<d, Other(on)>>])
      BY <1>9, <3>1, OthersOf DEF FreshPhase, l, c
    <3>3. /\ StartsFiring(c) /\ OnceList(ls2[l]) /\ StartingList(d, ls2[l])
          /\ ls2[l].list = c.list /\ ls2[l].firingIndex = c.firingIndex
          /\ ls2[l].memory = v /\ ls2[l].firing
      BY <1>2, <2>3, <3>2, FireFresh
    <3>4. ~c.firing
      BY <3>2 DEF FreshList, Still
    <3>5. OnceLists(ls2)
      BY <2>4, <3>3 DEF Sound, OnceLists, l, c
    <3>6. Phase(d, st, ls2, s2)
      <4>1. FreshList(d, ls2[<<d, Other(on)>>])
        BY <1>9, <2>4, <3>2, OthersOf
      <4>2. s2 # <<>> /\ s2[Len(s2)] = FireFrame(l)
        <5>1. s2 = Append(s, FireFrame(l)) /\ FireFrame(l) \in StackFrame
          BY <1>1, <1>3, <3>3, Frame1
        <5>2. QED BY <1>1, <5>1, AppendProperties
      <4>3. StartingPhase(d, on, st, ls2, s2)
        BY <2>5, <3>3, <4>1, <4>2 DEF StartingPhase, l, c
      <4>4. QED BY <1>9, <4>3 DEF Phase
    <3>7. Phases(st, ls2, s2)
      BY <1>7, <3>6 DEF Phases
    <3>8. FireEffect(d, on, v, ls, ls2, st)
      <4>1. ASSUME NEW e \in Deferreds, NEW o \in Outcomes
            PROVE  /\ SameAhead(ls[<<e, o>>], ls2[<<e, o>>])
                   /\ ls2[<<e, o>>].memory =
                        IF e = d /\ o = on /\ st[d] = "pending" THEN v
                        ELSE ls[<<e, o>>].memory
        <5>1. CASE e = d /\ o = on
          <6>1. <<e, o>> = l
            BY <5>1 DEF l, c
          <6>2. QED BY <1>0, <2>5, <3>3, <5>1, <6>1, SameLists
        <5>2. CASE ~(e = d /\ o = on)
          BY <2>4, <5>2, SameLists
        <5>3. QED BY <5>1, <5>2
      <4>2. QED BY <4>1 DEF FireEffect
    <3>9. QED BY <1>6, <2>2, <3>3, <3>4, <3>5, <3>7, <3>8
  <2>6. CASE st[d] # "pending"
    <3>1. PICK o \in Outcomes : SettledPhase(d, o, st, ls)
      BY <1>9, <2>6, QuietPhases DEF Sound, FreshPhase
    <3>2. c.locked
      <4>1. on = o \/ on = Other(o)
        BY <1>9, OthersOf
      <4>2. QED BY <3>1, <4>1 DEF SettledPhase, GoingList, FiredList, OffList, l, c
    <3>3. ls2[l] = c /\ ~StartsFiring(c)
      BY <1>2, <3>2, FireLocked
    <3>4. \A k \in Lists : ls2[k] = ls[k]
      BY <1>0, <1>2, <3>3
    <3>5. \A e \in Deferreds, i \in Outcomes : ls2[<<e, i>>] = ls[<<e, i>>]
      BY <1>5, <3>4, OthersOf
    <3>6. OnceLists(ls2)
      BY <3>5 DEF Sound, OnceLists
    <3>7. Phases(st, ls2, s2)
      BY <3>5, PhasesKept DEF Sound
    <3>8. FireEffect(d, on, v, ls, ls2, st)
      BY <2>6, <3>5, NoFireEffect
    <3>9. QED BY <1>6, <2>2, <3>3, <3>6, <3>7, <3>8
  <2>7. QED BY <2>5, <2>6
<1>10. QED BY <1>8, <1>9, OthersOf

\* The callback f is to be called after those that are to be called already.
Gains(c, e, f) ==
    \E n \in Nat :
        /\ \A k \in Ahead(c) : k < n
        /\ Ahead(e) = Ahead(c) \cup {n} /\ e.list[n] = f
        /\ \A k \in Ahead(c) : e.list[k] = c.list[k]

\* add: nothing happens to a list that was switched off.
AddEffect(d, on, f, ls, ls2, st) ==
    /\ \A e \in Deferreds, o \in Outcomes :
          /\ ~(e = d /\ o = on) => ls2[<<e, o>>] = ls[<<e, o>>]
          /\ ls2[<<e, o>>].memory = ls[<<e, o>>].memory
    /\ on \in Outcomes =>
          IF st[d] = Final(Other(on)) THEN ls2[<<d, on>>] = ls[<<d, on>>]
          ELSE Gains(ls[<<d, on>>], ls2[<<d, on>>], f)

LEMMA AddGains ==
  ASSUME NEW c, NEW e, NEW f, c.list \in Seq(Callback), c.firingIndex \in 0 .. Len(c.list),
         f.kind # "prologue", e.list = Append(c.list, f), e.firingIndex = c.firingIndex
  PROVE  Gains(c, e, f)
<1> DEFINE n == Len(c.list) + 1
<1>1. /\ n \in Nat /\ DOMAIN c.list = 1 .. Len(c.list) /\ DOMAIN e.list = 1 .. n
      /\ e.list[n] = f /\ \A k \in DOMAIN c.list : e.list[k] = c.list[k]
  OBVIOUS
<1>2. \A k \in Ahead(c) : k \in DOMAIN c.list
  BY DEF Ahead
<1>3. Ahead(e) = Ahead(c) \cup {n}
  BY <1>1 DEF Ahead
<1> HIDE DEF n
<1>4. \A k \in Ahead(c) : k < n
  BY <1>1, <1>2 DEF n
<1>5. QED BY <1>1, <1>2, <1>3, <1>4 DEF Gains

LEMMA AddProgress ==
  ASSUME NEW c, ProgressList(c), NEW f \in Callback
  PROVE  /\ ProgressList(Added(c, f))
         /\ Added(c, f).list \in {c.list, Append(c.list, f)}
         /\ Replays(c) => ~c.firing /\ Added(c, f).firing
         /\ c.firing => Added(c, f).firing
<1>1. /\ c \in CallbackList /\ c.options = {"memory"} /\ c.queue \in Seq(Data)
      /\ c.locked \in BOOLEAN /\ c.firing \in BOOLEAN /\ c.list \in Seq(Callback)
      /\ c.memory \in Data \cup {NoData}
  BY DEF ProgressList, CallbackList
<1>2. CASE c.spent
  BY <1>2 DEF Added, Replays
<1>3. CASE ~c.spent
  <2>1. PICK x : x = Append(c.list, f) /\ x \in Seq(Callback)
    BY <1>1, AppendElements
  <2> DEFINE with == [c EXCEPT !.list = x]
  <2>2. "unique" \notin c.options
    BY <1>1
  <2>3. /\ with \in CallbackList /\ with.options = c.options /\ with.list = x
        /\ with.queue = c.queue /\ with.firing = c.firing /\ with.memory = c.memory
        /\ with.firingIndex = c.firingIndex
    BY <1>1, <2>1 DEF CallbackList
  <2>4. CASE ~Replays(c)
    <3>1. Added(c, f) = with
      BY <1>3, <2>1, <2>2, <2>4 DEF Added
    <3> HIDE DEF with
    <3>2. ProgressList(with)
      BY <2>3 DEF ProgressList, Still
    <3>3. QED BY <2>1, <2>3, <2>4, <3>1, <3>2
  <2>5. CASE Replays(c)
    <3>1. ~c.firing /\ c.queue = <<>> /\ c.memory \in Data /\ c.memory \in Datum
      BY <1>1, <2>5, DataDatum DEF Replays, ProgressList, Still
    <3>2. PICK q, z, n : /\ q = Append(c.queue, c.memory) /\ Head(q) = c.memory /\ Tail(q) = z
                         /\ z = <<>> /\ z \in Seq(Data) /\ z \in Seq(Datum)
                         /\ n = Len(c.list) /\ n \in Nat
      <4>1. Append(c.queue, c.memory) = <<c.memory>> /\ Head(<<c.memory>>) = c.memory
            /\ Tail(<<c.memory>>) = <<>>
        BY <3>1
      <4>2. <<>> \in Seq(Data) /\ <<>> \in Seq(Datum) /\ Len(c.list) \in Nat
        BY <1>1
      <4>3. QED BY <4>1, <4>2, Zenon
    <3>3. Added(c, f) = Entered([with EXCEPT !.firingIndex = n, !.queue = q])
      BY <1>3, <2>1, <2>2, <2>5, <3>2 DEF Added
    <3>4. Added(c, f) = [c EXCEPT !.list = x, !.firingIndex = n, !.firing = TRUE, !.queue = z]
      <4>1. "once" \notin c.options
        BY <1>1
      <4>2. QED BY <1>1, <3>2, <3>3, <4>1 DEF Entered, CallbackList
    <3>5. LET e == [c EXCEPT !.list = x, !.firingIndex = n, !.firing = TRUE, !.queue = z]
          IN  /\ e \in CallbackList /\ e.options = c.options /\ e.list = x /\ e.queue = z
              /\ e.firing /\ e.memory = c.memory
      BY <1>1, <2>1, <3>2 DEF CallbackList
    <3>6. QED BY <1>1, <2>1, <3>1, <3>2, <3>4, <3>5, DataDatum DEF ProgressList
  <2>6. QED BY <2>4, <2>5
<1>4. QED BY <1>1, <1>2, <1>3 DEF CallbackList

\* add of f to the list of d for `on', and what it may be while `when' runs.
AddStep(d, on, f, ls, s, ls2, s2) ==
    /\ ls2 = [ls EXCEPT ![<<d, on>>] = Added(@, f)]
    /\ s2 = IF Replays(ls[<<d, on>>]) THEN Append(s, FireFrame(<<d, on>>)) ELSE s

MayAdd(d, on, f, s) ==
    \A k \in DOMAIN s : s[k].frame = "when" =>
        /\ on \in Outcomes /\ d # s[k].to
        /\ f.kind \in {"update", "reject"} /\ f.n = s[k].to

LEMMA AddSound ==
  ASSUME NEW ls, NEW s, NEW st, NEW reg, NEW ar, Sound(ls, s, st, reg, ar), Quiet(ls),
         NEW d \in Deferreds, NEW on \in Ons, NEW f \in Callback, f.kind # "prologue",
         on \in Outcomes => Fits(d, on, f, reg, ar),
         on = "progress" => IsRegistered(d, on, f, reg),
         MayAdd(d, on, f, s), NEW ls2, NEW s2, AddStep(d, on, f, ls, s, ls2, s2)
  PROVE  Sound(ls2, s2, st, reg, ar) /\ AddEffect(d, on, f, ls, ls2, st)
<1> DEFINE l == <<d, on>>
           c == ls[l]
<1>1. l \in Lists /\ DOMAIN ls = Lists /\ s \in Seq(StackFrame)
  BY SoundTypes DEF Lists
<1>2. ls2[l] = Added(c, f) /\ DOMAIN ls2 = Lists /\ \A k \in Lists : k # l => ls2[k] = ls[k]
  BY <1>1 DEF AddStep
<1>3. s2 = IF Replays(c) THEN Append(s, FireFrame(l)) ELSE s
  BY DEF AddStep
<1>4. l[1] = d /\ l[2] = on
  OBVIOUS
<1>5. \A e \in Deferreds, o \in Ons : <<e, o>> \in Lists /\ (<<e, o>> = l <=> e = d /\ o = on)
  BY DEF Lists
<1>0. c = ls[l]
  OBVIOUS
<1> HIDE DEF l, c
<1>6. ASSUME ls2[l].list \in {c.list, Append(c.list, f)}, c.list \in Seq(Callback),
             Replays(c) /\ on \in Outcomes => ls2[l].list = <<f>>,
             Replays(c) => ~c.firing /\ ls2[l].firing, c.firing => ls2[l].firing,
             OnceLists(ls2), Phases(st, ls2, s2), ProgressLists(ls2, reg), AllFit(ls2, reg, ar),
             AddEffect(d, on, f, ls, ls2, st)
      PROVE  Sound(ls2, s2, st, reg, ar) /\ AddEffect(d, on, f, ls, ls2, st)
  <2>1. s2 \in Seq(StackFrame)
    BY <1>1, <1>3, Frame1
  <2>2. \A k \in Lists : ls[k].firing => ls2[k].firing
    BY <1>0, <1>2, <1>6
  <2>3. \A k \in DOMAIN s : s[k].frame = "fire" /\ ls[s[k].of].firing => ls2[s[k].of].firing
    BY <2>2, SoundTypes
  <2>4. OneLoop(ls2, s2)
    <3>1. OneLoop(ls, s)
      BY DEF Sound
    <3>2. CASE Replays(c)
      <4>1. OneLoop(ls2, Append(s, FireFrame(l)))
        BY <1>0, <1>1, <1>6, <2>3, <3>1, <3>2, LoopPush
      <4>2. QED BY <1>3, <3>2, <4>1
    <3>3. CASE ~Replays(c)
      <4>1. OneLoop(ls2, s)
        BY <2>3, <3>1, LoopSame
      <4>2. QED BY <1>3, <3>3, <4>1
    <3>4. QED BY <3>2, <3>3
  <2>5. WhenAlone(ls2, s)
    <3>1. WhenAlone(ls, s)
      BY DEF Sound
    <3>2. SUFFICES ASSUME NEW k \in DOMAIN s, s[k].frame = "when"
                   PROVE  /\ \A o \in Outcomes : \A i \in DOMAIN ls2[<<s[k].to, o>>].list :
                                ls2[<<s[k].to, o>>].list[i].kind = "prologue"
                          /\ \A j \in k + 1 .. Len(s) :
                                s[j].frame = "fire" /\ Spared(ls2, s[j].of, s[k].to)
      BY DEF WhenAlone
    <3>3. s[k].to \in Deferreds /\ s[k].to # d
      BY <1>1, <3>2 DEF StackFrame, MayAdd
    <3>4. \A o \in Outcomes : ls2[<<s[k].to, o>>] = ls[<<s[k].to, o>>]
      BY <1>2, <1>5, <3>3, OthersOf
    <3>5. ASSUME NEW j \in k + 1 .. Len(s)
          PROVE  s[j].frame = "fire" /\ Spared(ls2, s[j].of, s[k].to)
      <4>1. s[j].frame = "fire" /\ Spared(ls, s[j].of, s[k].to)
        BY <3>1, <3>2 DEF WhenAlone
      <4>2. s[j].of \in Lists
        BY <1>1, <4>1 DEF StackFrame
      <4>3. CASE s[j].of # l
        BY <1>2, <4>1, <4>2, <4>3, SparedSame
      <4>4. CASE s[j].of = l
        <5>1. f.kind \in {"update", "reject"} /\ f.n = s[k].to
          BY <3>2 DEF MayAdd
        <5>2. \A i \in DOMAIN ls2[l].list : \/ i \in DOMAIN c.list /\ ls2[l].list[i] = c.list[i]
                                            \/ ls2[l].list[i] = f
          <6>1. ls2[l].list = c.list \/ ls2[l].list = Append(c.list, f)
            BY <1>6
          <6>2. c.list \in Seq(Callback)
            BY <1>6
          <6>3. \A i \in DOMAIN Append(c.list, f) :
                  (i \in DOMAIN c.list /\ Append(c.list, f)[i] = c.list[i])
                  \/ Append(c.list, f)[i] = f
            BY <6>2, AppendElements
          <6>4. QED BY <6>1, <6>3
        <5>3. QED BY <1>0, <4>1, <4>4, <5>1, <5>2 DEF Spared
      <4>5. QED BY <4>3, <4>4
    <3>6. \A o \in Outcomes : \A i \in DOMAIN ls[<<s[k].to, o>>].list :
              ls[<<s[k].to, o>>].list[i].kind = "prologue"
      BY <3>1, <3>2 DEF WhenAlone
    <3>7. QED BY <3>4, <3>5, <3>6
  <2>6. WhenAlone(ls2, s2)
    <3>1. CASE Replays(c)
      <4>1. \A k \in DOMAIN s : s[k].frame = "when" => Spared(ls2, l, s[k].to)
        <5>1. SUFFICES ASSUME NEW k \in DOMAIN s, s[k].frame = "when"
                       PROVE  Spared(ls2, l, s[k].to)
          OBVIOUS
        <5>2. on \in Outcomes /\ f.kind \in {"update", "reject"} /\ f.n = s[k].to
          BY <5>1 DEF MayAdd
        <5>3. ls2[l].list = <<f>>
          BY <1>6, <3>1, <5>2
        <5>4. \A i \in DOMAIN ls2[l].list : ls2[l].list[i] = f
          BY <5>3, OnlyElement
        <5>5. QED BY <1>4, <5>2, <5>4 DEF Spared
      <4>2. QED BY <1>1, <1>3, <2>5, <3>1, <4>1, AlonePush
    <3>2. CASE ~Replays(c)
      BY <1>3, <2>5, <3>2
    <3>3. QED BY <3>1, <3>2
  <2>7. QED BY <1>2, <1>6, <2>1, <2>4, <2>6 DEF Sound
<1>7. \A e \in Deferreds : e # d => Phase(e, st, ls2, s2)
  BY <1>2, <1>5, OthersOf, PhaseKept DEF Sound
<1>8. CASE on = "progress"
  <2>1. ProgressList(c)
    BY <1>5, <1>8 DEF Sound, ProgressLists, l, c
  <2>2. /\ ProgressList(ls2[l]) /\ ls2[l].list \in {c.list, Append(c.list, f)}
        /\ Replays(c) => ~c.firing /\ ls2[l].firing
        /\ c.firing => ls2[l].firing /\ c.list \in Seq(Callback)
    <3>1. c.list \in Seq(Callback)
      BY <2>1 DEF ProgressList, CallbackList
    <3>2. /\ ProgressList(Added(c, f)) /\ Added(c, f).list \in {c.list, Append(c.list, f)}
          /\ Replays(c) => ~c.firing /\ Added(c, f).firing
          /\ c.firing => Added(c, f).firing
      BY <2>1, AddProgress
    <3>3. ls2[l] = Added(c, f)
      BY <1>2
    <3>4. QED BY <3>1, <3>2, <3>3
  <2>3. on \notin Outcomes
    BY <1>8, OthersOf
  <2>4. \A e \in Deferreds, o \in Outcomes : ls2[<<e, o>>] = ls[<<e, o>>]
    BY <1>2, <1>5, <2>3, OthersOf
  <2>5. OnceLists(ls2)
    BY <2>4 DEF Sound, OnceLists
  <2>6. Phases(st, ls2, s2)
    BY <2>4, PhasesKept DEF Sound
  <2>7. c.list \in Seq(Callback)
    BY <2>1 DEF ProgressList, CallbackList
  <2>8. ProgressLists(ls2, reg)
    <3>1. SUFFICES ASSUME NEW e \in Deferreds
                   PROVE  LET p == ls2[<<e, "progress">>]
                          IN  /\ ProgressList(p)
                              /\ \A k \in DOMAIN p.list :
                                    \/ p.list[k] = Prologue(e)
                                    \/ IsRegistered(e, "progress", p.list[k], reg)
      BY DEF ProgressLists
    <3>2. CASE e # d
      <4>1. ls2[<<e, "progress">>] = ls[<<e, "progress">>]
        BY <1>2, <1>5, <3>2, OthersOf
      <4>2. QED BY <4>1 DEF Sound, ProgressLists
    <3>3. CASE e = d
      <4>1. <<e, "progress">> = l
        BY <1>8, <3>3 DEF l, c
      <4>2. \A k \in DOMAIN ls2[l].list : \/ k \in DOMAIN c.list /\ ls2[l].list[k] = c.list[k]
                                          \/ ls2[l].list[k] = f
        BY <2>2, <2>7, AppendElements
      <4>3. \A k \in DOMAIN c.list :
               c.list[k] = Prologue(d) \/ IsRegistered(d, "progress", c.list[k], reg)
        BY <1>0, <3>3, <4>1 DEF Sound, ProgressLists
      <4>4. IsRegistered(d, "progress", f, reg)
        BY <1>8
      <4>5. \A k \in DOMAIN ls2[l].list :
               ls2[l].list[k] = Prologue(d) \/ IsRegistered(d, "progress", ls2[l].list[k], reg)
        BY <4>2, <4>3, <4>4
      <4>6. QED BY <2>2, <3>3, <4>1, <4>5
    <3>4. QED BY <3>2, <3>3
  <2>9. AddEffect(d, on, f, ls, ls2, st)
    BY <2>3, <2>4 DEF AddEffect
  <2>10. AllFit(ls2, reg, ar)
    BY <2>4 DEF Sound, AllFit
  <2>11. QED BY <1>6, <2>2, <2>3, <2>5, <2>6, <2>7, <2>8, <2>9, <2>10
<1>9. CASE on \in Outcomes
  <2>1. \A e \in Deferreds : ls2[<<e, "progress">>] = ls[<<e, "progress">>]
    BY <1>2, <1>5, <1>9, OthersOf
  <2>2. ProgressLists(ls2, reg)
    BY <2>1 DEF Sound, ProgressLists
  <2>3. OnceList(c) /\ c.list \in Seq(Callback) /\ Len(c.list) \in Nat
    <3>1. OnceList(c)
      BY <1>9 DEF Sound, OnceLists, l, c
    <3>2. QED BY <3>1 DEF OnceList, CallbackList
  <2>4. \A e \in Deferreds, o \in Outcomes : ~(e = d /\ o = on) => ls2[<<e, o>>] = ls[<<e, o>>]
    BY <1>2, <1>5, OthersOf
  <2>5. ASSUME OnceList(ls2[l]), Phase(d, st, ls2, s2), ls2[l].memory = c.memory,
               IF st[d] = Final(Other(on)) THEN ls2[l] = c ELSE Gains(c, ls2[l], f)
        PROVE  /\ OnceLists(ls2) /\ Phases(st, ls2, s2) /\ AllFit(ls2, reg, ar)
               /\ AddEffect(d, on, f, ls, ls2, st)
    <3>1. OnceLists(ls2)
      BY <2>4, <2>5 DEF Sound, OnceLists, l, c
    <3>2. Phases(st, ls2, s2)
      BY <1>7, <2>5 DEF Phases
    <3>3. AddEffect(d, on, f, ls, ls2, st)
      BY <2>4, <2>5 DEF AddEffect, l, c
    <3>4. AllFit(ls2, reg, ar)
      <4>1. SUFFICES ASSUME NEW e \in Deferreds, NEW o \in Outcomes,
                            NEW k \in Ahead(ls2[<<e, o>>])
                     PROVE  Fits(e, o, ls2[<<e, o>>].list[k], reg, ar)
        BY DEF AllFit
      <4>2. CASE ~(e = d /\ o = on)
        BY <2>4, <4>2 DEF Sound, AllFit
      <4>3. CASE e = d /\ o = on
        <5>1. <<e, o>> = l
          BY <4>3 DEF l, c
        <5>2. \/ k \in Ahead(c) /\ ls2[l].list[k] = c.list[k]
              \/ ls2[l].list[k] = f
          BY <2>5, <5>1 DEF Gains
        <5>3. \A i \in Ahead(c) : Fits(d, on, c.list[i], reg, ar)
          BY <1>9 DEF Sound, AllFit, l, c
        <5>4. QED BY <1>9, <4>3, <5>1, <5>2, <5>3
      <4>4. QED BY <4>2, <4>3
    <3>5. QED BY <3>1, <3>2, <3>3, <3>4
  <2>6. CASE st[d] \in {"unused", "pending"}
    <3>1. FreshPhase(d, st, ls)
      BY <2>6, QuietPhases DEF Sound
    <3>2. FreshList(d, c)
      BY <1>9, <3>1 DEF FreshPhase, l, c
    <3>3. /\ ~Replays(c) /\ OnceList(ls2[l]) /\ ls2[l].list = Append(c.list, f)
          /\ ls2[l].firingIndex = c.firingIndex /\ ls2[l].memory = c.memory
          /\ FreshList(d, ls2[l]) /\ ls2[l].firing = c.firing
      <4>1. ~FiredList(c)
        BY <3>2, DataDatum DEF FreshList, FiredList
      <4>2. /\ Replays(c) <=> FiredList(c)
            /\ OnceList(Added(c, f)) /\ Added(c, f).list = Append(c.list, f)
            /\ Added(c, f).firingIndex = c.firingIndex /\ Added(c, f).memory = c.memory
            /\ FreshList(d, Added(c, f)) /\ Added(c, f).firing = c.firing
        BY <2>3, <3>2, AddOnce
      <4>3. QED BY <1>2, <4>1, <4>2
    <3>4. Gains(c, ls2[l], f)
      <4>1. c.firingIndex = 0
        BY <3>2 DEF FreshList, Still
      <4>2. QED BY <2>3, <3>3, <4>1, AddGains
    <3>5. Phase(d, st, ls2, s2)
      <4>1. \A o \in Outcomes : FreshList(d, ls2[<<d, o>>])
        BY <2>4, <3>1, <3>3 DEF FreshPhase, l, c
      <4>2. QED BY <2>6, <4>1 DEF Phase, FreshPhase
    <3>6. st[d] # Final(Other(on))
      BY <1>9, <2>6, OthersOf
    <3>7. QED BY <1>6, <2>2, <2>3, <2>5, <3>3, <3>4, <3>5, <3>6
  <2>7. CASE st[d] = Final(on)
    <3>1. SettledPhase(d, on, st, ls)
      BY <1>9, <2>7, QuietPhases DEF Sound
    <3>2. (GoingList(c) \/ FiredList(c)) /\ OffList(ls[<<d, Other(on)>>])
      BY <3>1 DEF SettledPhase, l, c
    <3>3. /\ Replays(c) <=> FiredList(c)
          /\ OnceList(ls2[l]) /\ ls2[l].list = Append(c.list, f)
          /\ ls2[l].firingIndex = c.firingIndex /\ ls2[l].memory = c.memory
          /\ GoingList(ls2[l]) /\ ls2[l].firing
      <4>1. /\ Replays(c) <=> FiredList(c)
            /\ OnceList(Added(c, f)) /\ Added(c, f).list = Append(c.list, f)
            /\ Added(c, f).firingIndex = c.firingIndex /\ Added(c, f).memory = c.memory
            /\ GoingList(Added(c, f)) /\ Added(c, f).firing
        BY <2>3, <3>2, AddOnce
      <4>2. QED BY <1>2, <4>1
    <3>4. Gains(c, ls2[l], f)
      <4>1. c.firingIndex \in 0 .. Len(c.list)
        BY <2>3, <3>2 DEF GoingList, FiredList, Still
      <4>2. QED BY <2>3, <3>3, <4>1, AddGains
    <3>5. Phase(d, st, ls2, s2)
      <4>1. ls2[<<d, Other(on)>>] = ls[<<d, Other(on)>>]
        BY <1>9, <2>4, OthersOf
      <4>2. SettledPhase(d, on, st, ls2)
        BY <2>7, <3>2, <3>3, <4>1 DEF SettledPhase, l, c
      <4>3. QED BY <1>9, <4>2 DEF Phase
    <3>6. st[d] # Final(Other(on))
      BY <1>9, <2>7, OthersOf
    <3>7. FiredList(c) => ~c.firing /\ c.list = <<>>
      BY DEF FiredList, Still
    <3>8. Replays(c) => ls2[l].list = <<f>>
      <4>1. Append(<<>>, f) = <<f>>
        OBVIOUS
      <4>2. QED BY <3>3, <3>7, <4>1
    <3>9. QED BY <1>6, <2>2, <2>3, <2>5, <3>3, <3>4, <3>5, <3>6, <3>7, <3>8
  <2>8. CASE st[d] = Final(Other(on))
    <3>1. SettledPhase(d, Other(on), st, ls)
      BY <1>9, <2>8, QuietPhases, OthersOf DEF Sound
    <3>2. OffList(c)
      <4>1. Other(Other(on)) = on
        BY <1>9, OthersOf
      <4>2. OffList(ls[<<d, Other(Other(on))>>])
        BY <3>1 DEF SettledPhase
      <4>3. QED BY <4>1, <4>2 DEF l, c
    <3>3. ls2[l] = c /\ ~Replays(c)
      BY <1>2, <3>2, AddOff
    <3>4. Phase(d, st, ls2, s2)
      <4>1. \A o \in Outcomes : ls2[<<d, o>>] = ls[<<d, o>>]
        BY <2>4, <3>3 DEF l, c
      <4>2. QED BY <4>1, PhaseKept DEF Sound
    <3>5. QED BY <1>6, <2>2, <2>3, <2>5, <2>8, <3>3, <3>4
  <2>9. QED
    <3>1. st[d] \in {"unused", "pending", Final(on), Final(Other(on))}
      <4>1. FreshPhase(d, st, ls) \/ \E o \in Outcomes : SettledPhase(d, o, st, ls)
        BY QuietPhases DEF Sound
      <4>2. CASE FreshPhase(d, st, ls)
        BY <4>2 DEF FreshPhase
      <4>3. CASE \E o \in Outcomes : SettledPhase(d, o, st, ls)
        <5>1. PICK o \in Outcomes : st[d] = Final(o)
          BY <4>3 DEF SettledPhase
        <5>2. o = on \/ o = Other(on)
          BY <1>9, OthersOf
        <5>3. QED BY <5>1, <5>2
      <4>4. QED BY <4>1, <4>2, <4>3
    <3>2. QED BY <2>6, <2>7, <2>8, <3>1
<1>10. QED BY <1>8, <1>9, OthersOf

\* A frame taken off.
LEMMA FrontFacts ==
  ASSUME NEW S, NEW s \in Seq(S), s # <<>>
  PROVE  /\ Front(s) \in Seq(S) /\ Len(Front(s)) = Len(s) - 1 /\ Len(s) \in Nat /\ Len(s) >= 1
         /\ DOMAIN Front(s) = 1 .. Len(s) - 1 /\ DOMAIN s = 1 .. Len(s)
         /\ \A k \in 1 .. Len(s) - 1 : Front(s)[k] = s[k]
<1>1. Len(s) \in Nat /\ Len(s) >= 1 /\ DOMAIN s = 1 .. Len(s)
  OBVIOUS
<1>8. Len(s) - 1 \in Nat
  BY <1>1
<1>2. PICK n : n = Len(s) - 1 /\ n \in Nat
  BY <1>8
<1>3. 1 \in 1 .. Len(s) + 1 /\ n \in 1 - 1 .. Len(s)
  BY <1>1, <1>2
<1>4. SubSeq(s, 1, n) \in Seq(S) /\ Len(SubSeq(s, 1, n)) = n
      /\ \A k \in 1 .. n : SubSeq(s, 1, n)[k] = s[k]
  BY <1>1, <1>2
<1>5. Front(s) = SubSeq(s, 1, n)
  BY <1>2 DEF Front
<1>6. DOMAIN Front(s) = 1 .. n
  BY <1>4, <1>5
<1>7. QED BY <1>1, <1>2, <1>4, <1>5, <1>6

LEMMA SparedLess ==
  ASSUME NEW ls, NEW ls2, NEW l, NEW m, ls2[l].list = ls[l].list \/ ls2[l].list = <<>>,
         Spared(ls, l, m)
  PROVE  Spared(ls2, l, m)
BY DEF Spared

LEMMA AloneLess ==
  ASSUME NEW ls, NEW s, NEW ls2, s \in Seq(StackFrame), WhenAlone(ls, s),
         \A l \in Lists : ls2[l].list = ls[l].list \/ ls2[l].list = <<>>
  PROVE  WhenAlone(ls2, s)
<1>1. SUFFICES ASSUME NEW k \in DOMAIN s, s[k].frame = "when"
               PROVE  /\ \A on \in Outcomes : \A i \in DOMAIN ls2[<<s[k].to, on>>].list :
                            ls2[<<s[k].to, on>>].list[i].kind = "prologue"
                      /\ \A j \in k + 1 .. Len(s) :
                            s[j].frame = "fire" /\ Spared(ls2, s[j].of, s[k].to)
  BY DEF WhenAlone
<1>2. s[k].to \in Deferreds
  BY <1>1 DEF StackFrame
<1>3. \A on \in Outcomes : <<s[k].to, on>> \in Lists
  BY <1>2, OthersOf DEF Lists
<1>4. \A j \in k + 1 .. Len(s) : s[j].frame = "fire" /\ s[j].of \in Lists
  BY <1>1 DEF WhenAlone, StackFrame
<1>5. \A j \in k + 1 .. Len(s) : s[j].frame = "fire" /\ Spared(ls2, s[j].of, s[k].to)
  BY <1>1, <1>4, SparedLess DEF WhenAlone
<1>6. ASSUME NEW on \in Outcomes, NEW i \in DOMAIN ls2[<<s[k].to, on>>].list
      PROVE  ls2[<<s[k].to, on>>].list[i].kind = "prologue"
  <2>1. ls2[<<s[k].to, on>>].list = ls[<<s[k].to, on>>].list
    BY <1>3
  <2>2. QED BY <1>1, <2>1 DEF WhenAlone
<1>7. QED BY <1>5, <1>6

\* The innermost frame says whether something is about to settle, ...
LEMMA QuietTop ==
  ASSUME NEW ls, NEW s, NEW st, Phases(st, ls, s),
         s = <<>> \/ s[Len(s)].frame # "fire"
  PROVE  Quiet(ls)
<1>1. SUFFICES ASSUME NEW d \in Deferreds, NEW on \in Outcomes, StartingList(d, ls[<<d, on>>])
               PROVE  FALSE
  BY DEF Quiet
<1>2. ~FreshPhase(d, st, ls)
  BY <1>1 DEF FreshPhase, StartingList, FreshList
<1>3. \A o \in Outcomes : ~SettledPhase(d, o, st, ls)
  <2>1. SUFFICES ASSUME NEW o \in Outcomes, SettledPhase(d, o, st, ls) PROVE FALSE
    OBVIOUS
  <2>2. ~OffList(ls[<<d, on>>])
    BY <1>1 DEF StartingList, OffList
  <2>3. ~FiredList(ls[<<d, on>>])
    BY <1>1 DEF StartingList, FiredList, Still
  <2>4. ~GoingList(ls[<<d, on>>])
    BY <1>1 DEF StartingList, GoingList, Starts, Prologue
  <2>5. on = o \/ on = Other(o)
    BY OthersOf
  <2>6. QED BY <2>1, <2>2, <2>3, <2>4, <2>5 DEF SettledPhase
<1>4. \E o \in Outcomes : StartingPhase(d, o, st, ls, s)
  BY <1>2, <1>3 DEF Phases, Phase
<1>5. QED BY <1>4 DEF StartingPhase, FireFrame

\* ... and so does the next callback of the innermost loop.
LEMMA QuietReached ==
  ASSUME NEW ls, NEW s, NEW st, Phases(st, ls, s), NEW d \in Deferreds, NEW on \in Ons,
         s # <<>>, s[Len(s)] = FireFrame(<<d, on>>),
         \/ on \notin Outcomes
         \/ ls[<<d, on>>].firingIndex >= Len(ls[<<d, on>>].list)
         \/ ls[<<d, on>>].list[ls[<<d, on>>].firingIndex + 1].kind # "prologue"
  PROVE  Quiet(ls)
<1>1. SUFFICES ASSUME NEW e \in Deferreds, NEW o \in Outcomes, StartingList(e, ls[<<e, o>>])
               PROVE  FALSE
  BY DEF Quiet
<1>2. ~FreshPhase(e, st, ls)
  BY <1>1 DEF FreshPhase, StartingList, FreshList
<1>3. \A i \in Outcomes : ~SettledPhase(e, i, st, ls)
  <2>1. SUFFICES ASSUME NEW i \in Outcomes, SettledPhase(e, i, st, ls) PROVE FALSE
    OBVIOUS
  <2>2. ~OffList(ls[<<e, o>>])
    BY <1>1 DEF StartingList, OffList
  <2>3. ~FiredList(ls[<<e, o>>])
    BY <1>1 DEF StartingList, FiredList, Still
  <2>4. ~GoingList(ls[<<e, o>>])
    BY <1>1 DEF StartingList, GoingList, Starts, Prologue
  <2>5. o = i \/ o = Other(i)
    BY OthersOf
  <2>6. QED BY <2>1, <2>2, <2>3, <2>4, <2>5 DEF SettledPhase
<1>4. PICK i \in Outcomes : StartingPhase(e, i, st, ls, s)
  BY <1>2, <1>3 DEF Phases, Phase
<1>5. <<d, on>> = <<e, i>>
  BY <1>4 DEF StartingPhase, FireFrame
<1>6. d = e /\ on = i
  BY <1>5
<1>7. StartingList(d, ls[<<d, on>>]) /\ on \in Outcomes
  BY <1>4, <1>6 DEF StartingPhase
<1>8. QED BY <1>7 DEF StartingList, Starts, Prologue

LEMMA NoWhenTop ==
  ASSUME NEW ls, NEW s, s \in Seq(StackFrame), WhenAlone(ls, s),
         \/ s = <<>> \/ s[Len(s)].frame \notin {"fire", "when"}
         \/ \E l : s[Len(s)] = FireFrame(l) /\ \A m : ~Spared(ls, l, m)
  PROVE  NoWhen(s)
<1>1. SUFFICES ASSUME NEW k \in DOMAIN s, s[k].frame = "when" PROVE FALSE
  BY DEF NoWhen
<1>2. Len(s) \in Nat /\ DOMAIN s = 1 .. Len(s) /\ s # <<>>
  BY <1>1
<1>3. CASE k = Len(s)
  BY <1>1, <1>2, <1>3 DEF FireFrame
<1>4. CASE k # Len(s)
  <2>1. Len(s) \in k + 1 .. Len(s)
    BY <1>2, <1>4
  <2>2. s[Len(s)].frame = "fire" /\ Spared(ls, s[Len(s)].of, s[k].to)
    BY <1>1, <2>1 DEF WhenAlone
  <2>3. CASE s[Len(s)].frame \notin {"fire", "when"}
    BY <2>2, <2>3
  <2>4. CASE \E l : s[Len(s)] = FireFrame(l) /\ \A m : ~Spared(ls, l, m)
    <3>1. PICK l : s[Len(s)] = FireFrame(l) /\ \A m : ~Spared(ls, l, m)
      BY <2>4
    <3>2. s[Len(s)].of = l
      BY <3>1 DEF FireFrame
    <3>3. QED BY <2>2, <3>1, <3>2
  <2>5. QED BY <1>2, <2>3, <2>4
<1>5. QED BY <1>3, <1>4

\* Only the stack changes.
LEMMA StackSound ==
  ASSUME NEW ls, NEW s, NEW st, NEW reg, NEW ar, Sound(ls, s, st, reg, ar), Quiet(ls),
         NEW s2, s2 \in Seq(StackFrame), OneLoop(ls, s2), WhenAlone(ls, s2)
  PROVE  Sound(ls, s2, st, reg, ar)
<1>1. Phases(st, ls, s2)
  BY PhasesKept DEF Sound
<1>2. QED BY <1>1 DEF Sound

LEMMA PrefixSound ==
  ASSUME NEW ls, NEW s, NEW st, NEW reg, NEW ar, Sound(ls, s, st, reg, ar), Quiet(ls),
         NEW s2, s2 \in Seq(StackFrame), Len(s2) <= Len(s), \A k \in DOMAIN s2 : s2[k] = s[k]
  PROVE  Sound(ls, s2, st, reg, ar)
<1>1. /\ Len(s) \in Nat /\ DOMAIN s = 1 .. Len(s) /\ Len(s2) \in Nat /\ DOMAIN s2 = 1 .. Len(s2)
      /\ s \in Seq(StackFrame)
  BY DEF Sound
<1>2. OneLoop(ls, s2)
  <2>1. DOMAIN s2 \subseteq DOMAIN s
    BY <1>1
  <2>2. QED BY <2>1, LoopPrefix DEF Sound
<1>3. WhenAlone(ls, s2)
  BY <1>1, AlonePrefix DEF Sound
<1>4. QED BY <1>2, <1>3, StackSound

LEMMA PushSound ==
  ASSUME NEW ls, NEW s, NEW st, NEW reg, NEW ar, Sound(ls, s, st, reg, ar), Quiet(ls), NoWhen(s),
         NEW f \in StackFrame, f.frame # "fire",
         f.frame = "when" =>
             \A on \in Outcomes : \A i \in DOMAIN ls[<<f.to, on>>].list :
                 ls[<<f.to, on>>].list[i].kind = "prologue"
  PROVE  Sound(ls, Append(s, f), st, reg, ar)
<1> DEFINE s2 == Append(s, f)
<1>1. s \in Seq(StackFrame)
  BY DEF Sound
<1>2. /\ Len(s) \in Nat /\ DOMAIN s = 1 .. Len(s) /\ DOMAIN s2 = 1 .. Len(s) + 1
      /\ Len(s2) = Len(s) + 1 /\ s2 \in Seq(StackFrame)
      /\ \A k \in 1 .. Len(s) : s2[k] = s[k]
      /\ s2[Len(s) + 1] = f
  BY <1>1
<1>3. OneLoop(ls, s2)
  BY <1>1, LoopPushOther DEF Sound
<1> HIDE DEF s2
<1>4. WhenAlone(ls, s2)
  <2>1. SUFFICES ASSUME NEW k \in DOMAIN s2, s2[k].frame = "when"
                 PROVE  /\ \A on \in Outcomes : \A i \in DOMAIN ls[<<s2[k].to, on>>].list :
                              ls[<<s2[k].to, on>>].list[i].kind = "prologue"
                        /\ \A j \in k + 1 .. Len(s2) :
                              s2[j].frame = "fire" /\ Spared(ls, s2[j].of, s2[k].to)
    BY DEF WhenAlone
  <2>2. k = Len(s) + 1 /\ s2[k] = f
    BY <1>2, <2>1 DEF NoWhen
  <2>3. k + 1 .. Len(s2) = {}
    BY <1>2, <2>2
  <2>4. QED BY <2>1, <2>2, <2>3
<1>5. QED BY <1>2, <1>3, <1>4, StackSound DEF s2

\* What deferreds were registered with and made from grows.
LEMMA SoundMore ==
  ASSUME NEW ls, NEW s, NEW st, NEW reg, NEW ar, Sound(ls, s, st, reg, ar),
         NEW st2, NEW reg2, NEW ar2,
         \A d \in Deferreds : st2[d] = st[d] \/ (st[d] = "unused" /\ st2[d] = "pending"),
         \A n \in DOMAIN reg : n \in DOMAIN reg2 /\ reg2[n] = reg[n],
         \A d, m \in Deferreds : IsGiven(d, m, ar) => IsGiven(d, m, ar2)
  PROVE  Sound(ls, s, st2, reg2, ar2)
<1>1. \A d, on, f : IsRegistered(d, on, f, reg) => IsRegistered(d, on, f, reg2)
  BY DEF IsRegistered
<1>2. \A on, f : \A d \in Deferreds : Fits(d, on, f, reg, ar) => Fits(d, on, f, reg2, ar2)
  BY <1>1 DEF Fits, IsGiven
<1>3. AllFit(ls, reg2, ar2)
  BY <1>2 DEF Sound, AllFit
<1>4. ProgressLists(ls, reg2)
  BY <1>1 DEF Sound, ProgressLists
<1>5. Phases(st2, ls, s)
  <2>1. SUFFICES ASSUME NEW d \in Deferreds PROVE Phase(d, st2, ls, s)
    BY DEF Phases
  <2>2. Phase(d, st, ls, s)
    BY DEF Sound, Phases
  <2>3. CASE st2[d] = st[d]
    BY <2>2, <2>3 DEF Phase, FreshPhase, StartingPhase, SettledPhase
  <2>4. CASE st[d] = "unused" /\ st2[d] = "pending"
    <3>1. FreshPhase(d, st, ls)
      BY <2>2, <2>4, OthersOf DEF Phase, StartingPhase, SettledPhase
    <3>2. FreshPhase(d, st2, ls)
      BY <2>4, <3>1 DEF FreshPhase
    <3>3. QED BY <3>2 DEF Phase
  <2>5. QED BY <2>3, <2>4
<1>6. QED BY <1>3, <1>4, <1>5 DEF Sound

-----------------------------------------------------------------------------
(* The loop of fire.                                                       *)

\* The next of the callbacks that are to be called is called.
Loses(c, e, k) ==
    /\ k \in Ahead(c) /\ \A i \in Ahead(c) : k <= i
    /\ Ahead(e) = Ahead(c) \ {k} /\ e.list = c.list

\* The list of d for `on' is fired by the innermost loop.
InLoop(d, on, s) == s # <<>> /\ s[Len(s)] = FireFrame(<<d, on>>)

PassStep(d, on, ls, ls2) == ls2 = [ls EXCEPT ![<<d, on>>].firingIndex = @ + 1]

OthersSame(d, on, ls, ls2) ==
    \A e \in Deferreds, o \in Outcomes : ~(e = d /\ o = on) => ls2[<<e, o>>] = ls[<<e, o>>]

PassEffect(d, on, ls, ls2, st) ==
    /\ OthersSame(d, on, ls, ls2)
    /\ on \in Outcomes =>
          /\ st[d] = Final(on)
          /\ ls2[<<d, on>>].memory = ls[<<d, on>>].memory
          /\ Loses(ls[<<d, on>>], ls2[<<d, on>>], ls[<<d, on>>].firingIndex + 1)

LEMMA InLoopFires ==
  ASSUME NEW ls, NEW s, NEW st, NEW reg, NEW ar, Sound(ls, s, st, reg, ar),
         NEW d \in Deferreds, NEW on \in Ons, InLoop(d, on, s)
  PROVE  ls[<<d, on>>].firing
<1>1. Len(s) \in DOMAIN s
  BY SoundTypes DEF InLoop
<1>2. QED BY <1>1 DEF Sound, OneLoop, InLoop, FireFrame

\* A loop that is past the start of the list is that of a settled deferred.
LEMMA GoingReached ==
  ASSUME NEW ls, NEW s, NEW st, NEW reg, NEW ar, Sound(ls, s, st, reg, ar), Quiet(ls),
         NEW d \in Deferreds, NEW on \in Outcomes, InLoop(d, on, s)
  PROVE  st[d] = Final(on) /\ GoingList(ls[<<d, on>>]) /\ OffList(ls[<<d, Other(on)>>])
<1>1. ls[<<d, on>>].firing
  BY InLoopFires, OthersOf
<1>2. ~FreshPhase(d, st, ls)
  BY <1>1 DEF FreshPhase, FreshList, Still
<1>3. PICK o \in Outcomes : SettledPhase(d, o, st, ls)
  BY <1>2, QuietPhases DEF Sound
<1>4. on # Other(o)
  BY <1>1, <1>3 DEF SettledPhase, OffList, Still
<1>5. on = o
  BY <1>4, OthersOf
<1>6. ~FiredList(ls[<<d, on>>])
  BY <1>1 DEF FiredList, Still
<1>7. QED BY <1>3, <1>5, <1>6 DEF SettledPhase

LEMMA PassProgress ==
  ASSUME NEW c, ProgressList(c), c.firing
  PROVE  LET e == [c EXCEPT !.firingIndex = @ + 1]
         IN  ProgressList(e) /\ e.list = c.list /\ e.firing
<1> DEFINE n == c.firingIndex + 1
           e == [c EXCEPT !.firingIndex = n]
<1>1. c \in CallbackList /\ n \in Nat
  BY DEF ProgressList, CallbackList
<1> HIDE DEF n
<1>2. /\ e \in CallbackList /\ e.options = c.options /\ e.list = c.list /\ e.queue = c.queue
      /\ e.firing = c.firing /\ e.memory = c.memory
  BY <1>1 DEF CallbackList
<1> HIDE DEF e
<1>3. ProgressList(e) /\ e.list = c.list /\ e.firing
  BY <1>2 DEF ProgressList
<1>4. QED BY <1>3 DEF n, e

LEMMA LessProgress ==
  ASSUME NEW ls, NEW ls2, NEW reg, ProgressLists(ls, reg),
         \A l \in Lists : ls2[l].list = ls[l].list \/ ls2[l].list = <<>>,
         \A d \in Deferreds : ProgressList(ls2[<<d, "progress">>])
  PROVE  ProgressLists(ls2, reg)
<1>1. SUFFICES ASSUME NEW d \in Deferreds
               PROVE  \A k \in DOMAIN ls2[<<d, "progress">>].list :
                         \/ ls2[<<d, "progress">>].list[k] = Prologue(d)
                         \/ IsRegistered(d, "progress", ls2[<<d, "progress">>].list[k], reg)
  BY DEF ProgressLists
<1>2. <<d, "progress">> \in Lists
  BY OthersOf DEF Lists
<1>3. CASE ls2[<<d, "progress">>].list = ls[<<d, "progress">>].list
  BY <1>3 DEF ProgressLists
<1>4. CASE ls2[<<d, "progress">>].list = <<>>
  BY <1>4
<1>5. QED BY <1>2, <1>3, <1>4

\* The parts of Sound that follow when no list comes to call anything new.
LEMMA SoundLess ==
  ASSUME NEW ls, NEW s, NEW st, NEW reg, NEW ar, Sound(ls, s, st, reg, ar),
         NEW ls2, NEW st2, DOMAIN ls2 = Lists,
         \A l \in Lists : ls2[l].list = ls[l].list \/ ls2[l].list = <<>>,
         \A l \in Lists : ls[l].firing => ls2[l].firing,
         \A d \in Deferreds : ProgressList(ls2[<<d, "progress">>]),
         OnceLists(ls2), Phases(st2, ls2, s),
         \A d \in Deferreds, on \in Outcomes : \A k \in Ahead(ls2[<<d, on>>]) :
             k \in Ahead(ls[<<d, on>>]) /\ ls2[<<d, on>>].list[k] = ls[<<d, on>>].list[k]
  PROVE  Sound(ls2, s, st2, reg, ar)
<1>1. AllFit(ls2, reg, ar)
  BY DEF Sound, AllFit
<1>2. ProgressLists(ls2, reg)
  BY LessProgress DEF Sound
<1>3. OneLoop(ls2, s)
  <2>1. \A k \in DOMAIN s : s[k].frame = "fire" /\ ls[s[k].of].firing => ls2[s[k].of].firing
    BY SoundTypes
  <2>2. QED BY <2>1, LoopSame DEF Sound
<1>4. WhenAlone(ls2, s)
  BY AloneLess DEF Sound
<1>5. QED BY <1>1, <1>2, <1>3, <1>4 DEF Sound

LEMMA PassSound ==
  ASSUME NEW ls, NEW s, NEW st, NEW reg, NEW ar, Sound(ls, s, st, reg, ar),
         NEW d \in Deferreds, NEW on \in Ons, InLoop(d, on, s),
         ls[<<d, on>>].firingIndex < Len(ls[<<d, on>>].list),
         on \in Outcomes => ls[<<d, on>>].list[ls[<<d, on>>].firingIndex + 1].kind # "prologue",
         NEW ls2, PassStep(d, on, ls, ls2)
  PROVE  /\ Sound(ls2, s, st, reg, ar) /\ Quiet(ls) /\ Quiet(ls2)
         /\ PassEffect(d, on, ls, ls2, st)
<1>1. Quiet(ls)
  BY QuietReached DEF Sound, InLoop
<1> DEFINE l == <<d, on>>
           c == ls[l]
           e == [c EXCEPT !.firingIndex = @ + 1]
<1>2. l \in Lists /\ DOMAIN ls = Lists
  BY SoundTypes DEF Lists
<1>3. ls2[l] = e /\ DOMAIN ls2 = Lists /\ \A k \in Lists : k # l => ls2[k] = ls[k]
  BY <1>2 DEF PassStep
<1>4. c = ls[l] /\ c.firing /\ c \in CallbackList
  BY <1>2, InLoopFires, SoundTypes
<1>5. \A x \in Deferreds, o \in Ons : <<x, o>> \in Lists /\ (<<x, o>> = l <=> x = d /\ o = on)
  BY DEF Lists
<1>6. c.firingIndex < Len(c.list)
      /\ (on \in Outcomes => c.list[c.firingIndex + 1].kind # "prologue")
  OBVIOUS
<1> HIDE DEF l, c, e
<1>7. OthersSame(d, on, ls, ls2)
  BY <1>3, <1>5, OthersOf DEF OthersSame
<1>8. CASE on = "progress"
  <2>1. on \notin Outcomes
    BY <1>8, OthersOf
  <2>2. ProgressList(c)
    BY <1>4, <1>8 DEF Sound, ProgressLists, l
  <2>3. ProgressList(e) /\ e.list = c.list /\ e.firing
    BY <1>4, <2>2, PassProgress DEF e
  <2>4. \A x \in Deferreds, o \in Outcomes : ls2[<<x, o>>] = ls[<<x, o>>]
    BY <1>7, <2>1 DEF OthersSame
  <2>5. Phases(st, ls2, s)
    BY <1>1, <2>4, PhasesKept DEF Sound
  <2>6. OnceLists(ls2)
    BY <2>4 DEF Sound, OnceLists
  <2>7. \A x \in Deferreds : ProgressList(ls2[<<x, "progress">>])
    <3>1. \A x \in Deferreds : ProgressList(ls[<<x, "progress">>])
      BY DEF Sound, ProgressLists
    <3>2. QED BY <1>3, <1>5, <2>3, <3>1, OthersOf
  <2>8. \A k \in Lists : ls2[k].list = ls[k].list /\ (ls[k].firing => ls2[k].firing)
    BY <1>3, <1>4, <2>3
  <2>9. Sound(ls2, s, st, reg, ar)
    BY <1>3, <2>4, <2>5, <2>6, <2>7, <2>8, SoundLess
  <2>10. Quiet(ls2)
    BY <1>1, <2>4 DEF Quiet
  <2>11. QED BY <1>1, <1>7, <2>1, <2>9, <2>10 DEF PassEffect
<1>9. CASE on \in Outcomes
  <2>1. st[d] = Final(on) /\ GoingList(c) /\ OffList(ls[<<d, Other(on)>>])
    BY <1>1, <1>4, <1>9, GoingReached DEF l
  <2>2. OnceList(c)
    BY <1>4, <1>9 DEF Sound, OnceLists, l
  <2>3. OnceList(e) /\ GoingList(e) /\ e.list = c.list /\ e.memory = c.memory /\ e.firing
        /\ e.firingIndex = c.firingIndex + 1
    BY <1>6, <2>1, <2>2, PassGoing DEF e
  <2>4. Loses(c, e, c.firingIndex + 1)
    <3>1. c.firingIndex \in Nat /\ c.list \in Seq(Callback) /\ DOMAIN c.list = 1 .. Len(c.list)
      BY <1>4 DEF CallbackList
    <3>2. c.firingIndex + 1 \in Ahead(c)
      BY <1>6, <1>9, <3>1 DEF Ahead
    <3>3. \A i \in Ahead(c) : i \in DOMAIN c.list /\ i > c.firingIndex
      BY DEF Ahead
    <3>4. \A i \in Ahead(c) : c.firingIndex + 1 <= i
      BY <3>1, <3>3
    <3>5. Ahead(e) = Ahead(c) \ {c.firingIndex + 1}
      BY <2>3, <3>1 DEF Ahead
    <3>6. QED BY <2>3, <3>2, <3>4, <3>5 DEF Loses
  <2>5. Phases(st, ls2, s)
    <3>1. SUFFICES ASSUME NEW x \in Deferreds PROVE Phase(x, st, ls2, s)
      BY DEF Phases
    <3>2. CASE x # d
      <4>1. \A o \in Outcomes : ls2[<<x, o>>] = ls[<<x, o>>]
        BY <1>7, <3>2 DEF OthersSame
      <4>2. QED BY <1>1, <4>1, PhaseKept DEF Sound
    <3>3. CASE x = d
      <4>1. ls2[<<d, Other(on)>>] = ls[<<d, Other(on)>>] /\ ls2[<<d, on>>] = e
        BY <1>3, <1>7, <1>9, OthersOf DEF OthersSame, l
      <4>2. SettledPhase(d, on, st, ls2)
        BY <2>1, <2>3, <4>1 DEF SettledPhase
      <4>3. QED BY <1>9, <3>3, <4>2 DEF Phase
    <3>4. QED BY <3>2, <3>3
  <2>6. OnceLists(ls2)
    <3>1. \A x \in Deferreds, o \in Outcomes : OnceList(ls[<<x, o>>])
      BY DEF Sound, OnceLists
    <3>2. \A x \in Deferreds, o \in Outcomes :
             ls2[<<x, o>>] = ls[<<x, o>>] \/ ls2[<<x, o>>] = e
      BY <1>3, <1>7 DEF OthersSame, l
    <3>3. QED BY <2>3, <3>1, <3>2 DEF OnceLists
  <2>7. \A x \in Deferreds : ProgressList(ls2[<<x, "progress">>])
    <3>1. \A x \in Deferreds : ls2[<<x, "progress">>] = ls[<<x, "progress">>]
      BY <1>3, <1>5, <1>9, OthersOf
    <3>2. QED BY <3>1 DEF Sound, ProgressLists
  <2>8. \A k \in Lists : ls2[k].list = ls[k].list /\ (ls[k].firing => ls2[k].firing)
    BY <1>3, <1>4, <2>3
  <2>9. \A x \in Deferreds, o \in Outcomes : \A k \in Ahead(ls2[<<x, o>>]) :
             k \in Ahead(ls[<<x, o>>]) /\ ls2[<<x, o>>].list[k] = ls[<<x, o>>].list[k]
    <3>1. SUFFICES ASSUME NEW x \in Deferreds, NEW o \in Outcomes, NEW k \in Ahead(ls2[<<x, o>>])
                   PROVE  k \in Ahead(ls[<<x, o>>])
                          /\ ls2[<<x, o>>].list[k] = ls[<<x, o>>].list[k]
      OBVIOUS
    <3>2. CASE x = d /\ o = on
      <4>1. ls[<<x, o>>] = c /\ ls2[<<x, o>>] = e
        BY <1>3, <1>4, <3>2 DEF l
      <4>2. QED BY <2>4, <3>1, <4>1 DEF Loses
    <3>3. CASE ~(x = d /\ o = on)
      BY <1>7, <3>3 DEF OthersSame
    <3>4. QED BY <3>2, <3>3
  <2>10. Sound(ls2, s, st, reg, ar)
    BY <1>3, <2>5, <2>6, <2>7, <2>8, <2>9, SoundLess
  <2>11. Quiet(ls2)
    <3>1. SUFFICES ASSUME NEW x \in Deferreds, NEW o \in Outcomes PROVE ~StartingList(x, ls2[<<x, o>>])
      BY DEF Quiet
    <3>2. CASE x = d /\ o = on
      <4>1. ls2[<<x, o>>] = e /\ e.firingIndex # 0
        <5>1. c.firingIndex \in Nat
          BY <1>4 DEF CallbackList
        <5>2. QED BY <1>3, <2>3, <3>2, <5>1 DEF l
      <4>2. QED BY <4>1 DEF StartingList, Starts
    <3>3. CASE ~(x = d /\ o = on)
      BY <1>1, <1>7, <3>3 DEF OthersSame, Quiet
    <3>4. QED BY <3>2, <3>3
  <2>12. PassEffect(d, on, ls, ls2, st)
    <3>1. ls[<<d, on>>] = c /\ ls2[<<d, on>>] = e
      BY <1>3, <1>4 DEF l
    <3>2. QED BY <1>7, <2>1, <2>3, <2>4, <3>1 DEF PassEffect
  <2>13. QED BY <1>1, <2>10, <2>11, <2>12
<1>10. QED BY <1>8, <1>9, OthersOf

LEMMA LockProgress ==
  ASSUME NEW c, ProgressList(c)
  PROVE  /\ ProgressList(Locked(c)) /\ Locked(c).firing = c.firing
         /\ Locked(c).list = c.list \/ Locked(c).list = <<>>
<1> DEFINE e == Locked(c)
<1>1. c \in CallbackList /\ c.options = {"memory"}
  BY DEF ProgressList
<1>2. PICK x, y : x = <<>> /\ y = <<>> /\ x \in Seq(Callback) /\ y \in Seq(Datum) /\ y \in Seq(Data)
  <2>1. <<>> \in Seq(Data)
    OBVIOUS
  <2>2. QED BY <2>1, NoCallbacks, Zenon
<1>3. CASE c.memory = NoData /\ ~c.firing
  <2>1. e = [c EXCEPT !.locked = TRUE, !.queue = y, !.list = x, !.spent = TRUE, !.memory = NoData]
    BY <1>2, <1>3, Zenon DEF Disabled, Locked
  <2>2. /\ e.options = c.options /\ e.list = <<>> /\ e.queue = y /\ e.firing = c.firing
        /\ e.memory = NoData /\ e \in CallbackList /\ e.firingIndex = c.firingIndex
    <3> HIDE DEF e
    <3> QED BY <1>1, <1>2, <2>1 DEF CallbackList
  <2>3. c.firingIndex = 0
    BY <1>3 DEF ProgressList, Still
  <2> HIDE DEF e
  <2>4. ProgressList(e)
    BY <1>1, <1>2, <1>3, <2>2, <2>3 DEF ProgressList, Still
  <2>5. QED BY <2>2, <2>4 DEF e
<1>4. CASE ~(c.memory = NoData /\ ~c.firing)
  <2>1. e = [c EXCEPT !.locked = TRUE, !.queue = y]
    BY <1>2, <1>4, Zenon DEF Locked
  <2>2. /\ e.options = c.options /\ e.list = c.list /\ e.queue = y /\ e.firing = c.firing
        /\ e.memory = c.memory /\ e \in CallbackList /\ e.firingIndex = c.firingIndex
    <3> HIDE DEF e
    <3> QED BY <1>1, <1>2, <2>1 DEF CallbackList
  <2> HIDE DEF e
  <2>3. ProgressList(e)
    BY <1>1, <1>2, <2>2 DEF ProgressList, Still
  <2>4. QED BY <2>2, <2>3 DEF e
<1>5. QED BY <1>3, <1>4

\* The functions that settle a deferred are called: as with Settles.
SettleStep(d, on, ls, st, ls2, st2) ==
    /\ st2 = [st EXCEPT ![d] = Final(on)]
    /\ ls2 = [[ls EXCEPT ![<<d, on>>].firingIndex = @ + 1]
                 EXCEPT ![<<d, Other(on)>>] = Disabled(@), ![<<d, "progress">>] = Locked(@)]

SettleEffect(d, on, ls, st, ls2) ==
    /\ st[d] = "pending"
    /\ \A e \in Deferreds, o \in Outcomes : e # d => ls2[<<e, o>>] = ls[<<e, o>>]
    /\ SameAhead(ls[<<d, on>>], ls2[<<d, on>>])
    /\ ls2[<<d, on>>].memory = ls[<<d, on>>].memory /\ ls[<<d, on>>].memory \in Data
    /\ Ahead(ls2[<<d, Other(on)>>]) = {}
    /\ ls2[<<d, Other(on)>>].memory = NoData /\ ls[<<d, Other(on)>>].memory = NoData

\* The function that settles a deferred is reached once only.
LEMMA StartingReached ==
  ASSUME NEW ls, NEW s, NEW st, NEW reg, NEW ar, Sound(ls, s, st, reg, ar),
         NEW d \in Deferreds, NEW on \in Outcomes, InLoop(d, on, s),
         ls[<<d, on>>].list[ls[<<d, on>>].firingIndex + 1].kind = "prologue",
         ls[<<d, on>>].firingIndex < Len(ls[<<d, on>>].list)
  PROVE  /\ StartingPhase(d, on, st, ls, s)
         /\ \A e \in Deferreds : e # d =>
               FreshPhase(e, st, ls) \/ \E o \in Outcomes : SettledPhase(e, o, st, ls)
<1>1. ls[<<d, on>>].firing /\ ls[<<d, on>>].firingIndex \in Nat
      /\ ls[<<d, on>>].list \in Seq(Callback)
  BY InLoopFires, SoundTypes, OthersOf DEF CallbackList, Lists
<1>2. ~FreshPhase(d, st, ls)
  BY <1>1 DEF FreshPhase, FreshList, Still
<1>3. \A o \in Outcomes : ~SettledPhase(d, o, st, ls)
  <2>1. SUFFICES ASSUME NEW o \in Outcomes, SettledPhase(d, o, st, ls) PROVE FALSE
    OBVIOUS
  <2>2. on = o \/ on = Other(o)
    BY OthersOf
  <2>3. ~OffList(ls[<<d, on>>]) /\ ~FiredList(ls[<<d, on>>])
    BY <1>1 DEF OffList, FiredList, Still
  <2>4. ~GoingList(ls[<<d, on>>])
    <3>1. ls[<<d, on>>].firingIndex + 1 \in DOMAIN ls[<<d, on>>].list
      BY <1>1
    <3>2. ls[<<d, on>>].firingIndex + 1 > ls[<<d, on>>].firingIndex
      BY <1>1
    <3>3. QED BY <3>1, <3>2 DEF GoingList
  <2>5. QED BY <2>1, <2>2, <2>3, <2>4 DEF SettledPhase
<1>4. PICK o \in Outcomes : StartingPhase(d, o, st, ls, s)
  BY <1>2, <1>3 DEF Sound, Phases, Phase
<1>5. on = o
  <2>1. <<d, on>> = <<d, o>>
    BY <1>4 DEF StartingPhase, InLoop, FireFrame
  <2>2. QED BY <2>1
<1>6. ASSUME NEW e \in Deferreds, e # d, NEW i \in Outcomes, StartingPhase(e, i, st, ls, s)
      PROVE  FALSE
  <2>1. <<d, on>> = <<e, i>>
    BY <1>6 DEF StartingPhase, InLoop, FireFrame
  <2>2. QED BY <1>6, <2>1
<1>7. QED BY <1>4, <1>5, <1>6 DEF Sound, Phases, Phase

LEMMA SettleSound ==
  ASSUME NEW ls, NEW s, NEW st, NEW reg, NEW ar, Sound(ls, s, st, reg, ar),
         NEW d \in Deferreds, NEW on \in Outcomes, InLoop(d, on, s),
         ls[<<d, on>>].list[ls[<<d, on>>].firingIndex + 1].kind = "prologue",
         ls[<<d, on>>].firingIndex < Len(ls[<<d, on>>].list), DOMAIN st = Deferreds,
         NEW ls2, NEW st2, SettleStep(d, on, ls, st, ls2, st2)
  PROVE  /\ Sound(ls2, s, st2, reg, ar) /\ Quiet(ls2)
         /\ SettleEffect(d, on, ls, st, ls2)
<1> DEFINE l == <<d, on>>
           m == <<d, Other(on)>>
           p == <<d, "progress">>
           a == ls[l]
           b == ls[m]
           c == ls[p]
           a2 == [a EXCEPT !.firingIndex = @ + 1]
<1>1. DOMAIN ls = Lists /\ l \in Lists /\ m \in Lists /\ p \in Lists /\ l # m /\ l # p /\ m # p
  <2>1. Other(on) \in Ons /\ Other(on) # on /\ on \in Ons /\ "progress" \in Ons
        /\ on # "progress" /\ Other(on) # "progress"
    BY OthersOf
  <2>2. l \in Lists /\ m \in Lists /\ p \in Lists
    BY <2>1 DEF Lists
  <2>3. l # m /\ l # p /\ m # p
    BY <2>1
  <2>4. QED BY <2>2, <2>3, SoundTypes
<1>2. ls2[l] = a2 /\ ls2[m] = Disabled(b) /\ ls2[p] = Locked(c) /\ DOMAIN ls2 = Lists
      /\ \A k \in Lists : k # l /\ k # m /\ k # p => ls2[k] = ls[k]
  BY <1>1 DEF SettleStep
<1>3. /\ StartingPhase(d, on, st, ls, s)
      /\ \A e \in Deferreds : e # d =>
            FreshPhase(e, st, ls) \/ \E o \in Outcomes : SettledPhase(e, o, st, ls)
  BY StartingReached
<1>4. st2[d] = Final(on) /\ \A e \in Deferreds : e # d => st2[e] = st[e]
  BY DEF SettleStep
<1>5. \A e \in Deferreds, o \in Ons :
         /\ <<e, o>> \in Lists
         /\ <<e, o>> = l <=> e = d /\ o = on
         /\ <<e, o>> = m <=> e = d /\ o = Other(on)
         /\ <<e, o>> = p <=> e = d /\ o = "progress"
  BY DEF Lists
<1>6. StartingList(d, a) /\ FreshList(d, b) /\ st[d] = "pending"
  BY <1>3 DEF StartingPhase
<1>7. OnceList(a) /\ OnceList(b) /\ ProgressList(c)
  BY OthersOf DEF Sound, OnceLists, ProgressLists
<1>8. a = ls[l] /\ b = ls[m] /\ c = ls[p]
  OBVIOUS
<1>9. OnceList(a2) /\ GoingList(a2) /\ a2.list = a.list /\ a2.memory = a.memory /\ a2.firing
      /\ a2.firingIndex = 1 /\ a.firingIndex = 0
  BY <1>6, <1>7, SettleStarting
<1>10. OnceList(Disabled(b)) /\ OffList(Disabled(b))
  BY <1>6, <1>7, DisableFresh
<1>11. ProgressList(Locked(c)) /\ Locked(c).firing = c.firing
       /\ (Locked(c).list = c.list \/ Locked(c).list = <<>>)
  BY <1>7, LockProgress
<1>20. l = <<d, on>> /\ m = <<d, Other(on)>> /\ p = <<d, "progress">>
  OBVIOUS
<1> HIDE DEF l, m, p, a, b, c, a2
<1>12. \A e \in Deferreds, o \in Outcomes : e # d => ls2[<<e, o>>] = ls[<<e, o>>]
  BY <1>2, <1>5, OthersOf
<1>13. SameAhead(a, a2)
  <2>1. a.list[1].kind = "prologue"
    BY <1>6 DEF StartingList, Starts, Prologue
  <2>2. a.list \in Seq(Callback)
    BY <1>7 DEF OnceList, CallbackList
  <2>3. Ahead(a2) = Ahead(a)
    BY <1>9, <2>1, <2>2 DEF Ahead
  <2>4. QED BY <1>9, <2>3 DEF SameAhead
<1>14. Ahead(Disabled(b)) = {} /\ Disabled(b).list = <<>> /\ Disabled(b).memory = NoData
  BY <1>10 DEF OffList, Ahead
<1>15. SettleEffect(d, on, ls, st, ls2)
  <2>1. a.memory \in Data /\ b.memory = NoData
    BY <1>6 DEF StartingList, FreshList
  <2>2. QED BY <1>2, <1>6, <1>8, <1>9, <1>12, <1>13, <1>14, <1>20, <2>1 DEF SettleEffect
<1>16. \A k \in Lists : /\ ls2[k].list = ls[k].list \/ ls2[k].list = <<>>
                        /\ ls[k].firing => ls2[k].firing
  <2>1. ~b.firing
    BY <1>6 DEF FreshList, Still
  <2>2. QED BY <1>2, <1>8, <1>9, <1>11, <1>14, <2>1
<1>17. Phases(st2, ls2, s) /\ Quiet(ls2)
  <2>1. SUFFICES ASSUME NEW e \in Deferreds
                 PROVE  FreshPhase(e, st2, ls2) \/ \E o \in Outcomes : SettledPhase(e, o, st2, ls2)
    <3>1. ASSUME NEW e \in Deferreds, NEW o \in Outcomes, StartingList(e, ls2[<<e, o>>]),
                 FreshPhase(e, st2, ls2) \/ \E i \in Outcomes : SettledPhase(e, i, st2, ls2)
          PROVE  FALSE
      <4>1. ~FreshPhase(e, st2, ls2)
        BY <3>1 DEF StartingList, FreshPhase, FreshList
      <4>2. PICK i \in Outcomes : SettledPhase(e, i, st2, ls2)
        BY <3>1, <4>1
      <4>3. o = i \/ o = Other(i)
        BY OthersOf
      <4>4. ~OffList(ls2[<<e, o>>]) /\ ~FiredList(ls2[<<e, o>>])
        BY <3>1 DEF StartingList, OffList, FiredList, Still
      <4>5. ~GoingList(ls2[<<e, o>>])
        BY <3>1 DEF StartingList, GoingList, Starts, Prologue
      <4>6. QED BY <4>2, <4>3, <4>4, <4>5 DEF SettledPhase
    <3>2. QED BY <3>1 DEF Phases, Phase, Quiet
  <2>2. CASE e # d
    <3>1. \A o \in Outcomes : ls2[<<e, o>>] = ls[<<e, o>>]
      BY <1>12, <2>2
    <3>2. st2[e] = st[e]
      BY <1>4, <2>2
    <3>3. FreshPhase(e, st, ls) => FreshPhase(e, st2, ls2)
      BY <3>1, <3>2 DEF FreshPhase
    <3>4. \A o \in Outcomes : SettledPhase(e, o, st, ls) => SettledPhase(e, o, st2, ls2)
      BY <3>1, <3>2, OthersOf DEF SettledPhase
    <3>5. QED BY <1>3, <2>2, <3>3, <3>4
  <2>3. CASE e = d
    BY <1>2, <1>4, <1>9, <1>10, <1>20, <2>3 DEF SettledPhase
  <2>4. QED BY <2>2, <2>3
<1>18. OnceLists(ls2) /\ \A e \in Deferreds : ProgressList(ls2[<<e, "progress">>])
  <2>1. ASSUME NEW e \in Deferreds, NEW o \in Outcomes PROVE OnceList(ls2[<<e, o>>])
    <3>1. CASE e # d
      BY <1>12, <3>1 DEF Sound, OnceLists
    <3>2. CASE e = d
      <4>1. o = on \/ o = Other(on)
        BY OthersOf
      <4>2. QED BY <1>2, <1>9, <1>10, <1>20, <3>2, <4>1
    <3>3. QED BY <3>1, <3>2
  <2>2. ASSUME NEW e \in Deferreds PROVE ProgressList(ls2[<<e, "progress">>])
    <3>1. CASE e = d
      BY <1>2, <1>11, <1>20, <3>1
    <3>2. CASE e # d
      <4>1. ls2[<<e, "progress">>] = ls[<<e, "progress">>]
        BY <1>2, <1>5, <3>2, OthersOf
      <4>2. QED BY <4>1 DEF Sound, ProgressLists
    <3>3. QED BY <3>1, <3>2
  <2>3. QED BY <2>1, <2>2 DEF OnceLists
<1>19. \A e \in Deferreds, o \in Outcomes : \A k \in Ahead(ls2[<<e, o>>]) :
          k \in Ahead(ls[<<e, o>>]) /\ ls2[<<e, o>>].list[k] = ls[<<e, o>>].list[k]
  <2>1. SUFFICES ASSUME NEW e \in Deferreds, NEW o \in Outcomes, NEW k \in Ahead(ls2[<<e, o>>])
                 PROVE  k \in Ahead(ls[<<e, o>>]) /\ ls2[<<e, o>>].list[k] = ls[<<e, o>>].list[k]
    OBVIOUS
  <2>2. CASE e # d
    BY <1>12, <2>1, <2>2
  <2>3. CASE e = d
    <3>1. o = on \/ o = Other(on)
      BY OthersOf
    <3>2. o = on
      BY <1>2, <1>14, <1>20, <2>1, <2>3, <3>1
    <3>3. QED BY <1>2, <1>8, <1>13, <1>20, <2>1, <2>3, <3>2 DEF SameAhead
  <2>4. QED BY <2>2, <2>3
<1>21. QED BY <1>2, <1>15, <1>16, <1>17, <1>18, <1>19, SoundLess

LEMMA FinishProgress ==
  ASSUME NEW c, ProgressList(c), c.queue = <<>>
  PROVE  /\ ProgressList(Finished(c))
         /\ Finished(c).list = c.list \/ Finished(c).list = <<>>
<1>1. /\ c \in CallbackList /\ c.options = {"memory"} /\ c.memory \in Data \cup {NoData}
      /\ c.list \in Seq(Callback) /\ c.spent \in BOOLEAN /\ c.locked \in BOOLEAN
  BY DEF ProgressList, CallbackList
<1>2. PICK x, u : /\ x = (IF c.locked THEN <<>> ELSE c.list) /\ x \in Seq(Callback)
                  /\ u = (c.spent \/ (c.locked /\ c.memory = NoData)) /\ u \in BOOLEAN
  BY <1>1, NoCallbacks, Zenon
<1> DEFINE e == Finished(c)
<1>3. e = [c EXCEPT !.firingIndex = 0, !.memory = c.memory, !.firing = FALSE, !.list = x,
                    !.spent = u]
  BY <1>1, <1>2 DEF Finished
<1>4. /\ e.options = c.options /\ e.list = x /\ e.queue = c.queue /\ e.firing = FALSE
      /\ e.memory = c.memory /\ e \in CallbackList /\ e.firingIndex = 0
  <2> HIDE DEF e
  <2> QED BY <1>1, <1>2, <1>3 DEF CallbackList
<1> HIDE DEF e
<1>5. ProgressList(e)
  BY <1>1, <1>4 DEF ProgressList, Still
<1>6. QED BY <1>2, <1>4, <1>5 DEF e

LEMMA RewindProgress ==
  ASSUME NEW c, ProgressList(c), c.firing, c.queue # <<>>
  PROVE  ProgressList(Rewound(c)) /\ Rewound(c).list = c.list /\ Rewound(c).firing
<1>1. c \in CallbackList /\ c.options = {"memory"} /\ c.queue \in Seq(Data)
  BY DEF ProgressList
<1>2. PICK q, v : /\ q = Tail(c.queue) /\ q \in Seq(Data) /\ q \in Seq(Datum)
                  /\ v = Head(c.queue) /\ v \in Data /\ v \in Datum
  <2>1. c.queue \in Seq(Datum)
    BY <1>1 DEF CallbackList
  <2> HIDE DEF Data
  <2>2. /\ Tail(c.queue) \in Seq(Data) /\ Tail(c.queue) \in Seq(Datum)
        /\ Head(c.queue) \in Data /\ Head(c.queue) \in Datum
    BY <1>1, <2>1
  <2>3. QED BY <2>2
<1> DEFINE e == Rewound(c)
<1>3. e = [c EXCEPT !.firingIndex = 0, !.memory = v, !.queue = q]
  BY <1>2, Zenon DEF Rewound
<1>4. /\ e.options = c.options /\ e.list = c.list /\ e.queue = q /\ e.firing = c.firing
      /\ e.memory = v /\ e \in CallbackList
  <2> HIDE DEF e
  <2> QED BY <1>1, <1>2, <1>3 DEF CallbackList
<1> HIDE DEF e
<1>5. ProgressList(e)
  BY <1>1, <1>2, <1>4, DataDatum DEF ProgressList
<1>6. QED BY <1>4, <1>5 DEF e

\* A round of the loop ends: as with RoundEnds.
RoundStep(d, on, ls, s, ls2, s2) ==
    LET c == ls[<<d, on>>]
    IN  /\ c.firingIndex >= Len(c.list)
        /\ IF c.queue # <<>>
           THEN ls2 = [ls EXCEPT ![<<d, on>>] = Rewound(@)] /\ s2 = s
           ELSE ls2 = [ls EXCEPT ![<<d, on>>] = Finished(@)] /\ s2 = Front(s)

\* Nothing happens to what is to be called.
AsideEffect(ls, ls2) ==
    \A e \in Deferreds, o \in Outcomes :
        SameAhead(ls[<<e, o>>], ls2[<<e, o>>]) /\ ls2[<<e, o>>].memory = ls[<<e, o>>].memory

LEMMA RoundSound ==
  ASSUME NEW ls, NEW s, NEW st, NEW reg, NEW ar, Sound(ls, s, st, reg, ar),
         NEW d \in Deferreds, NEW on \in Ons, InLoop(d, on, s),
         NEW ls2, NEW s2, RoundStep(d, on, ls, s, ls2, s2)
  PROVE  Sound(ls2, s2, st, reg, ar) /\ Quiet(ls) /\ Quiet(ls2) /\ AsideEffect(ls, ls2)
<1> DEFINE l == <<d, on>>
           c == ls[l]
<1>1. l \in Lists /\ DOMAIN ls = Lists /\ s \in Seq(StackFrame)
  BY SoundTypes DEF Lists
<1>2. /\ c.firingIndex >= Len(c.list)
      /\ IF c.queue # <<>>
         THEN ls2 = [ls EXCEPT ![l] = Rewound(@)] /\ s2 = s
         ELSE ls2 = [ls EXCEPT ![l] = Finished(@)] /\ s2 = Front(s)
  BY DEF RoundStep
<1>3. c = ls[l] /\ c.firing /\ c \in CallbackList /\ l = <<d, on>>
  BY <1>1, InLoopFires, SoundTypes
<1>4. \A x \in Deferreds, o \in Ons : <<x, o>> \in Lists /\ (<<x, o>> = l <=> x = d /\ o = on)
  BY DEF Lists
<1>5. Quiet(ls)
  BY <1>2, QuietReached DEF Sound, InLoop
<1>6. s # <<>> /\ s[Len(s)].frame = "fire" /\ s[Len(s)].of = l
  BY DEF InLoop, FireFrame
<1> HIDE DEF l, c
<1>7. \A k \in Lists : k # l => ls2[k] = ls[k]
  BY <1>1, <1>2
<1>8. DOMAIN ls2 = Lists
  BY <1>1, <1>2
<1>9. ASSUME c.queue = <<>>, OnceLists(ls2), Phases(st, ls2, s2), AsideEffect(ls, ls2),
             \A x \in Deferreds : ProgressList(ls2[<<x, "progress">>]),
             ls2[l].list = c.list \/ ls2[l].list = <<>>
      PROVE  Sound(ls2, s2, st, reg, ar)
  <2>1. s2 = Front(s)
    BY <1>2, <1>9
  <2>2. /\ s2 \in Seq(StackFrame) /\ Len(s2) = Len(s) - 1 /\ Len(s) \in Nat /\ Len(s) >= 1
        /\ DOMAIN s2 = 1 .. Len(s) - 1 /\ DOMAIN s = 1 .. Len(s)
        /\ \A k \in 1 .. Len(s) - 1 : s2[k] = s[k]
    BY <1>1, <1>6, <2>1, FrontFacts
  <2>3. \A k \in Lists : ls2[k].list = ls[k].list \/ ls2[k].list = <<>>
    BY <1>3, <1>7, <1>9
  <2>4. ProgressLists(ls2, reg)
    BY <1>9, <2>3, LessProgress DEF Sound
  <2>5. AllFit(ls2, reg, ar)
    BY <1>9, AllFitSame DEF Sound, AsideEffect
  <2>6. WhenAlone(ls2, s2)
    <3>1. WhenAlone(ls2, s)
      BY <1>1, <2>3, AloneLess DEF Sound
    <3>2. /\ Len(s2) \in Nat /\ DOMAIN s2 = 1 .. Len(s2) /\ Len(s2) <= Len(s)
          /\ \A k \in DOMAIN s2 : s2[k] = s[k]
      BY <2>2
    <3>3. QED BY <1>1, <3>1, <3>2, AlonePrefix
  <2>7. OneLoop(ls2, s2)
    <3>1. OneLoop(ls, s)
      BY DEF Sound
    <3>2. SUFFICES ASSUME NEW k \in DOMAIN s2, s2[k].frame = "fire"
                   PROVE  /\ ls2[s2[k].of].firing
                          /\ \A j \in DOMAIN s2 :
                                s2[j].frame = "fire" /\ s2[j].of = s2[k].of => j = k
      BY DEF OneLoop
    <3>3. k \in DOMAIN s /\ s2[k] = s[k] /\ k # Len(s) /\ Len(s) \in DOMAIN s
      BY <2>2
    <3>4. s[k].of # l
      BY <1>6, <3>1, <3>2, <3>3 DEF OneLoop
    <3>5. ls[s[k].of].firing /\ s[k].of \in Lists
      BY <1>1, <3>1, <3>2, <3>3 DEF OneLoop, StackFrame
    <3>6. ls2[s2[k].of].firing
      BY <1>7, <3>3, <3>4, <3>5
    <3>7. ASSUME NEW j \in DOMAIN s2, s2[j].frame = "fire", s2[j].of = s2[k].of PROVE j = k
      <4>1. j \in DOMAIN s /\ s2[j] = s[j]
        BY <2>2
      <4>2. QED BY <3>1, <3>2, <3>3, <3>7, <4>1 DEF OneLoop
    <3>8. QED BY <3>6, <3>7
  <2>8. QED BY <1>8, <1>9, <2>2, <2>4, <2>5, <2>6, <2>7 DEF Sound
<1>10. CASE on = "progress"
  <2>1. on \notin Outcomes
    BY <1>10, OthersOf
  <2>2. ProgressList(c)
    BY <1>3, <1>10 DEF Sound, ProgressLists
  <2>3. \A x \in Deferreds, o \in Outcomes : ls2[<<x, o>>] = ls[<<x, o>>]
    BY <1>4, <1>7, <2>1, OthersOf
  <2>4. Phases(st, ls2, s2)
    BY <1>5, <2>3, PhasesKept DEF Sound
  <2>5. OnceLists(ls2)
    BY <2>3 DEF Sound, OnceLists
  <2>6. AsideEffect(ls, ls2)
    BY <2>3, SameLists DEF AsideEffect
  <2>7. Quiet(ls2)
    BY <1>5, <2>3 DEF Quiet
  <2>8. \A x \in Deferreds : x # d => ProgressList(ls2[<<x, "progress">>])
    BY <1>4, <1>7, OthersOf DEF Sound, ProgressLists
  <2>9. ASSUME ProgressList(ls2[l]) PROVE \A x \in Deferreds : ProgressList(ls2[<<x, "progress">>])
    BY <1>3, <1>10, <2>8, <2>9
  <2>10. CASE c.queue = <<>>
    <3>1. ls2[l] = Finished(c)
      BY <1>1, <1>2, <1>3, <2>10
    <3>2. ProgressList(ls2[l]) /\ (ls2[l].list = c.list \/ ls2[l].list = <<>>)
      BY <2>2, <2>10, <3>1, FinishProgress
    <3>3. QED BY <1>5, <1>9, <2>4, <2>5, <2>6, <2>7, <2>9, <2>10, <3>2
  <2>11. CASE c.queue # <<>>
    <3>1. ls2[l] = Rewound(c) /\ s2 = s
      BY <1>1, <1>2, <1>3, <2>11
    <3>2. ProgressList(ls2[l]) /\ ls2[l].list = c.list /\ ls2[l].firing
      BY <1>3, <2>2, <2>11, <3>1, RewindProgress
    <3>3. \A k \in Lists : ls2[k].list = ls[k].list /\ (ls[k].firing => ls2[k].firing)
      BY <1>3, <1>7, <3>2
    <3>4. \A x \in Deferreds, o \in Outcomes : \A k \in Ahead(ls2[<<x, o>>]) :
             k \in Ahead(ls[<<x, o>>]) /\ ls2[<<x, o>>].list[k] = ls[<<x, o>>].list[k]
      BY <2>3
    <3>5. Sound(ls2, s, st, reg, ar)
      BY <1>8, <2>4, <2>5, <2>9, <3>1, <3>2, <3>3, <3>4, SoundLess
    <3>6. QED BY <1>5, <2>6, <2>7, <3>1, <3>5
  <2>12. QED BY <2>10, <2>11
<1>11. CASE on \in Outcomes
  <2>1. st[d] = Final(on) /\ GoingList(c) /\ OffList(ls[<<d, Other(on)>>])
    BY <1>3, <1>5, <1>11, GoingReached
  <2>2. OnceList(c)
    BY <1>3, <1>11 DEF Sound, OnceLists
  <2>3. c.queue = <<>>
    BY <2>1 DEF GoingList
  <2>4. ls2[l] = Finished(c)
    BY <1>1, <1>2, <1>3, <2>3
  <2>5. OnceList(ls2[l]) /\ FiredList(ls2[l]) /\ ls2[l].memory = c.memory
    BY <2>1, <2>2, <2>4, FinishGoing
  <2>6. Ahead(c) = {} /\ Ahead(ls2[l]) = {} /\ ls2[l].list = <<>>
    <3>1. c.list \in Seq(Callback) /\ c.firingIndex \in Nat
      BY <2>2 DEF OnceList, CallbackList
    <3>4. \A k \in DOMAIN c.list : ~(k > c.firingIndex)
      BY <1>2, <3>1
    <3>2. Ahead(c) = {}
      BY <3>4 DEF Ahead
    <3>3. QED BY <2>5, <3>2 DEF FiredList, Ahead
  <2>7. \A x \in Deferreds, o \in Outcomes : ~(x = d /\ o = on) => ls2[<<x, o>>] = ls[<<x, o>>]
    BY <1>4, <1>7, OthersOf
  <2>8. \A x \in Deferreds, o \in Outcomes : x = d /\ o = on => <<x, o>> = l
    BY <1>3
  <2>9. AsideEffect(ls, ls2)
    <3>1. SameAhead(c, ls2[l])
      BY <2>6 DEF SameAhead
    <3>2. SUFFICES ASSUME NEW x \in Deferreds, NEW o \in Outcomes
                   PROVE  /\ SameAhead(ls[<<x, o>>], ls2[<<x, o>>])
                          /\ ls2[<<x, o>>].memory = ls[<<x, o>>].memory
      BY DEF AsideEffect
    <3>3. CASE x = d /\ o = on
      BY <1>3, <2>5, <2>8, <3>1, <3>3
    <3>4. CASE ~(x = d /\ o = on)
      BY <2>7, <3>4, SameLists
    <3>5. QED BY <3>3, <3>4
  <2>10. OnceLists(ls2)
    BY <2>5, <2>7, <2>8 DEF Sound, OnceLists
  <2>11. Quiet(ls2)
    <3>1. ~StartingList(d, ls2[l])
      BY <2>5 DEF StartingList, FiredList, Still
    <3>2. QED BY <1>5, <2>7, <2>8, <3>1 DEF Quiet
  <2>12. Phases(st, ls2, s2)
    <3>1. SUFFICES ASSUME NEW x \in Deferreds PROVE Phase(x, st, ls2, s2)
      BY DEF Phases
    <3>2. CASE x # d
      <4>1. \A o \in Outcomes : ls2[<<x, o>>] = ls[<<x, o>>]
        BY <2>7, <3>2
      <4>2. QED BY <1>5, <4>1, PhaseKept DEF Sound
    <3>3. CASE x = d
      <4>1. ls2[<<d, Other(on)>>] = ls[<<d, Other(on)>>]
        BY <1>11, <2>7, OthersOf
      <4>2. SettledPhase(d, on, st, ls2)
        BY <1>3, <2>1, <2>5, <4>1 DEF SettledPhase
      <4>3. QED BY <1>11, <3>3, <4>2 DEF Phase
    <3>4. QED BY <3>2, <3>3
  <2>13. \A x \in Deferreds : ProgressList(ls2[<<x, "progress">>])
    <3>1. \A x \in Deferreds : ls2[<<x, "progress">>] = ls[<<x, "progress">>]
      BY <1>4, <1>7, <1>11, OthersOf
    <3>2. QED BY <3>1 DEF Sound, ProgressLists
  <2>14. QED BY <1>5, <1>9, <2>3, <2>6, <2>9, <2>10, <2>11, <2>12, <2>13
<1>12. QED BY <1>10, <1>11, OthersOf

\* What is still quiet.
LEMMA QuietKept ==
  ASSUME NEW ls, NEW s, NEW st, NEW ls2, NEW s2, Phases(st, ls, s), Quiet(ls),
         Phases(st, ls2, s2),
         \A d \in Deferreds, on \in Outcomes : ls2[<<d, on>>].memory = ls[<<d, on>>].memory
  PROVE  Quiet(ls2)
<1>1. SUFFICES ASSUME NEW d \in Deferreds, NEW on \in Outcomes, StartingList(d, ls2[<<d, on>>])
               PROVE  FALSE
  BY DEF Quiet
<1>2. ~FreshPhase(d, st, ls2)
  BY <1>1 DEF FreshPhase, StartingList, FreshList
<1>3. \A o \in Outcomes : ~SettledPhase(d, o, st, ls2)
  <2>1. SUFFICES ASSUME NEW o \in Outcomes, SettledPhase(d, o, st, ls2) PROVE FALSE
    OBVIOUS
  <2>2. ~OffList(ls2[<<d, on>>])
    BY <1>1 DEF StartingList, OffList
  <2>3. ~FiredList(ls2[<<d, on>>])
    BY <1>1 DEF StartingList, FiredList, Still
  <2>4. ~GoingList(ls2[<<d, on>>])
    BY <1>1 DEF StartingList, GoingList, Starts, Prologue
  <2>5. on = o \/ on = Other(o)
    BY OthersOf
  <2>6. QED BY <2>1, <2>2, <2>3, <2>4, <2>5 DEF SettledPhase
<1>4. st[d] = "pending"
  BY <1>2, <1>3 DEF Phases, Phase, StartingPhase
<1>5. ls[<<d, on>>].memory = NoData
  BY <1>4, QuietPhases DEF FreshPhase, FreshList
<1>6. QED BY <1>1, <1>5, DataDatum DEF StartingList

\* The memory of a list tells whether it was fired.
LEMMA MemoryOf ==
  ASSUME NEW ls, NEW s, NEW st, NEW reg, NEW ar, Sound(ls, s, st, reg, ar), Quiet(ls),
         NEW d \in Deferreds, NEW on \in Outcomes
  PROVE  /\ ls[<<d, on>>].memory \in Data <=> st[d] = Final(on)
         /\ ls[<<d, on>>].memory = NoData <=> st[d] # Final(on)
         /\ Decided(d, ls) <=> st[d] \notin {"unused", "pending"}
<1>1. \A o \in Outcomes : SettledPhase(d, o, st, ls) =>
         /\ st[d] = Final(o) /\ ls[<<d, o>>].memory \in Data
         /\ ls[<<d, Other(o)>>].memory = NoData
  BY DEF SettledPhase, GoingList, FiredList, OffList
<1>2. FreshPhase(d, st, ls) =>
         st[d] \in {"unused", "pending"} /\ \A o \in Outcomes : ls[<<d, o>>].memory = NoData
  BY DEF FreshPhase, FreshList
<1>3. CASE FreshPhase(d, st, ls)
  BY <1>2, <1>3, DataDatum, OthersOf DEF Decided
<1>4. CASE \E o \in Outcomes : SettledPhase(d, o, st, ls)
  <2>1. PICK o \in Outcomes : SettledPhase(d, o, st, ls)
    BY <1>4
  <2>2. st[d] = Final(o) /\ ls[<<d, o>>].memory \in Data /\ ls[<<d, Other(o)>>].memory = NoData
    BY <1>1, <2>1
  <2>3. on = o \/ on = Other(o)
    BY OthersOf
  <2>4. Decided(d, ls) /\ st[d] \notin {"unused", "pending"}
    BY <2>2, DataDatum, OthersOf DEF Decided
  <2>5. CASE on = o
    BY <2>2, <2>4, <2>5, DataDatum
  <2>6. CASE on = Other(o)
    <3>1. Final(on) # Final(o)
      BY <2>6, OthersOf
    <3>2. QED BY <2>2, <2>4, <2>6, <3>1, DataDatum
  <2>7. QED BY <2>3, <2>5, <2>6
<1>5. QED BY <1>3, <1>4, QuietPhases DEF Sound

-----------------------------------------------------------------------------
(* The frames, from one stack to another.                                  *)

LEMMA RestsSame ==
  ASSUME NEW s, NEW s2, NEW k \in Nat, NEW hk, NEW md, NEW src, NEW ar,
         \A j \in 1 .. k : s2[j] = s[j], k >= 1, RestsOn(s, k, hk, md, src, ar)
  PROVE  RestsOn(s2, k, hk, md, src, ar)
<1>1. s2[k] = s[k] /\ \A j \in 1 .. k - 1 : s2[j] = s[j]
  OBVIOUS
<1>2. k > 1 => s2[k - 1] = s[k - 1]
  OBVIOUS
<1>3. k = 2 => s2[1] = s[1] /\ s2[2] = s[2]
  OBVIOUS
<1>4. QED BY <1>1, <1>2, <1>3 DEF RestsOn

LEMMA FramesPrefix ==
  ASSUME NEW s, NEW s2, NEW hk, NEW md, NEW src, NEW ar, Frames(s, hk, md, src, ar),
         Len(s2) \in Nat, Len(s) \in Nat, DOMAIN s = 1 .. Len(s), DOMAIN s2 = 1 .. Len(s2),
         Len(s2) <= Len(s), \A k \in DOMAIN s2 : s2[k] = s[k]
  PROVE  Frames(s2, hk, md, src, ar)
<1>1. SUFFICES ASSUME NEW k \in DOMAIN s2 PROVE RestsOn(s2, k, hk, md, src, ar)
  BY DEF Frames
<1>2. k \in Nat /\ k >= 1 /\ k \in DOMAIN s /\ \A j \in 1 .. k : s2[j] = s[j]
  OBVIOUS
<1>3. RestsOn(s, k, hk, md, src, ar)
  BY <1>2 DEF Frames
<1>4. QED BY <1>2, <1>3, RestsSame

LEMMA FramesPush ==
  ASSUME NEW s \in Seq(StackFrame), NEW f, NEW hk, NEW md, NEW src, NEW ar,
         Frames(s, hk, md, src, ar),
         RestsOn(Append(s, f), Len(s) + 1, hk, md, src, ar)
  PROVE  Frames(Append(s, f), hk, md, src, ar)
<1> DEFINE s2 == Append(s, f)
<1>1. /\ Len(s) \in Nat /\ DOMAIN s = 1 .. Len(s) /\ DOMAIN s2 = 1 .. Len(s) + 1
      /\ \A k \in 1 .. Len(s) : s2[k] = s[k]
  OBVIOUS
<1> HIDE DEF s2
<1>2. SUFFICES ASSUME NEW k \in DOMAIN s2 PROVE RestsOn(s2, k, hk, md, src, ar)
  BY DEF Frames, s2
<1>3. CASE k = Len(s) + 1
  BY <1>3 DEF s2
<1>4. CASE k # Len(s) + 1
  <2>1. k \in Nat /\ k >= 1 /\ k \in DOMAIN s /\ \A j \in 1 .. k : s2[j] = s[j]
    BY <1>1, <1>4
  <2>2. RestsOn(s, k, hk, md, src, ar)
    BY <2>1 DEF Frames
  <2>3. QED BY <2>1, <2>2, RestsSame
<1>5. QED BY <1>3, <1>4

LEMMA FramesPushFire ==
  ASSUME NEW s \in Seq(StackFrame), NEW l \in Lists, NEW hk, NEW md, NEW src, NEW ar,
         Frames(s, hk, md, src, ar)
  PROVE  Frames(Append(s, FireFrame(l)), hk, md, src, ar)
<1>1. Append(s, FireFrame(l))[Len(s) + 1].frame = "fire"
  BY Frame1, AppendProperties
<1>2. RestsOn(Append(s, FireFrame(l)), Len(s) + 1, hk, md, src, ar)
  BY <1>1 DEF RestsOn
<1>3. QED BY <1>2, FramesPush

LEMMA DueMore ==
  ASSUME NEW t, NEW src, NEW src2, NEW md \in [Deferreds -> Nat], NEW md2 \in [Deferreds -> Nat],
         Due(t, src, md),
         \A d \in Deferreds : md[d] <= md2[d] /\ (src[d] # 0 => src2[d] # 0)
  PROVE  Due(t, src2, md2)
<1>1. t.to \in Deferreds /\ t.depth \in 0 .. md[t.to] /\ md[t.to] \in Nat /\ md2[t.to] \in Nat
      /\ md[t.to] <= md2[t.to] /\ src2[t.to] # 0
  BY DEF Due
<1>2. QED BY <1>1 DEF Due

LEMMA FramesMore ==
  ASSUME NEW s, s \in Seq(StackFrame), NEW hk, NEW hk2, NEW src, NEW src2, NEW ar, NEW ar2,
         NEW md \in [Deferreds -> Nat], NEW md2 \in [Deferreds -> Nat],
         Frames(s, hk, md, src, ar), hk \subseteq hk2,
         \A d \in Deferreds : md[d] <= md2[d] /\ (src[d] # 0 => src2[d] # 0),
         \A k \in DOMAIN s : s[k].frame = "handler" => md2[s[k].to] = md[s[k].to],
         \A d \in Deferreds : ar[d] # <<>> => ar2[d] # <<>>
  PROVE  Frames(s, hk2, md2, src2, ar2)
<1>1. SUFFICES ASSUME NEW k \in DOMAIN s PROVE RestsOn(s, k, hk2, md2, src2, ar2)
  BY DEF Frames
<1>2. RestsOn(s, k, hk, md, src, ar)
  BY DEF Frames
<1>3. s[k].frame = "handler" => k = 2 /\ s[1] = ProcessFrame(s[2].to, md2[s[2].to])
  <2>1. SUFFICES ASSUME s[k].frame = "handler"
                 PROVE  k = 2 /\ s[1] = ProcessFrame(s[2].to, md2[s[2].to])
    OBVIOUS
  <2>2. k = 2 /\ s[1] = ProcessFrame(s[2].to, md[s[2].to])
    BY <1>2, <2>1 DEF RestsOn
  <2>3. md2[s[2].to] = md[s[2].to]
    BY <2>1, <2>2
  <2>4. QED BY <2>2, <2>3
<1>4. s[k].frame = "process" => Due(s[k], src2, md2)
  BY <1>2, DueMore, ZenonT(60) DEF RestsOn
<1>5. s[k].frame = "when" => ar2[s[k].to] # <<>>
  <2>1. s[k].frame = "when" => s[k].to \in Deferreds
    BY DEF StackFrame
  <2>2. QED BY <1>2, <2>1 DEF RestsOn
<1>6. QED BY <1>2, <1>3, <1>4, <1>5 DEF RestsOn

-----------------------------------------------------------------------------
(* When, from one state to another.                                        *)

\* The frames of `when' stay where they are.
SameWhen(s, s2) ==
    /\ \A k \in DOMAIN s : s[k].frame = "when" => k \in DOMAIN s2 /\ s2[k] = s[k]
    /\ \A k \in DOMAIN s2 : s2[k].frame = "when" => k \in DOMAIN s /\ s2[k] = s[k]

LEMMA UnadoptedSame ==
  ASSUME NEW s, NEW s2, SameWhen(s, s2), NEW m
  PROVE  Unadopted(m, s2) = Unadopted(m, s)
BY DEF SameWhen, Unadopted

LEMMA SameWhenPush ==
  ASSUME NEW s \in Seq(StackFrame), NEW f, f.frame # "when"
  PROVE  SameWhen(s, Append(s, f))
<1> DEFINE s2 == Append(s, f)
<1>1. /\ Len(s) \in Nat /\ DOMAIN s = 1 .. Len(s) /\ DOMAIN s2 = 1 .. Len(s) + 1
      /\ \A k \in 1 .. Len(s) : s2[k] = s[k]
      /\ s2[Len(s) + 1] = f
  OBVIOUS
<1> HIDE DEF s2
<1>2. QED BY <1>1 DEF SameWhen, s2

LEMMA SameWhenFront ==
  ASSUME NEW s \in Seq(StackFrame), s # <<>>, s[Len(s)].frame # "when"
  PROVE  SameWhen(s, Front(s))
<1>1. /\ Len(s) \in Nat /\ Len(s) >= 1
      /\ DOMAIN Front(s) = 1 .. Len(s) - 1 /\ DOMAIN s = 1 .. Len(s)
      /\ \A k \in 1 .. Len(s) - 1 : Front(s)[k] = s[k]
  BY FrontFacts
<1>2. QED BY <1>1 DEF SameWhen

LEMMA SameWhenNone ==
  ASSUME NEW s, NEW s2, NoWhen(s), NoWhen(s2)
  PROVE  SameWhen(s, s2)
BY DEF NoWhen, SameWhen

LEMMA SameWhenTwice ==
  ASSUME NEW s, NEW s2, NEW s3, SameWhen(s, s2), SameWhen(s2, s3)
  PROVE  SameWhen(s, s3)
BY DEF SameWhen

\* The same counts are still to be done.
SamePlaces(ls, ls2, m) ==
    \A d \in Deferreds :
        /\ Places(ls2[<<d, "done">>], Update(m)) = Places(ls[<<d, "done">>], Update(m))
        /\ Places(ls2[<<d, "fail">>], Reject(m)) = Places(ls[<<d, "fail">>], Reject(m))

LEMMA PlacesNat ==
  ASSUME NEW c, OnceList(c), NEW f
  PROVE  /\ Places(c, f) \subseteq Nat
         /\ \A k \in Places(c, f) : k \in DOMAIN c.list /\ c.list[k] = f
<1>1. c.list \in Seq(Callback)
  BY DEF OnceList, CallbackList
<1>2. DOMAIN c.list \subseteq Nat
  BY <1>1
<1>3. QED BY <1>2 DEF Places, Ahead

LEMMA PlacesAhead ==
  ASSUME NEW c, NEW e, SameAhead(c, e), NEW f
  PROVE  Places(e, f) = Places(c, f)
BY DEF SameAhead, Places

LEMMA PlacesGain ==
  ASSUME NEW c, NEW e, NEW f, Gains(c, e, f), NEW g, g # f
  PROVE  Places(e, g) = Places(c, g)
<1>1. PICK n \in Nat :
        /\ \A k \in Ahead(c) : k < n
        /\ Ahead(e) = Ahead(c) \cup {n} /\ e.list[n] = f
        /\ \A k \in Ahead(c) : e.list[k] = c.list[k]
  BY DEF Gains
<1>2. QED BY <1>1 DEF Places

LEMMA PlacesLose ==
  ASSUME NEW c, NEW e, NEW n, Loses(c, e, n), NEW g, g # c.list[n]
  PROVE  Places(e, g) = Places(c, g)
BY DEF Loses, Places

\* What an argument that is given is like.
Given(m, s, st, ar) == \A d \in Adopted(m, s, ar) : d \in Deferreds /\ st[d] # "unused"

LEMMA WaitsKept ==
  ASSUME NEW m \in Deferreds, NEW left, NEW ls, NEW s, NEW st, NEW ar,
         WaitsOf(m, left, ls, s, st, ar), Given(m, s, st, ar),
         NEW ls2, NEW s2, NEW st2, NEW ar2, SamePlaces(ls, ls2, m), SameWhen(s, s2),
         \A d \in Deferreds : st[d] # "unused" => st2[d] = st[d],
         \A on \in Outcomes : ls2[<<m, on>>].memory = ls[<<m, on>>].memory,
         ar2[m] = ar[m]
  PROVE  WaitsOf(m, left, ls2, s2, st2, ar2)
<1>1. Unadopted(m, s2) = Unadopted(m, s)
  BY UnadoptedSame
<1>2. Adopted(m, s2, ar2) = Adopted(m, s, ar)
  BY <1>1 DEF Adopted
<1>3. Updates(m, ls2) = Updates(m, ls)
  BY DEF Updates, SamePlaces
<1>4. Outstanding(m, ls2, s2) = Outstanding(m, ls, s)
  BY <1>1, <1>3 DEF Outstanding
<1>5. \A d \in Adopted(m, s, ar) : d \in Deferreds /\ st2[d] = st[d]
  BY DEF Given
<1>6. SomeRejected(m, st2, s2, ar2) <=> SomeRejected(m, st, s, ar)
  BY <1>2, <1>5 DEF SomeRejected
<1>7. Counts(m, left, ls2, s2, st2, ar2)
  BY <1>4, <1>6 DEF WaitsOf, Counts
<1>8. Decided(m, ls2) <=> Decided(m, ls)
  BY DEF Decided
<1>9. \A d \in Deferreds :
        Places(ls2[<<d, "done">>], Update(m)) # {} => d \in Adopted(m, s2, ar2)
  BY <1>2 DEF WaitsOf, SamePlaces
<1>10. \A d \in Adopted(m, s2, ar2) :
          /\ st2[d] = "pending" => Places(ls2[<<d, "done">>], Update(m)) # {}
          /\ st2[d] # "resolved" =>
                Places(ls2[<<d, "fail">>], Reject(m)) # {} \/ Decided(m, ls2)
  BY <1>2, <1>5, <1>8 DEF WaitsOf, SamePlaces
<1>11. ls2[<<m, "fail">>].memory # NoData =>
          \E d \in Deferreds : IsGiven(d, m, ar2) /\ st2[d] = "rejected"
  <2>1. "fail" \in Outcomes
    BY DEF Outcomes
  <2>2. \A d \in Deferreds : IsGiven(d, m, ar) /\ st[d] = "rejected" =>
            IsGiven(d, m, ar2) /\ st2[d] = "rejected"
    BY DEF IsGiven
  <2>3. QED BY <2>1, <2>2 DEF WaitsOf
<1>12. (ls2[<<m, "done">>].memory # NoData => left = 0) /\ (left = 0 => Decided(m, ls2))
  <2>1. "done" \in Outcomes
    BY DEF Outcomes
  <2>2. QED BY <1>8, <2>1 DEF WaitsOf
<1>13. QED BY <1>7, <1>9, <1>10, <1>11, <1>12 DEF WaitsOf

\* An argument is settled.
LEMMA WaitsSettle ==
  ASSUME NEW m \in Deferreds, NEW left \in Int, NEW ls, NEW s, NEW st, NEW ar,
         WaitsOf(m, left, ls, s, st, ar), Given(m, s, st, ar), OnceLists(ls),
         NEW d \in Deferreds, NEW on \in Outcomes, NEW ls2, SettleEffect(d, on, ls, st, ls2),
         NEW st2, st2[d] = Final(on), \A e \in Deferreds : e # d => st2[e] = st[e]
  PROVE  WaitsOf(m, left, ls2, s, st2, ar)
<1>1. \A e \in Deferreds, o \in Outcomes : e # d => ls2[<<e, o>>] = ls[<<e, o>>]
  BY DEF SettleEffect
<1>2. /\ SameAhead(ls[<<d, on>>], ls2[<<d, on>>]) /\ Ahead(ls2[<<d, Other(on)>>]) = {}
      /\ ls2[<<d, on>>].memory = ls[<<d, on>>].memory
      /\ ls2[<<d, Other(on)>>].memory = ls[<<d, Other(on)>>].memory
      /\ st[d] = "pending"
  BY DEF SettleEffect
<1>3. \A e \in Deferreds, o \in Outcomes : ls2[<<e, o>>].memory = ls[<<e, o>>].memory
  <2>1. \A o \in Outcomes : o = on \/ o = Other(on)
    BY OthersOf
  <2>2. QED BY <1>1, <1>2, <2>1
<1>4. Decided(m, ls2) <=> Decided(m, ls)
  BY <1>3 DEF Decided
<1>5. \A f : Places(ls2[<<d, on>>], f) = Places(ls[<<d, on>>], f)
  BY <1>2, PlacesAhead
<1>6. \A f : Places(ls2[<<d, Other(on)>>], f) = {}
  BY <1>2 DEF Places
<1>7. \A f : \A e \in Deferreds, o \in Outcomes :
         e # d => Places(ls2[<<e, o>>], f) = Places(ls[<<e, o>>], f)
  BY <1>1
<1>8. "done" \in Outcomes /\ "fail" \in Outcomes
  BY DEF Outcomes
<1>9. (ls2[<<m, "done">>].memory # NoData => left = 0) /\ (left = 0 => Decided(m, ls2))
  BY <1>3, <1>4, <1>8 DEF WaitsOf
<1>10. \A e \in Deferreds : st[e] = "rejected" => st2[e] = "rejected"
  BY <1>2
<1>11. ls2[<<m, "fail">>].memory # NoData =>
          \E e \in Deferreds : IsGiven(e, m, ar) /\ st2[e] = "rejected"
  BY <1>3, <1>8, <1>10 DEF WaitsOf
<1>12. \A e \in Deferreds : Places(ls2[<<e, "done">>], Update(m)) # {} =>
                            Places(ls[<<e, "done">>], Update(m)) # {}
  <2>1. SUFFICES ASSUME NEW e \in Deferreds, Places(ls2[<<e, "done">>], Update(m)) # {}
                 PROVE  Places(ls[<<e, "done">>], Update(m)) # {}
    OBVIOUS
  <2>2. CASE e # d
    BY <1>7, <1>8, <2>1, <2>2
  <2>3. CASE e = d
    <3>1. "done" = on \/ "done" = Other(on)
      BY <1>8, OthersOf
    <3>2. QED BY <1>5, <1>6, <2>1, <2>3, <3>1
  <2>4. QED BY <2>2, <2>3
<1>13. \A e \in Deferreds :
         Places(ls2[<<e, "done">>], Update(m)) # {} => e \in Adopted(m, s, ar)
  BY <1>12 DEF WaitsOf
<1>14. \A e \in Adopted(m, s, ar) :
          /\ st2[e] = "pending" => Places(ls2[<<e, "done">>], Update(m)) # {}
          /\ st2[e] # "resolved" =>
                Places(ls2[<<e, "fail">>], Reject(m)) # {} \/ Decided(m, ls2)
  <2>1. SUFFICES ASSUME NEW e \in Adopted(m, s, ar)
                 PROVE  /\ st2[e] = "pending" => Places(ls2[<<e, "done">>], Update(m)) # {}
                        /\ st2[e] # "resolved" =>
                             Places(ls2[<<e, "fail">>], Reject(m)) # {} \/ Decided(m, ls2)
    OBVIOUS
  <2>2. e \in Deferreds
    BY DEF Given
  <2>3. /\ st[e] = "pending" => Places(ls[<<e, "done">>], Update(m)) # {}
        /\ st[e] # "resolved" => Places(ls[<<e, "fail">>], Reject(m)) # {} \/ Decided(m, ls)
    BY DEF WaitsOf
  <2>4. CASE e # d
    <3>1. st2[e] = st[e]
      BY <2>2, <2>4
    <3>2. QED BY <1>4, <1>7, <1>8, <2>2, <2>3, <2>4, <3>1
  <2>5. CASE e = d
    <3>1. st2[e] # "pending"
      BY <2>5, OthersOf
    <3>2. CASE on = "done"
      BY <2>5, <3>1, <3>2 DEF Final
    <3>3. CASE on = "fail"
      BY <1>2, <1>4, <1>5, <2>3, <2>5, <3>1, <3>3
    <3>4. QED BY <3>2, <3>3 DEF Outcomes
  <2>6. QED BY <2>4, <2>5
<1>15. Updates(m, ls2) \subseteq Updates(m, ls)
  <2>1. SUFFICES ASSUME NEW p \in Deferreds \X Nat,
                        p[2] \in Places(ls2[<<p[1], "done">>], Update(m))
                 PROVE  p[2] \in Places(ls[<<p[1], "done">>], Update(m))
    BY DEF Updates
  <2>2. p[1] \in Deferreds
    BY <2>1
  <2>3. CASE p[1] # d
    BY <1>7, <1>8, <2>1, <2>2, <2>3
  <2>4. CASE p[1] = d
    <3>1. "done" = on \/ "done" = Other(on)
      BY <1>8, OthersOf
    <3>2. QED BY <1>5, <1>6, <2>1, <2>4, <3>1
  <2>5. QED BY <2>3, <2>4
<1>16. Outstanding(m, ls2, s) \in SUBSET Outstanding(m, ls, s)
  BY <1>15 DEF Outstanding
<1>17. IsFiniteSet(Outstanding(m, ls, s)) /\ left >= Cardinality(Outstanding(m, ls, s))
  BY DEF WaitsOf, Counts
<1>18. /\ IsFiniteSet(Outstanding(m, ls2, s))
       /\ Cardinality(Outstanding(m, ls2, s)) <= Cardinality(Outstanding(m, ls, s))
       /\ Cardinality(Outstanding(m, ls2, s)) = Cardinality(Outstanding(m, ls, s)) =>
             Outstanding(m, ls2, s) = Outstanding(m, ls, s)
       /\ Cardinality(Outstanding(m, ls2, s)) \in Nat
       /\ Cardinality(Outstanding(m, ls, s)) \in Nat
  BY <1>16, <1>17, FS_Subset, FS_CardinalityType
<1>19. Counts(m, left, ls2, s, st2, ar)
  <2>1. CASE d \notin Adopted(m, s, ar) \/ on = "done"
    <3>1. SomeRejected(m, st2, s, ar) <=> SomeRejected(m, st, s, ar)
      <4>1. \A e \in Adopted(m, s, ar) : st2[e] = "rejected" <=> st[e] = "rejected"
        BY <1>2, <2>1 DEF Given, Final
      <4>2. QED BY <4>1 DEF SomeRejected
    <3>2. Updates(m, ls2) = Updates(m, ls)
      <4>1. SUFFICES ASSUME NEW p \in Deferreds \X Nat,
                            p[2] \in Places(ls[<<p[1], "done">>], Update(m))
                     PROVE  p[2] \in Places(ls2[<<p[1], "done">>], Update(m))
        BY <1>15 DEF Updates
      <4>2. p[1] \in Deferreds
        BY <4>1
      <4>3. CASE p[1] # d
        BY <1>7, <1>8, <4>1, <4>2, <4>3
      <4>4. CASE p[1] = d
        <5>1. d \in Adopted(m, s, ar)
          BY <4>1, <4>4 DEF WaitsOf
        <5>2. QED BY <1>5, <2>1, <4>1, <4>4, <5>1
      <4>5. QED BY <4>3, <4>4
    <3>3. QED BY <3>1, <3>2 DEF WaitsOf, Counts, Outstanding
  <2>2. CASE d \in Adopted(m, s, ar) /\ on = "fail"
    <3>1. PICK k : k \in Places(ls[<<d, "done">>], Update(m))
      BY <1>2, <2>2 DEF WaitsOf
    <3>2. SomeRejected(m, st2, s, ar)
      BY <2>2 DEF SomeRejected, Final
    <3>3. <<d, k>> \notin Outstanding(m, ls2, s)
      <4>1. Places(ls2[<<d, "done">>], Update(m)) = {}
        BY <1>6, <2>2 DEF Other
      <4>2. d # 0
        BY DEF Deferreds
      <4>3. QED BY <4>1, <4>2 DEF Outstanding, Updates
    <3>4. <<d, k>> \in Outstanding(m, ls, s)
      <4>1. Outstanding(m, ls, s) = ({0} \X Unadopted(m, s)) \cup Updates(m, ls)
        BY DEF Outstanding
      <4>2. k \in Nat
        <5>1. OnceList(ls[<<d, "done">>])
          BY <1>8 DEF OnceLists
        <5>2. QED BY <3>1, <5>1, PlacesNat
      <4>3. QED BY <3>1, <4>1, <4>2 DEF Updates
    <3>5. left > Cardinality(Outstanding(m, ls2, s))
      BY <1>17, <1>18, <3>3, <3>4
    <3>6. QED BY <1>18, <3>2, <3>5 DEF Counts
  <2>3. QED BY <2>1, <2>2 DEF Outcomes
<1>20. QED BY <1>9, <1>11, <1>13, <1>14, <1>19 DEF WaitsOf

\* A when begins.
LEMMA NoPlaces ==
  ASSUME NEW ls, NEW reg, NEW ar, AllFit(ls, reg, ar), NEW m, ar[m] = <<>>, NEW d \in Deferreds
  PROVE  /\ Places(ls[<<d, "done">>], Update(m)) = {}
         /\ Places(ls[<<d, "fail">>], Reject(m)) = {}
<1>1. ~IsGiven(d, m, ar)
  BY DEF IsGiven
<1>2. ASSUME NEW on \in Outcomes, NEW k \in Ahead(ls[<<d, on>>])
      PROVE  ls[<<d, on>>].list[k] \notin {Update(m), Reject(m)}
  <2>1. Fits(d, on, ls[<<d, on>>].list[k], reg, ar)
    BY DEF AllFit
  <2>2. /\ Update(m).kind = "update" /\ Update(m).n = m
        /\ Reject(m).kind = "reject" /\ Reject(m).n = m
    BY DEF Update, Reject
  <2>3. QED BY <1>1, <2>1, <2>2 DEF Fits, IsRegistered
<1>3. QED BY <1>2 DEF Places, Outcomes

LEMMA AddOneElement ==
  ASSUME NEW S, IsFiniteSet(S), NEW x, x \notin S
  PROVE  IsFiniteSet(S \cup {x}) /\ Cardinality(S \cup {x}) = Cardinality(S) + 1
BY FS_AddElement, Zenon

LEMMA WaitsNew ==
  ASSUME NEW ls, NEW s, NEW st, NEW reg, NEW ar, Sound(ls, s, st, reg, ar), Quiet(ls),
         NEW m \in Deferreds, st[m] = "unused", ar[m] = <<>>, NoWhen(s), NEW st2, NEW ar2
  PROVE  WaitsOf(m, 2, ls, Append(s, WhenFrame(m, 2)), st2, ar2)
<1> DEFINE s2 == Append(s, WhenFrame(m, 2))
<1>1. s \in Seq(StackFrame)
  BY DEF Sound
<1>2. /\ Len(s) \in Nat /\ DOMAIN s = 1 .. Len(s) /\ DOMAIN s2 = 1 .. Len(s) + 1
      /\ \A k \in 1 .. Len(s) : s2[k] = s[k]
      /\ s2[Len(s) + 1] = WhenFrame(m, 2) /\ Len(s) + 1 \in DOMAIN s2
  BY <1>1
<1>3. s2[Len(s) + 1].frame = "when" /\ s2[Len(s) + 1].to = m /\ s2[Len(s) + 1].depth = 2
  BY <1>2 DEF WhenFrame
<1> HIDE DEF s2
<1>4. Unadopted(m, s2) = 1 .. 2
  <2>1. \A i \in 1 .. 2 : i <= 2
    OBVIOUS
  <2>2. QED BY <1>2, <1>3, <2>1 DEF Unadopted
<1>5. Adopted(m, s2, ar2) = {}
  <2>1. (1 .. 2) \ Unadopted(m, s2) = {}
    BY <1>4
  <2>2. QED BY <2>1 DEF Adopted
<1>6. \A d \in Deferreds : /\ Places(ls[<<d, "done">>], Update(m)) = {}
                           /\ Places(ls[<<d, "fail">>], Reject(m)) = {}
  BY NoPlaces DEF Sound
<1>7. Updates(m, ls) = {}
  <2>1. \A p \in Deferreds \X Nat : p[1] \in Deferreds
    OBVIOUS
  <2>2. QED BY <1>6, <2>1 DEF Updates
<1>8. Outstanding(m, ls, s2) = {<<0, 1>>, <<0, 2>>}
  <2>1. {0} \X (1 .. 2) = {<<0, 1>>, <<0, 2>>}
    OBVIOUS
  <2>2. QED BY <1>4, <1>7, <2>1 DEF Outstanding
<1>9. IsFiniteSet(Outstanding(m, ls, s2)) /\ Cardinality(Outstanding(m, ls, s2)) = 2
  <2>1. IsFiniteSet({<<0, 1>>}) /\ Cardinality({<<0, 1>>}) = 1
    BY FS_Singleton
  <2>2. {<<0, 1>>, <<0, 2>>} = {<<0, 1>>} \cup {<<0, 2>>} /\ <<0, 2>> \notin {<<0, 1>>}
    OBVIOUS
  <2>3. IsFiniteSet({<<0, 1>>, <<0, 2>>}) /\ Cardinality({<<0, 1>>, <<0, 2>>}) = 2
    <3>1. IsFiniteSet({<<0, 1>>} \cup {<<0, 2>>})
          /\ Cardinality({<<0, 1>>} \cup {<<0, 2>>}) = 1 + 1
      BY <2>1, <2>2, AddOneElement
    <3>2. QED BY <2>2, <3>1
  <2>4. QED BY <1>8, <2>3
<1>10. Counts(m, 2, ls, s2, st2, ar2)
  BY <1>5, <1>9 DEF Counts, SomeRejected
<1>11. ls[<<m, "done">>].memory = NoData /\ ls[<<m, "fail">>].memory = NoData
  BY MemoryOf, OthersOf DEF Outcomes
<1>12. WaitsOf(m, 2, ls, s2, st2, ar2)
  <2>1. 2 # 0
    OBVIOUS
  <2>2. QED BY <1>5, <1>6, <1>10, <1>11, <2>1, Zenon DEF WaitsOf
<1>13. QED BY <1>12 DEF s2

\* An argument is counted.
LEMMA WaitsCount ==
  ASSUME NEW m \in Deferreds, NEW left \in Int, NEW ls, NEW s, NEW st, NEW ar,
         WaitsOf(m, left, ls, s, st, ar),
         NEW ls2, NEW s2, NEW x, Adopted(m, s2, ar) = Adopted(m, s, ar),
         x \in Outstanding(m, ls, s), Outstanding(m, ls2, s2) = Outstanding(m, ls, s) \ {x},
         \A d \in Deferreds :
            Places(ls2[<<d, "done">>], Update(m)) # {} => d \in Adopted(m, s, ar),
         \A d \in Adopted(m, s, ar) :
            /\ st[d] = "pending" => Places(ls2[<<d, "done">>], Update(m)) # {}
            /\ Places(ls2[<<d, "fail">>], Reject(m)) = Places(ls[<<d, "fail">>], Reject(m)),
         ls2[<<m, "fail">>].memory = ls[<<m, "fail">>].memory,
         left # 1 => ls2[<<m, "done">>].memory = ls[<<m, "done">>].memory,
         left = 1 => Decided(m, ls2), Decided(m, ls) => Decided(m, ls2)
  PROVE  WaitsOf(m, left - 1, ls2, s2, st, ar)
<1> DEFINE X == Outstanding(m, ls, s)
           X2 == Outstanding(m, ls2, s2)
<1>1. IsFiniteSet(X) /\ left >= Cardinality(X) /\ Cardinality(X) \in Nat
      /\ IF SomeRejected(m, st, s, ar) THEN left > Cardinality(X) ELSE left = Cardinality(X)
  BY FS_CardinalityType DEF WaitsOf, Counts
<1>2. IsFiniteSet(X2) /\ Cardinality(X2) = Cardinality(X) - 1
  BY <1>1, FS_RemoveElement
<1>3. Cardinality(X) >= 1
  <2>1. Cardinality(X2) \in Nat
    BY <1>2, FS_CardinalityType
  <2>2. QED BY <1>1, <1>2, <2>1
<1>4. SomeRejected(m, st, s2, ar) <=> SomeRejected(m, st, s, ar)
  BY DEF SomeRejected
<1> HIDE DEF X, X2
<1>5. /\ left - 1 >= Cardinality(X2)
      /\ IF SomeRejected(m, st, s, ar) THEN left - 1 > Cardinality(X2)
         ELSE left - 1 = Cardinality(X2)
  <2>1. PICK a \in Nat, b \in Int : a = Cardinality(X) /\ b = left
    BY <1>1
  <2>2. Cardinality(X2) = a - 1 /\ b >= a
    BY <1>1, <1>2, <2>1
  <2>3. b - 1 >= a - 1 /\ (b > a => b - 1 > a - 1)
    BY <2>2
  <2>4. CASE SomeRejected(m, st, s, ar)
    <3>1. b > a
      BY <1>1, <2>1, <2>4
    <3>2. QED BY <2>1, <2>2, <2>3, <2>4, <3>1
  <2>5. CASE ~SomeRejected(m, st, s, ar)
    <3>1. b = a
      BY <1>1, <2>1, <2>5
    <3>2. QED BY <2>1, <2>2, <2>3, <2>5, <3>1
  <2>6. QED BY <2>4, <2>5
<1>6. Counts(m, left - 1, ls2, s2, st, ar)
  BY <1>2, <1>4, <1>5 DEF Counts, X2
<1>7. ls2[<<m, "done">>].memory # NoData => left - 1 = 0
  <2>1. CASE left = 1
    BY <2>1
  <2>2. CASE left # 1
    <3>1. ls[<<m, "done">>].memory = NoData
      <4>1. left # 0
        BY <1>1, <1>3
      <4>2. QED BY <4>1 DEF WaitsOf
    <3>2. QED BY <2>2, <3>1
  <2>3. QED BY <2>1, <2>2
<1>8. left - 1 = 0 => Decided(m, ls2)
  OBVIOUS
<1>9. \A d \in Adopted(m, s, ar) :
         st[d] # "resolved" => Places(ls2[<<d, "fail">>], Reject(m)) # {} \/ Decided(m, ls2)
  BY DEF WaitsOf
<1>10. ls2[<<m, "fail">>].memory # NoData =>
          \E d \in Deferreds : IsGiven(d, m, ar) /\ st[d] = "rejected"
  BY DEF WaitsOf
<1>11. QED BY <1>6, <1>7, <1>8, <1>9, <1>10 DEF WaitsOf

\* An argument was rejected.
LEMMA WaitsReject ==
  ASSUME NEW m \in Deferreds, NEW left, NEW ls, NEW s, NEW st, NEW ar,
         WaitsOf(m, left, ls, s, st, ar), NEW ls2, NEW s2, SameWhen(s, s2),
         \A d \in Deferreds :
            Places(ls2[<<d, "done">>], Update(m)) = Places(ls[<<d, "done">>], Update(m)),
         ls2[<<m, "done">>].memory = ls[<<m, "done">>].memory,
         Decided(m, ls2), NEW e \in Deferreds, IsGiven(e, m, ar), st[e] = "rejected",
         Given(m, s, st, ar)
  PROVE  WaitsOf(m, left, ls2, s2, st, ar)
<1>1. Unadopted(m, s2) = Unadopted(m, s)
  BY UnadoptedSame
<1>2. Adopted(m, s2, ar) = Adopted(m, s, ar)
  BY <1>1 DEF Adopted
<1>3. Updates(m, ls2) = Updates(m, ls)
  <2>1. \A p \in Deferreds \X Nat : p[1] \in Deferreds
    OBVIOUS
  <2>2. QED BY <2>1 DEF Updates
<1>4. Outstanding(m, ls2, s2) = Outstanding(m, ls, s)
  BY <1>1, <1>3 DEF Outstanding
<1>5. Counts(m, left, ls2, s2, st, ar)
  BY <1>2, <1>4 DEF WaitsOf, Counts, SomeRejected
<1>6. QED BY <1>2, <1>5 DEF WaitsOf, Given

\* when looks at an argument.
LEMMA GainsPlace ==
  ASSUME NEW c, NEW e, NEW f, Gains(c, e, f)
  PROVE  \E n \in Nat : n \notin Places(c, f) /\ Places(e, f) = Places(c, f) \cup {n}
<1>1. PICK n \in Nat :
        /\ \A k \in Ahead(c) : k < n
        /\ Ahead(e) = Ahead(c) \cup {n} /\ e.list[n] = f
        /\ \A k \in Ahead(c) : e.list[k] = c.list[k]
  BY DEF Gains
<1>2. n \notin Ahead(c)
  BY <1>1
<1>3. n \notin Places(c, f) /\ Places(e, f) = Places(c, f) \cup {n}
  BY <1>1, <1>2 DEF Places
<1>4. QED BY <1>3

\* What WhenAdopts adds to the lists of d.
AdoptEffect(d, m, ls, ls2, st) ==
    /\ \A e \in Deferreds, o \in Outcomes : e # d => ls2[<<e, o>>] = ls[<<e, o>>]
    /\ \A o \in Outcomes : ls2[<<d, o>>].memory = ls[<<d, o>>].memory
    /\ IF st[d] = "rejected" THEN ls2[<<d, "done">>] = ls[<<d, "done">>]
       ELSE Gains(ls[<<d, "done">>], ls2[<<d, "done">>], Update(m))
    /\ IF st[d] = "resolved" THEN ls2[<<d, "fail">>] = ls[<<d, "fail">>]
       ELSE Gains(ls[<<d, "fail">>], ls2[<<d, "fail">>], Reject(m))

LEMMA WaitsAdopt ==
  ASSUME NEW m \in Deferreds, NEW left \in Int, NEW ls, NEW s, NEW st, NEW ar,
         WaitsOf(m, left, ls, s, st, ar), Given(m, s, st, ar),
         NEW d \in Deferreds, NEW i \in 1 .. 2, ar[m][i] = d,
         NEW ls2, AdoptEffect(d, m, ls, ls2, st),
         NEW s2, i \in Unadopted(m, s), Unadopted(m, s2) = Unadopted(m, s) \ {i}
  PROVE  WaitsOf(m, left, ls2, s2, st, ar)
<1> DEFINE A == Adopted(m, s, ar)
           A2 == Adopted(m, s2, ar)
           X == Outstanding(m, ls, s)
           X2 == Outstanding(m, ls2, s2)
<1>1. A2 = A \cup {d}
  <2>1. d # 0
    BY DEF Deferreds
  <2>2. (1 .. 2) \ Unadopted(m, s2) = ((1 .. 2) \ Unadopted(m, s)) \cup {i}
    OBVIOUS
  <2>3. {ar[m][j] : j \in ((1 .. 2) \ Unadopted(m, s)) \cup {i}}
           = {ar[m][j] : j \in (1 .. 2) \ Unadopted(m, s)} \cup {ar[m][i]}
    OBVIOUS
  <2>4. QED BY <2>1, <2>2, <2>3 DEF Adopted
<1>2. IsFiniteSet(X) /\ left >= Cardinality(X) /\ Cardinality(X) \in Nat
      /\ IF SomeRejected(m, st, s, ar) THEN left > Cardinality(X) ELSE left = Cardinality(X)
  BY FS_CardinalityType DEF WaitsOf, Counts
<1>3. \A e \in Deferreds : e # d =>
         /\ ls2[<<e, "done">>] = ls[<<e, "done">>] /\ ls2[<<e, "fail">>] = ls[<<e, "fail">>]
  BY DEF AdoptEffect, Outcomes
<1>4. /\ IF st[d] = "rejected" THEN ls2[<<d, "done">>] = ls[<<d, "done">>]
         ELSE Gains(ls[<<d, "done">>], ls2[<<d, "done">>], Update(m))
      /\ IF st[d] = "resolved" THEN ls2[<<d, "fail">>] = ls[<<d, "fail">>]
         ELSE Gains(ls[<<d, "fail">>], ls2[<<d, "fail">>], Reject(m))
  BY DEF AdoptEffect
<1>5. \A e \in Deferreds, o \in Outcomes : ls2[<<e, o>>].memory = ls[<<e, o>>].memory
  BY DEF AdoptEffect
<1>6. <<0, i>> \in X
  BY DEF Outstanding
<1>7. \A e \in Deferreds : e # 0
  BY DEF Deferreds
<1>8. SomeRejected(m, st, s2, ar) <=> SomeRejected(m, st, s, ar) \/ st[d] = "rejected"
  BY <1>1 DEF SomeRejected
<1>9. IsFiniteSet(X \ {<<0, i>>}) /\ Cardinality(X \ {<<0, i>>}) = Cardinality(X) - 1
  BY <1>2, <1>6, FS_RemoveElement
<1>10. {0} \X Unadopted(m, s2) = ({0} \X Unadopted(m, s)) \ {<<0, i>>}
  OBVIOUS
<1>11. <<0, i>> \notin Updates(m, ls) /\ <<0, i>> \notin Updates(m, ls2)
  BY <1>7 DEF Updates
<1>12. Counts(m, left, ls2, s2, st, ar)
  <2>1. CASE st[d] = "rejected"
    <3>1. Updates(m, ls2) = Updates(m, ls)
      <4>1. \A e \in Deferreds : ls2[<<e, "done">>] = ls[<<e, "done">>]
        BY <1>3, <1>4, <2>1
      <4>2. \A p \in Deferreds \X Nat : p[1] \in Deferreds
        OBVIOUS
      <4>3. QED BY <4>1, <4>2 DEF Updates
    <3>2. X2 = X \ {<<0, i>>}
      BY <1>10, <1>11, <3>1 DEF Outstanding
    <3>3. left > Cardinality(X2)
      <4> HIDE DEF X, X2
      <4>1. QED BY <1>2, <1>9, <3>2
    <3>4. SomeRejected(m, st, s2, ar)
      BY <1>8, <2>1
    <3>5. left >= Cardinality(X2)
      <4> HIDE DEF X, X2
      <4>1. Cardinality(X2) \in Int
        BY <1>2, <1>9, <3>2
      <4>2. QED BY <3>3, <4>1
    <3>6. QED BY <1>9, <3>2, <3>3, <3>4, <3>5 DEF Counts
  <2>2. CASE st[d] # "rejected"
    <3>1. PICK n \in Nat : /\ n \notin Places(ls[<<d, "done">>], Update(m))
                           /\ Places(ls2[<<d, "done">>], Update(m))
                                = Places(ls[<<d, "done">>], Update(m)) \cup {n}
      BY <1>4, <2>2, GainsPlace
    <3>2. Updates(m, ls2) = Updates(m, ls) \cup {<<d, n>>}
      <4>1. SUFFICES ASSUME NEW p \in Deferreds \X Nat
                     PROVE  p[2] \in Places(ls2[<<p[1], "done">>], Update(m)) <=>
                              p[2] \in Places(ls[<<p[1], "done">>], Update(m)) \/ p = <<d, n>>
        BY DEF Updates
      <4>2. p[1] \in Deferreds /\ p = <<p[1], p[2]>>
        OBVIOUS
      <4>3. CASE p[1] = d
        BY <3>1, <4>2, <4>3
      <4>4. CASE p[1] # d
        <5>1. ls2[<<p[1], "done">>] = ls[<<p[1], "done">>]
          BY <1>3, <4>2, <4>4
        <5>2. p # <<d, n>>
          BY <4>4
        <5>3. QED BY <5>1, <5>2
      <4>5. QED BY <4>3, <4>4
    <3>3. <<d, n>> \notin Updates(m, ls)
      BY <3>1 DEF Updates
    <3>4. <<d, n>> \notin {0} \X Unadopted(m, s)
      BY <1>7
    <3>5. X2 = (X \ {<<0, i>>}) \cup {<<d, n>>} /\ <<d, n>> \notin X \ {<<0, i>>}
      <4>1. X = ({0} \X Unadopted(m, s)) \cup Updates(m, ls)
            /\ X2 = ({0} \X Unadopted(m, s2)) \cup Updates(m, ls2)
        BY DEF Outstanding
      <4> HIDE DEF X, X2
      <4>2. QED BY <1>10, <1>11, <3>2, <3>3, <3>4, <4>1
    <3>6. IsFiniteSet(X2) /\ Cardinality(X2) = Cardinality(X \ {<<0, i>>}) + 1
      BY <1>9, <3>5, AddOneElement
    <3>7. Cardinality(X2) = Cardinality(X)
      <4> HIDE DEF X, X2
      <4>1. QED BY <1>2, <1>9, <3>6
    <3>8. SomeRejected(m, st, s2, ar) <=> SomeRejected(m, st, s, ar)
      BY <1>8, <2>2
    <3>9. QED BY <1>2, <3>6, <3>7, <3>8 DEF Counts
  <2>3. QED BY <2>1, <2>2
<1>13. \A e \in Deferreds : Places(ls2[<<e, "done">>], Update(m)) # {} => e \in A2
  BY <1>1, <1>3 DEF WaitsOf
<1>14. Decided(m, ls2) <=> Decided(m, ls)
  BY <1>5 DEF Decided
<1>15. st[d] # "rejected" => Places(ls2[<<d, "done">>], Update(m)) # {}
  BY <1>4, GainsPlace
<1>16. st[d] # "resolved" => Places(ls2[<<d, "fail">>], Reject(m)) # {}
  BY <1>4, GainsPlace
<1>17. ASSUME NEW e \in A, e # d
       PROVE  /\ st[e] = "pending" => Places(ls2[<<e, "done">>], Update(m)) # {}
              /\ st[e] # "resolved" =>
                    Places(ls2[<<e, "fail">>], Reject(m)) # {} \/ Decided(m, ls2)
  <2>1. /\ st[e] = "pending" => Places(ls[<<e, "done">>], Update(m)) # {}
        /\ st[e] # "resolved" =>
              Places(ls[<<e, "fail">>], Reject(m)) # {} \/ Decided(m, ls)
    BY DEF WaitsOf
  <2>2. ls2[<<e, "done">>] = ls[<<e, "done">>] /\ ls2[<<e, "fail">>] = ls[<<e, "fail">>]
    BY <1>3, <1>17 DEF Given
  <2>3. QED BY <1>14, <2>1, <2>2
<1>18. \A e \in A2 :
          /\ st[e] = "pending" => Places(ls2[<<e, "done">>], Update(m)) # {}
          /\ st[e] # "resolved" =>
                Places(ls2[<<e, "fail">>], Reject(m)) # {} \/ Decided(m, ls2)
  BY <1>1, <1>15, <1>16, <1>17
<1>19. /\ ls2[<<m, "done">>].memory # NoData => left = 0
       /\ left = 0 => Decided(m, ls2)
       /\ ls2[<<m, "fail">>].memory # NoData =>
             \E e \in Deferreds : IsGiven(e, m, ar) /\ st[e] = "rejected"
  BY <1>5, <1>14 DEF WaitsOf, Outcomes
<1>20. QED BY <1>12, <1>13, <1>18, <1>19 DEF WaitsOf

-----------------------------------------------------------------------------
(* The order of the calls, from one state to another.                      *)

\* The same calls of the application are still to be done.
SameCalls(c, e) ==
    AheadCalls(e) = AheadCalls(c) /\ \A k \in AheadCalls(c) : e.list[k] = c.list[k]

LEMMA CallsAhead ==
  ASSUME NEW c, NEW e, SameAhead(c, e)
  PROVE  SameCalls(c, e)
BY DEF SameAhead, SameCalls, AheadCalls

LEMMA CallsGain ==
  ASSUME NEW c, NEW e, NEW f, Gains(c, e, f), f.kind # "call"
  PROVE  SameCalls(c, e)
<1>1. PICK n \in Nat :
        /\ \A k \in Ahead(c) : k < n
        /\ Ahead(e) = Ahead(c) \cup {n} /\ e.list[n] = f
        /\ \A k \in Ahead(c) : e.list[k] = c.list[k]
  BY DEF Gains
<1>2. QED BY <1>1 DEF SameCalls, AheadCalls

LEMMA CallsLose ==
  ASSUME NEW c, NEW e, NEW n, Loses(c, e, n), c.list[n].kind # "call"
  PROVE  SameCalls(c, e)
BY DEF Loses, SameCalls, AheadCalls

LEMMA OrderKept ==
  ASSUME OrderInv, heard' = heard, registered' = registered,
         \A d \in Deferreds, on \in Outcomes :
            /\ SameCalls(lists[<<d, on>>], lists'[<<d, on>>])
            /\ state'[d] = Final(on) <=> state[d] = Final(on)
            /\ state[d] = Final(on) => lists'[<<d, on>>].memory = lists[<<d, on>>].memory
  PROVE  OrderInv'
<1>1. HeardRegistered'
  BY DEF OrderInv, HeardRegistered
<1>2. SUFFICES ASSUME NEW d \in Deferreds, NEW on \in Outcomes PROVE OrderOf(d, on)'
  BY <1>1 DEF OrderInv
<1>3. CallsOf(d, on)' = CallsOf(d, on) /\ RegisteredFor(d, on)' = RegisteredFor(d, on)
  BY DEF CallsOf, RegisteredFor
<1>4. OrderOf(d, on)
  BY DEF OrderInv
<1>5. /\ AheadCalls(lists'[<<d, on>>]) = AheadCalls(lists[<<d, on>>])
      /\ \A k \in AheadCalls(lists[<<d, on>>]) :
            lists'[<<d, on>>].list[k] = lists[<<d, on>>].list[k]
  BY DEF SameCalls
<1>6. state'[d] = Final(Other(on)) <=> state[d] = Final(Other(on))
  BY OthersOf
<1>7. QED BY <1>3, <1>4, <1>5, <1>6 DEF OrderOf, Ordered

LEMMA OrderSettle ==
  ASSUME OrderInv, heard' = heard, registered' = registered,
         NEW d \in Deferreds, NEW on \in Outcomes, SettleEffect(d, on, lists, state, lists'),
         state'[d] = Final(on), \A e \in Deferreds : e # d => state'[e] = state[e]
  PROVE  OrderInv'
<1>1. HeardRegistered'
  BY DEF OrderInv, HeardRegistered
<1>2. SUFFICES ASSUME NEW e \in Deferreds, NEW o \in Outcomes PROVE OrderOf(e, o)'
  BY <1>1 DEF OrderInv
<1>3. CallsOf(e, o)' = CallsOf(e, o) /\ RegisteredFor(e, o)' = RegisteredFor(e, o)
  BY DEF CallsOf, RegisteredFor
<1>4. OrderOf(e, o)
  BY DEF OrderInv
<1>5. CASE e # d
  <2>1. lists'[<<e, o>>] = lists[<<e, o>>] /\ state'[e] = state[e]
    BY <1>5 DEF SettleEffect
  <2>2. QED BY <1>3, <1>4, <2>1 DEF OrderOf, Ordered
<1>6. CASE e = d
  <2>1. state[d] = "pending"
    BY DEF SettleEffect
  <2>2. CallsOf(e, o) = {}
    BY <1>4, <1>6, <2>1, OthersOf DEF OrderOf, Ordered
  <2>3. CASE o = on
    <3>1. SameCalls(lists[<<d, on>>], lists'[<<d, on>>])
      BY CallsAhead DEF SettleEffect
    <3>2. /\ AheadCalls(lists'[<<d, on>>]) = AheadCalls(lists[<<d, on>>])
          /\ \A k \in AheadCalls(lists[<<d, on>>]) :
                lists'[<<d, on>>].list[k] = lists[<<d, on>>].list[k]
      BY <3>1 DEF SameCalls
    <3>3. state[e] # Final(Other(o))
      BY <1>6, <2>1, OthersOf
    <3>4. QED BY <1>3, <1>4, <1>6, <2>2, <2>3, <3>2, <3>3 DEF OrderOf, Ordered
  <2>4. CASE o = Other(on)
    <3>1. AheadCalls(lists'[<<e, o>>]) = {}
      BY <1>6, <2>4 DEF SettleEffect, AheadCalls
    <3>2. state'[e] = Final(Other(o))
      BY <1>6, <2>4, OthersOf
    <3>3. QED BY <1>3, <2>2, <3>1, <3>2 DEF OrderOf, Ordered
  <2>5. QED BY <2>3, <2>4, OthersOf
<1>7. QED BY <1>5, <1>6

\* Calls that are to be done were registered.
LEMMA AheadRegistered ==
  ASSUME NEW ls, NEW reg, NEW ar, AllFit(ls, reg, ar), NEW d \in Deferreds, NEW on \in Outcomes,
         NEW k \in AheadCalls(ls[<<d, on>>])
  PROVE  IsRegistered(d, on, ls[<<d, on>>].list[k], reg)
BY DEF AllFit, AheadCalls, Fits

LEMMA OrderRegister ==
  ASSUME OrderInv, DeferredTypes, Sound(lists, stack, state, registered, args),
         heard' = heard, state' = state, NEW d \in Deferreds, NEW on \in Ons,
         registered' = Append(registered, [of |-> d, on |-> on]),
         AddEffect(d, on, Call(Len(registered) + 1), lists, lists', state)
  PROVE  OrderInv'
<1> DEFINE n == Len(registered) + 1
           r == [of |-> d, on |-> on]
<1>1. registered \in Seq([of : Deferreds, on : Ons]) /\ heard \in Seq([of : Lists, n : Nat, v : Data])
  BY DEF DeferredTypes
<1>2. /\ DOMAIN registered = 1 .. Len(registered) /\ Len(registered) \in Nat
      /\ DOMAIN registered' = DOMAIN registered \cup {n} /\ n \notin DOMAIN registered
      /\ \A k \in DOMAIN registered : registered'[k] = registered[k] /\ k < n
      /\ registered'[n] = r /\ n \in Nat
  BY <1>1
<1>3. Call(n).kind = "call" /\ Call(n).n = n
  BY DEF Call
<1>4. AddEffect(d, on, Call(n), lists, lists', state)
  OBVIOUS
<1>5. r.of = d /\ r.on = on /\ (\A e, o : r = [of |-> e, on |-> o] => e = d /\ o = on)
  OBVIOUS
<1>18. registered' \in Seq([of : Deferreds, on : Ons])
  BY <1>1
<1> HIDE DEF n, r
<1>6. HeardRegistered
  BY DEF OrderInv
<1>7. HeardRegistered'
  BY <1>2, <1>6 DEF HeardRegistered
<1>8. SUFFICES ASSUME NEW e \in Deferreds, NEW o \in Outcomes PROVE OrderOf(e, o)'
  BY <1>7 DEF OrderInv
<1>9. CallsOf(e, o)' = CallsOf(e, o)
  BY DEF CallsOf
<1>10. OrderOf(e, o)
  BY DEF OrderInv
<1>11. RegisteredFor(e, o)' =
         IF e = d /\ o = on THEN RegisteredFor(e, o) \cup {n} ELSE RegisteredFor(e, o)
  <2>1. RegisteredFor(e, o)' = {k \in DOMAIN registered \cup {n} :
                                   registered'[k] = [of |-> e, on |-> o]}
    BY <1>2 DEF RegisteredFor
  <2>2. RegisteredFor(e, o) = {k \in DOMAIN registered : registered'[k] = [of |-> e, on |-> o]}
    BY <1>2 DEF RegisteredFor
  <2>3. registered'[n] = [of |-> e, on |-> o] <=> e = d /\ o = on
    BY <1>2, <1>5 DEF r
  <2>4. QED BY <2>1, <2>2, <2>3
<1>12. lists'[<<e, o>>].memory = lists[<<e, o>>].memory
  BY <1>4 DEF AddEffect
<1>13. CASE ~(e = d /\ o = on)
  <2>1. lists'[<<e, o>>] = lists[<<e, o>>]
    BY <1>4, <1>13 DEF AddEffect
  <2>2. QED BY <1>9, <1>10, <1>11, <1>13, <2>1 DEF OrderOf, Ordered
<1>14. CASE e = d /\ o = on /\ state[d] = Final(Other(on))
  <2>1. lists'[<<e, o>>] = lists[<<e, o>>]
    BY <1>4, <1>14 DEF AddEffect
  <2>2. /\ \A n2 \in RegisteredFor(e, o)' : state'[e] = Final(Other(o))
        /\ \A k \in CallsOf(e, o) :
              state'[e] = Final(o) /\ heard'[k].v = lists'[<<e, o>>].memory
    BY <1>10, <1>12, <1>14 DEF OrderOf, Ordered
  <2>3. QED BY <1>9, <1>10, <2>1, <2>2 DEF OrderOf, Ordered
<1>15. CASE e = d /\ o = on /\ state[d] # Final(Other(on))
  <2> DEFINE c == lists[<<e, o>>]
             b == lists'[<<e, o>>]
  <2>1. Gains(c, b, Call(n))
    BY <1>4, <1>15 DEF AddEffect
  <2>2. PICK i \in Nat :
          /\ \A k \in Ahead(c) : k < i
          /\ Ahead(b) = Ahead(c) \cup {i} /\ b.list[i] = Call(n)
          /\ \A k \in Ahead(c) : b.list[k] = c.list[k]
    BY <2>1 DEF Gains
  <2>3. \A k \in AheadCalls(c) : c.list[k].n \in DOMAIN registered
    BY AheadRegistered DEF Sound, IsRegistered
  <2>4. \A k \in CallsOf(e, o) : heard[k].n \in DOMAIN registered
    BY <1>6 DEF CallsOf, HeardRegistered
  <2>0. c = lists[<<e, o>>] /\ b = lists'[<<e, o>>]
    OBVIOUS
  <2> HIDE DEF c, b
  <2>5. /\ AheadCalls(b) = AheadCalls(c) \cup {i} /\ i \notin AheadCalls(c) /\ b.list[i].n = n
        /\ \A k \in AheadCalls(c) : k < i /\ b.list[k] = c.list[k] /\ b.list[k].n < n
    BY <1>2, <1>3, <2>2, <2>3 DEF AheadCalls
  <2>6. AheadCalls(c) \subseteq Nat /\ DOMAIN registered \subseteq Nat
    <3>1. OnceList(c)
      BY <2>0 DEF Sound, OnceLists
    <3>2. DOMAIN c.list \subseteq Nat
      <4>1. c.list \in Seq(Callback)
        BY <3>1 DEF OnceList, CallbackList
      <4>2. QED BY <4>1
    <3>3. QED BY <1>2, <3>2 DEF AheadCalls, Ahead
  <2>7. \A j, k \in AheadCalls(b) : j < k => b.list[j].n < b.list[k].n
    <3>1. SUFFICES ASSUME NEW j \in AheadCalls(b), NEW k \in AheadCalls(b), j < k
                   PROVE  b.list[j].n < b.list[k].n
      OBVIOUS
    <3>2. j \in AheadCalls(c)
      BY <2>5, <2>6, <3>1
    <3>3. CASE k \in AheadCalls(c)
      BY <1>10, <2>0, <2>5, <3>1, <3>2, <3>3 DEF OrderOf, Ordered
    <3>4. CASE k = i
      BY <2>5, <3>2, <3>4
    <3>5. QED BY <2>5, <3>3, <3>4
  <2>8. \A j \in CallsOf(e, o) : \A k \in AheadCalls(b) : heard[j].n < b.list[k].n
    <3>1. \A j \in CallsOf(e, o) : heard[j].n < n
      BY <1>2, <2>4
    <3>2. \A j \in CallsOf(e, o) : \A k \in AheadCalls(c) : heard[j].n < c.list[k].n
      BY <1>10, <2>0 DEF OrderOf, Ordered
    <3>3. QED BY <2>5, <3>1, <3>2
  <2>9. \A k \in RegisteredFor(e, o)' :
           \/ \E j \in CallsOf(e, o) : heard[j].n = k
           \/ \E j \in AheadCalls(b) : b.list[j].n = k
    <3>1. SUFFICES ASSUME NEW k \in RegisteredFor(e, o)'
                   PROVE  \/ \E j \in CallsOf(e, o) : heard[j].n = k
                          \/ \E j \in AheadCalls(b) : b.list[j].n = k
      OBVIOUS
    <3>2. CASE k = n
      BY <2>5, <3>2
    <3>3. CASE k # n
      <4>1. k \in RegisteredFor(e, o)
        BY <1>11, <3>1, <3>3
      <4>2. \/ \E j \in CallsOf(e, o) : heard[j].n = k
            \/ \E j \in AheadCalls(c) : c.list[j].n = k
        BY <1>10, <1>15, <2>0, <4>1 DEF OrderOf, Ordered
      <4>3. QED BY <2>5, <4>2
    <3>4. QED BY <3>2, <3>3
  <2>10. \A k \in CallsOf(e, o) : state[e] = Final(o) /\ heard[k].v = c.memory
    BY <1>10, <2>0 DEF OrderOf, Ordered
  <2>11. \A j, k \in CallsOf(e, o) : j < k => heard[j].n < heard[k].n
    BY <1>10 DEF OrderOf, Ordered
  <2>12. QED BY <1>9, <1>12, <2>0, <2>7, <2>8, <2>9, <2>10, <2>11 DEF OrderOf, Ordered
<1>16. QED BY <1>13, <1>14, <1>15

LEMMA OrderCallback ==
  ASSUME OrderInv, DeferredTypes, Sound(lists, stack, state, registered, args),
         registered' = registered, state' = state, NEW d \in Deferreds, NEW on \in Ons,
         NEW k0, k0 = lists[<<d, on>>].firingIndex + 1, k0 \in DOMAIN lists[<<d, on>>].list,
         NEW f, f = lists[<<d, on>>].list[k0], f.kind = "call",
         heard' = Append(heard, [of |-> <<d, on>>, n |-> f.n, v |-> lists[<<d, on>>].memory]),
         lists[<<d, on>>].memory \in Data, f.n \in Nat,
         PassEffect(d, on, lists, lists', state)
  PROVE  OrderInv'
<1> DEFINE l == <<d, on>>
           c == lists[l]
           b == lists'[l]
           h == [of |-> l, n |-> f.n, v |-> c.memory]
           i == Len(heard) + 1
<1>1. heard \in Seq([of : Lists, n : Nat, v : Data]) /\ l \in Lists
  BY DEF DeferredTypes, Lists
<1>2. h \in [of : Lists, n : Nat, v : Data]
  BY <1>1
<1>3. heard' = Append(heard, h) /\ h.of = l /\ h.n = f.n /\ h.v = c.memory
  OBVIOUS
<1>17. c = lists[<<d, on>>] /\ b = lists'[<<d, on>>] /\ l = <<d, on>>
  OBVIOUS
<1> HIDE DEF h, c, b, l
<1>4. /\ DOMAIN heard = 1 .. Len(heard) /\ Len(heard) \in Nat
      /\ DOMAIN heard' = DOMAIN heard \cup {i} /\ i \notin DOMAIN heard
      /\ \A k \in DOMAIN heard : heard'[k] = heard[k] /\ k < i
      /\ heard'[i] = h /\ i \in Nat /\ i \in DOMAIN heard'
  BY <1>1, <1>2, <1>3
<1> HIDE DEF i
<1>5. IsRegistered(d, on, f, registered)
  <2>1. CASE on = "progress"
    <3>1. f = Prologue(d) \/ IsRegistered(d, "progress", f, registered)
      BY <2>1 DEF Sound, ProgressLists
    <3>2. QED BY <2>1, <3>1 DEF Prologue
  <2>2. CASE on \in Outcomes
    <3>1. k0 \in AheadCalls(c)
      BY <1>17, <2>2 DEF PassEffect, Loses, AheadCalls
    <3>2. QED BY <1>17, <2>2, <3>1, AheadRegistered DEF Sound
  <2>3. QED BY <2>1, <2>2, OthersOf
<1>6. HeardRegistered'
  <2>1. HeardRegistered
    BY DEF OrderInv
  <2>2. SUFFICES ASSUME NEW k \in DOMAIN heard'
                 PROVE  /\ heard'[k].n \in DOMAIN registered
                        /\ heard'[k].of = <<registered[heard'[k].n].of,
                                            registered[heard'[k].n].on>>
    BY Zenon DEF HeardRegistered
  <2>3. CASE k = i
    <3>1. heard'[k].n = f.n /\ heard'[k].of = l
      BY <1>3, <1>4, <2>3
    <3>2. f.n \in DOMAIN registered /\ registered[f.n] = [of |-> d, on |-> on]
      BY <1>5 DEF IsRegistered
    <3>3. QED BY <1>17, <3>1, <3>2
  <2>4. CASE k # i
    BY <1>4, <2>1, <2>4 DEF HeardRegistered
  <2>5. QED BY <2>3, <2>4, Zenon
<1>7. SUFFICES ASSUME NEW e \in Deferreds, NEW o \in Outcomes PROVE OrderOf(e, o)'
  BY <1>6 DEF OrderInv
<1>8. RegisteredFor(e, o)' = RegisteredFor(e, o)
  BY DEF RegisteredFor
<1>9. OrderOf(e, o)
  BY DEF OrderInv
<1>10. CallsOf(e, o)' = IF e = d /\ o = on THEN CallsOf(e, o) \cup {i} ELSE CallsOf(e, o)
  <2>1. CallsOf(e, o)' = {k \in DOMAIN heard \cup {i} : heard'[k].of = <<e, o>>}
    BY <1>4 DEF CallsOf
  <2>2. CallsOf(e, o) = {k \in DOMAIN heard : heard'[k].of = <<e, o>>}
    BY <1>4 DEF CallsOf
  <2>3. heard'[i].of = <<e, o>> <=> e = d /\ o = on
    BY <1>3, <1>4, <1>17
  <2>4. QED BY <2>1, <2>2, <2>3
<1>11. \A k \in CallsOf(e, o) : k \in DOMAIN heard /\ heard'[k] = heard[k]
  BY <1>4 DEF CallsOf
<1>12. CASE ~(e = d /\ o = on)
  <2>1. lists'[<<e, o>>] = lists[<<e, o>>]
    BY <1>12 DEF PassEffect, OthersSame
  <2>2. CallsOf(e, o)' = CallsOf(e, o)
    BY <1>10, <1>12
  <2>3. \A j, k \in CallsOf(e, o) : j < k => heard'[j].n < heard'[k].n
    BY <1>9, <1>11 DEF OrderOf, Ordered
  <2>4. \A j \in CallsOf(e, o) : \A k \in AheadCalls(lists[<<e, o>>]) :
           heard'[j].n < lists[<<e, o>>].list[k].n
    BY <1>9, <1>11 DEF OrderOf, Ordered
  <2>5. \A n \in RegisteredFor(e, o) :
           \/ \E k \in CallsOf(e, o) : heard'[k].n = n
           \/ \E k \in AheadCalls(lists[<<e, o>>]) : lists[<<e, o>>].list[k].n = n
           \/ state[e] = Final(Other(o))
    BY <1>9, <1>11 DEF OrderOf, Ordered
  <2>6. \A k \in CallsOf(e, o) : state[e] = Final(o) /\ heard'[k].v = lists[<<e, o>>].memory
    BY <1>9, <1>11 DEF OrderOf, Ordered
  <2>7. \A j, k \in AheadCalls(lists[<<e, o>>]) :
           j < k => lists[<<e, o>>].list[j].n < lists[<<e, o>>].list[k].n
    BY <1>9, SMTT(20) DEF OrderOf, Ordered
  <2>8. Ordered(lists[<<e, o>>], CallsOf(e, o), RegisteredFor(e, o), heard', state[e], o)
    BY <2>3, <2>4, <2>5, <2>6, <2>7 DEF Ordered
  <2>9. QED BY <1>8, <2>1, <2>2, <2>8 DEF OrderOf
<1>13. CASE e = d /\ o = on
  <2>1. /\ state[d] = Final(on) /\ b.memory = c.memory
        /\ k0 \in Ahead(c) /\ \A k \in Ahead(c) : k0 <= k
        /\ Ahead(b) = Ahead(c) \ {k0} /\ b.list = c.list
    BY <1>13, <1>17 DEF PassEffect, Loses
  <2>2. /\ k0 \in AheadCalls(c) /\ AheadCalls(b) = AheadCalls(c) \ {k0}
        /\ \A k \in AheadCalls(c) : k0 <= k /\ b.list[k] = c.list[k]
        /\ c.list[k0] = f
    BY <1>17, <2>1 DEF AheadCalls
  <2>3. AheadCalls(c) \subseteq Nat
    <3>1. OnceList(c)
      BY <1>13, <1>17 DEF Sound, OnceLists
    <3>2. c.list \in Seq(Callback)
      BY <3>1 DEF OnceList, CallbackList
    <3>3. DOMAIN c.list \subseteq Nat
      BY <3>2
    <3>4. QED BY <3>3 DEF AheadCalls, Ahead
  <2>4. /\ \A j, k \in CallsOf(e, o) : j < k => heard[j].n < heard[k].n
        /\ \A j, k \in AheadCalls(c) : j < k => c.list[j].n < c.list[k].n
        /\ \A j \in CallsOf(e, o) : \A k \in AheadCalls(c) : heard[j].n < c.list[k].n
        /\ \A n \in RegisteredFor(e, o) :
              \/ \E k \in CallsOf(e, o) : heard[k].n = n
              \/ \E k \in AheadCalls(c) : c.list[k].n = n
              \/ state[e] = Final(Other(o))
        /\ \A k \in CallsOf(e, o) : state[e] = Final(o) /\ heard[k].v = c.memory
    BY <1>9, <1>13, <1>17, ZenonT(60) DEF OrderOf, Ordered
  <2>5. CallsOf(e, o)' = CallsOf(e, o) \cup {i}
    BY <1>10, <1>13
  <2>6. \A j \in CallsOf(e, o) : heard'[j].n < f.n /\ j < i /\ heard'[j].n = heard[j].n
    BY <1>4, <1>11, <2>2, <2>4
  <2>7. heard'[i].n = f.n /\ heard'[i].v = c.memory
    BY <1>3, <1>4
  <2>8. \A j, k \in CallsOf(e, o)' : j < k => heard'[j].n < heard'[k].n
    <3>1. SUFFICES ASSUME NEW j \in CallsOf(e, o)', NEW k \in CallsOf(e, o)', j < k
                   PROVE  heard'[j].n < heard'[k].n
      OBVIOUS
    <3>2. CASE j = i
      <4>1. k \notin CallsOf(e, o)
        BY <1>4, <1>11, <3>1, <3>2
      <4>2. QED BY <1>4, <2>5, <3>1, <3>2, <4>1
    <3>3. CASE j # i /\ k = i
      BY <2>5, <2>6, <2>7, <3>3
    <3>4. CASE j # i /\ k # i
      BY <1>11, <2>4, <2>5, <3>1, <3>4
    <3>5. QED BY <3>2, <3>3, <3>4
  <2>9. \A j, k \in AheadCalls(b) : j < k => b.list[j].n < b.list[k].n
    BY <2>2, <2>4
  <2>10. \A j \in CallsOf(e, o)' : \A k \in AheadCalls(b) : heard'[j].n < b.list[k].n
    <3>1. \A k \in AheadCalls(b) : f.n < b.list[k].n
      <4>1. SUFFICES ASSUME NEW k \in AheadCalls(b) PROVE f.n < b.list[k].n
        OBVIOUS
      <4>2. k \in AheadCalls(c) /\ k # k0 /\ k0 <= k /\ b.list[k] = c.list[k]
        BY <2>2
      <4>3. k0 < k
        BY <2>2, <2>3, <4>2
      <4>4. QED BY <2>2, <2>4, <4>2, <4>3
    <3>2. \A j \in CallsOf(e, o) : \A k \in AheadCalls(b) : heard'[j].n < b.list[k].n
      BY <2>2, <2>4, <2>6
    <3>3. QED BY <2>5, <2>7, <3>1, <3>2
  <2>11. \A n \in RegisteredFor(e, o) :
              \/ \E k \in CallsOf(e, o)' : heard'[k].n = n
              \/ \E k \in AheadCalls(b) : b.list[k].n = n
              \/ state[e] = Final(Other(o))
    <3>1. SUFFICES ASSUME NEW n \in RegisteredFor(e, o)
                   PROVE  \/ \E k \in CallsOf(e, o)' : heard'[k].n = n
                          \/ \E k \in AheadCalls(b) : b.list[k].n = n
                          \/ state[e] = Final(Other(o))
      OBVIOUS
    <3>2. CASE \E k \in CallsOf(e, o) : heard[k].n = n
      BY <1>11, <2>5, <3>2
    <3>3. CASE \E k \in AheadCalls(c) : c.list[k].n = n
      <4>1. PICK k \in AheadCalls(c) : c.list[k].n = n
        BY <3>3
      <4>2. CASE k = k0
        BY <2>2, <2>5, <2>7, <4>1, <4>2
      <4>3. CASE k # k0
        BY <2>2, <4>1, <4>3
      <4>4. QED BY <4>2, <4>3
    <3>4. QED BY <2>4, <3>2, <3>3
  <2>12. \A k \in CallsOf(e, o)' : state[e] = Final(o) /\ heard'[k].v = b.memory
    BY <1>11, <1>13, <2>1, <2>4, <2>5, <2>7, ZenonT(60)
  <2>13. b = lists'[<<e, o>>]
    BY <1>13, <1>17
  <2>14. QED BY <1>8, <2>8, <2>9, <2>10, <2>11, <2>12, <2>13 DEF OrderOf, Ordered
<1>14. QED BY <1>12, <1>13

-----------------------------------------------------------------------------
(* The answers, from one state to another.                                 *)

LEMMA InSeq ==
  ASSUME NEW S, NEW q \in Seq(S), NEW k \in DOMAIN q
  PROVE  q[k] \in S
OBVIOUS

LEMMA HeedableOld ==
  ASSUME NEW an, NEW v \in 0 .. MaxOps, \A k \in DOMAIN an : an[k].v = MaxOps + k,
         Len(an) \in Nat, DOMAIN an = 1 .. Len(an)
  PROVE  Heedable(v, an)
<1>1. MaxOps \in Nat
  BY CallbacksAssumption
<1>2. v <= MaxOps + Len(an)
  BY <1>1
<1>3. \A k \in DOMAIN an : an[k].v # v
  BY <1>1
<1>4. QED BY <1>2, <1>3 DEF Heedable

LEMMA AnswersKept ==
  ASSUME AnswersInv, DeferredTypes, answers' = answers,
         \A d \in Deferreds : maxDepth'[d] \in Nat /\ maxDepth[d] <= maxDepth'[d],
         \A d \in Deferreds, on \in Outcomes :
            \/ lists'[<<d, on>>].memory = lists[<<d, on>>].memory
            \/ /\ lists'[<<d, on>>].memory \in Data
               /\ Heedable(lists'[<<d, on>>].memory, answers),
         \A k \in DOMAIN timers' :
            timers'[k].how # "progress" => Heedable(timers'[k].v, answers),
         \A k \in DOMAIN stack' :
            stack'[k].frame = "handler" => Heedable(stack'[k].v, answers)
  PROVE  AnswersInv'
<1>1. ASSUME NEW k \in DOMAIN answers
      PROVE  maxDepth'[answers[k].hook.to] > answers[k].hook.depth
             \/ Decided(answers[k].hook.to, lists')
  <2> DEFINE h == answers[k].hook
  <2>1. h.to \in Deferreds /\ h.depth \in Nat
    <3>1. answers[k] \in [hook : [to : Deferreds, depth : Nat \ {0}], v : Nat]
      <4>1. answers \in Seq([hook : [to : Deferreds, depth : Nat \ {0}], v : Nat])
        BY DEF DeferredTypes
      <4>2. QED BY <4>1, InSeq
    <3>2. QED BY <3>1
  <2>2. maxDepth[h.to] > h.depth \/ Decided(h.to, lists)
    BY DEF AnswersInv
  <2>3. maxDepth[h.to] \in Nat
    BY <2>1 DEF DeferredTypes
  <2> HIDE DEF h
  <2>4. Decided(h.to, lists) => Decided(h.to, lists')
    BY <2>1, DataDatum DEF Decided
  <2>5. maxDepth[h.to] > h.depth => maxDepth'[h.to] > h.depth
    BY <2>1, <2>3
  <2>6. QED BY <2>2, <2>4, <2>5 DEF h
<1>2. \A d \in Deferreds, on \in Outcomes : Heedable(lists'[<<d, on>>].memory, answers)
  BY DEF AnswersInv
<1>3. QED BY <1>1, <1>2 DEF AnswersInv

\* A new answer.
LEMMA HeedableMore ==
  ASSUME NEW an \in Seq([hook : [to : Deferreds, depth : Nat \ {0}], v : Nat]),
         NEW h \in [to : Deferreds, depth : Nat \ {0}],
         NEW v \in Nat, Heedable(v, an)
  PROVE  Heedable(v, Append(an, [hook |-> h, v |-> MaxOps + Len(an) + 1]))
<1> DEFINE a == [hook |-> h, v |-> MaxOps + Len(an) + 1]
           an2 == Append(an, a)
<1>1. MaxOps \in Nat
  BY CallbacksAssumption
<1>2. a \in [hook : [to : Deferreds, depth : Nat \ {0}], v : Nat]
  BY <1>1
<1>3. /\ Len(an) \in Nat /\ DOMAIN an = 1 .. Len(an)
      /\ Len(an2) = Len(an) + 1 /\ DOMAIN an2 = 1 .. Len(an) + 1
      /\ \A k \in 1 .. Len(an) : an2[k] = an[k]
      /\ an2[Len(an) + 1] = a /\ a.v = MaxOps + Len(an) + 1
  BY <1>2
<1> HIDE DEF a, an2
<1>4. v <= MaxOps + Len(an2) /\ v # MaxOps + Len(an) + 1
  BY <1>1, <1>3 DEF Heedable
<1>5. \A k \in 1 .. Len(an) : Late(k, an2) => Late(k, an)
  <2>1. SUFFICES ASSUME NEW k \in 1 .. Len(an), Late(k, an2) PROVE Late(k, an)
    OBVIOUS
  <2>2. PICK j \in 1 .. k - 1 : an2[j].hook = an2[k].hook
    BY <2>1 DEF Late
  <2>3. j \in 1 .. Len(an)
    BY <1>3
  <2>4. QED BY <1>3, <2>2, <2>3 DEF Late
<1>6. ASSUME NEW k \in DOMAIN an2, Late(k, an2) PROVE an2[k].v # v
  <2>1. CASE k = Len(an) + 1
    BY <1>3, <1>4, <2>1
  <2>2. CASE k # Len(an) + 1
    <3>1. k \in 1 .. Len(an)
      BY <1>3, <2>2
    <3>2. QED BY <1>3, <1>5, <1>6, <3>1 DEF Heedable
  <2>3. QED BY <2>1, <2>2
<1>7. QED BY <1>4, <1>6 DEF Heedable, a, an2

\* The first answer of a thenable is no late one.
LEMMA HeedableNew ==
  ASSUME NEW an \in Seq([hook : [to : Deferreds, depth : Nat \ {0}], v : Nat]),
         NEW h \in [to : Deferreds, depth : Nat \ {0}],
         \A k \in DOMAIN an : an[k].hook # h /\ an[k].v = MaxOps + k
  PROVE  Heedable(MaxOps + Len(an) + 1, Append(an, [hook |-> h, v |-> MaxOps + Len(an) + 1]))
<1> DEFINE a == [hook |-> h, v |-> MaxOps + Len(an) + 1]
           an2 == Append(an, a)
           v == MaxOps + Len(an) + 1
<1>1. MaxOps \in Nat
  BY CallbacksAssumption
<1>2. a \in [hook : [to : Deferreds, depth : Nat \ {0}], v : Nat]
  BY <1>1
<1>3. /\ Len(an) \in Nat /\ DOMAIN an = 1 .. Len(an)
      /\ Len(an2) = Len(an) + 1 /\ DOMAIN an2 = 1 .. Len(an) + 1
      /\ \A k \in 1 .. Len(an) : an2[k] = an[k]
      /\ an2[Len(an) + 1] = a /\ a.hook = h
  BY <1>2
<1> HIDE DEF a, an2
<1>4. v <= MaxOps + Len(an2)
  BY <1>1, <1>3
<1>5. ASSUME NEW k \in DOMAIN an2, Late(k, an2) PROVE an2[k].v # v
  <2>1. CASE k = Len(an) + 1
    <3>1. PICK j \in 1 .. k - 1 : an2[j].hook = an2[k].hook
      BY <1>5 DEF Late
    <3>2. j \in 1 .. Len(an)
      BY <1>3, <2>1
    <3>3. QED BY <1>3, <2>1, <3>1, <3>2
  <2>2. CASE k # Len(an) + 1
    <3>1. k \in 1 .. Len(an)
      BY <1>3, <2>2
    <3>2. an2[k].v = MaxOps + k
      BY <1>3, <3>1
    <3>3. QED BY <1>1, <1>3, <3>1, <3>2
  <2>3. QED BY <2>1, <2>2
<1>6. QED BY <1>4, <1>5 DEF Heedable, a, an2, v

-----------------------------------------------------------------------------
(* The invariant, from one state to another.                               *)

LEMMA GivenAll ==
  ASSUME CoreInv, NEW m \in Deferreds, args[m] # <<>>
  PROVE  /\ Given(m, stack, state, args) /\ Made(m) /\ source[m] = 0
         /\ args[m] \in [1 .. 2 -> 0 .. MaxDeferred] /\ DOMAIN args[m] = 1 .. 2
         /\ \A i \in 1 .. 2 : args[m][i] # 0 =>
               args[m][i] \in Deferreds /\ args[m][i] # m /\ Made(args[m][i])
<1>1. Sources
  BY DEF CoreInv
<1>2. Made(m) /\ ArgsOK(m) /\ source[m] = 0
  BY <1>1 DEF Sources
<1>3. \A i \in 1 .. 2 : args[m][i] \in 0 .. MaxDeferred
  BY <1>2 DEF ArgsOK
<1>4. \A i \in 1 .. 2 : args[m][i] # 0 => args[m][i] \in Deferreds
  BY <1>3, DeferredAssumption DEF Deferreds
<1>5. Given(m, stack, state, args)
  BY <1>2, <1>4 DEF Given, Adopted, ArgsOK, Made
<1>6. QED BY <1>2, <1>4, <1>5 DEF ArgsOK

LEMMA WaitsInvKept ==
  ASSUME CoreInv, WaitsInv, args' = args, remaining' = remaining, SameWhen(stack, stack'),
         \A m \in Deferreds : args[m] # <<>> =>
            /\ SamePlaces(lists, lists', m)
            /\ \A on \in Outcomes : lists'[<<m, on>>].memory = lists[<<m, on>>].memory,
         \A d \in Deferreds : Made(d) => state'[d] = state[d]
  PROVE  WaitsInv'
<1>1. SUFFICES ASSUME NEW m \in Deferreds
               PROVE  IF args[m] = <<>> THEN remaining[m] = 0
                      ELSE WaitsOf(m, remaining[m], lists', stack', state', args)
  BY DEF WaitsInv
<1>2. CASE args[m] = <<>>
  BY <1>2 DEF WaitsInv
<1>3. CASE args[m] # <<>>
  <2>1. WaitsOf(m, remaining[m], lists, stack, state, args)
    BY <1>3 DEF WaitsInv
  <2>2. Given(m, stack, state, args)
    BY <1>3, GivenAll
  <2>3. SamePlaces(lists, lists', m)
        /\ \A on \in Outcomes : lists'[<<m, on>>].memory = lists[<<m, on>>].memory
    BY <1>3
  <2>4. \A d \in Deferreds : state[d] # "unused" => state'[d] = state[d]
    BY DEF Made
  <2>5. WaitsOf(m, remaining[m], lists', stack', state', args)
    BY <2>1, <2>2, <2>3, <2>4, WaitsKept
  <2>6. QED BY <1>3, <2>5
<1>4. QED BY <1>2, <1>3

\* Answers that are new.
NewAnswers == answers' = answers \/ \E h \in hooks : Answering(h)

Steady ==
    /\ state' = state /\ thens' = thens /\ maxDepth' = maxDepth /\ hooks' = hooks
    /\ args' = args /\ source' = source
    /\ ops' \in 0 .. MaxOps /\ ops' >= ops
    /\ remaining' \in [Deferreds -> Int]
    /\ registered' \in Seq([of : Deferreds, on : Ons])
    /\ heard' \in Seq([of : Lists, n : Nat, v : Data])
    /\ timers' \in Seq(Timer)
    /\ \A k \in DOMAIN timers' : Due(timers'[k], source, maxDepth) /\ timers'[k].v \in Data

SameUnmade ==
    \A d \in Deferreds : ~Made(d) =>
        \A on \in Outcomes : Ahead(lists'[<<d, on>>]) = Ahead(lists[<<d, on>>])

LEMMA NewAnswersKept ==
  ASSUME DeferredTypes, Promised, NewAnswers
  PROVE  /\ answers' \in Seq([hook : [to : Deferreds, depth : Nat \ {0}], v : Nat])
         /\ Len(answers') <= MaxAnswers
         /\ \A k \in DOMAIN answers' : answers'[k].hook \in hooks /\ answers'[k].v = MaxOps + k
<1>1. /\ answers \in Seq([hook : [to : Deferreds, depth : Nat \ {0}], v : Nat])
      /\ Len(answers) <= MaxAnswers
      /\ \A k \in DOMAIN answers : answers[k].hook \in hooks /\ answers[k].v = MaxOps + k
  BY DEF DeferredTypes, Promised
<1>2. CASE answers' = answers
  BY <1>1, <1>2
<1>3. CASE \E h \in hooks : Answering(h)
  <2>1. PICK h \in hooks : Answering(h)
    BY <1>3
  <2> DEFINE a == [hook |-> h, v |-> NewAnswer]
  <2>2. h \in [to : Deferreds, depth : Nat \ {0}] /\ MaxOps \in Nat /\ MaxAnswers \in Nat
    BY CallbacksAssumption, DeferredAssumption DEF DeferredTypes
  <2>3. Len(answers) < MaxAnswers /\ answers' = Append(answers, a)
    BY <2>1 DEF Answering
  <2>4. a.hook = h /\ a.v = MaxOps + Len(answers) + 1
        /\ a \in [hook : [to : Deferreds, depth : Nat \ {0}], v : Nat]
    BY <1>1, <2>2 DEF NewAnswer
  <2> HIDE DEF a
  <2>5. /\ DOMAIN answers = 1 .. Len(answers) /\ Len(answers) \in Nat
        /\ answers' \in Seq([hook : [to : Deferreds, depth : Nat \ {0}], v : Nat])
        /\ Len(answers') = Len(answers) + 1 /\ DOMAIN answers' = 1 .. Len(answers) + 1
        /\ \A k \in 1 .. Len(answers) : answers'[k] = answers[k]
        /\ answers'[Len(answers) + 1] = a
    BY <1>1, <2>3, <2>4, AppendProperties
  <2>6. Len(answers') <= MaxAnswers
    BY <2>2, <2>3, <2>5
  <2>7. ASSUME NEW k \in DOMAIN answers'
        PROVE  answers'[k].hook \in hooks /\ answers'[k].v = MaxOps + k
    <3>1. CASE k = Len(answers) + 1
      BY <2>2, <2>4, <2>5, <3>1
    <3>2. CASE k # Len(answers) + 1
      <4>1. k \in DOMAIN answers /\ answers'[k] = answers[k]
        BY <2>5, <3>2
      <4>2. QED BY <1>1, <4>1
    <3>3. QED BY <3>1, <3>2
  <2>8. QED BY <2>5, <2>6, <2>7
<1>4. QED BY <1>2, <1>3 DEF NewAnswers

LEMMA CoreSteady ==
  ASSUME CoreInv, Steady, NewAnswers, SameUnmade,
         Sound(lists', stack', state, registered', args),
         Frames(stack', hooks, maxDepth, source, args)
  PROVE  CoreInv'
<1>1. DeferredTypes /\ Sources /\ Promised
  BY DEF CoreInv
<1>2. /\ answers' \in Seq([hook : [to : Deferreds, depth : Nat \ {0}], v : Nat])
      /\ Len(answers') <= MaxAnswers
      /\ \A k \in DOMAIN answers' : answers'[k].hook \in hooks /\ answers'[k].v = MaxOps + k
  BY <1>1, NewAnswersKept DEF Steady
<1>3. DeferredTypes'
  BY <1>1, <1>2 DEF DeferredTypes, Steady
<1>4. Promised'
  BY <1>1, <1>2 DEF Promised, Steady
<1>5. Sources'
  <2>1. ops' >= 1 \/ ~(ops >= 1)
    <3>1. ops \in Int /\ ops' \in Int /\ ops' >= ops
      BY <1>1 DEF DeferredTypes, Steady
    <3>2. QED BY <3>1
  <2>2. \A d \in Deferreds : Made(d)' <=> Made(d)
    BY DEF Made, Steady
  <2>3. \A d \in Deferreds : ArgsOK(d) => ArgsOK(d)'
    BY DEF ArgsOK, Made, Steady
  <2>4. \A d \in Deferreds : ~Made(d) => \A on \in Outcomes : Ahead(lists'[<<d, on>>]) = {}
    BY <1>1 DEF Sources, SameUnmade
  <2>5. QED BY <1>1, <2>1, <2>2, <2>3, <2>4 DEF Sources, Steady
<1>6. Sound(lists, stack, state, registered, args)' /\ Frames(stack, hooks, maxDepth, source, args)'
  BY DEF Steady
<1>7. QED BY <1>3, <1>4, <1>5, <1>6 DEF CoreInv

\* The ways a list is fired for a deferred that no `when' made, with the stack s0.
LEMMA FireCase ==
  ASSUME DInv, NEW s0, NoWhen(stack), NoWhen(s0),
         Sound(lists, s0, state, registered, args),
         Frames(s0, hooks, maxDepth, source, args), Quiet(lists),
         NEW d \in Deferreds, NEW on \in Ons, NEW v \in Data, Made(d), args[d] = <<>>,
         Fires(lists, <<d, on>>, v, s0),
         heard' = heard, registered' = registered, state' = state,
         args' = args, remaining' = remaining
  PROVE  /\ Sound(lists', stack', state, registered, args)
         /\ Frames(stack', hooks, maxDepth, source, args)
         /\ SameUnmade
         /\ OrderInv' /\ WaitsInv'
         /\ \A e \in Deferreds, o \in Outcomes :
               lists'[<<e, o>>].memory =
                  IF e = d /\ o = on /\ state[d] = "pending" THEN v ELSE lists[<<e, o>>].memory
         /\ \A k \in DOMAIN stack' :
               stack'[k].frame = "handler" => k \in DOMAIN s0 /\ stack'[k] = s0[k]
<1>1. FireStep(d, on, v, lists, s0, lists', stack')
  BY DEF FireStep, Fires
<1>2. MayFire(<<d, on>>, lists, s0)
  BY DEF MayFire, NoWhen
<1>3. /\ Sound(lists', stack', state, registered, args)
      /\ FireEffect(d, on, v, lists, lists', state)
  BY <1>1, <1>2, FireSound DEF Made
<1>4. stack' = s0 \/ stack' = Append(s0, FireFrame(<<d, on>>))
  BY DEF Fires
<1>5. s0 \in Seq(StackFrame) /\ <<d, on>> \in Lists
  BY DEF Sound, Lists
<1>6. Frames(stack', hooks, maxDepth, source, args)
  BY <1>4, <1>5, FramesPushFire
<1>7. \A e \in Deferreds, o \in Outcomes :
         /\ SameAhead(lists[<<e, o>>], lists'[<<e, o>>])
         /\ lists'[<<e, o>>].memory =
               IF e = d /\ o = on /\ state[d] = "pending" THEN v ELSE lists[<<e, o>>].memory
  BY <1>3 DEF FireEffect
<1>8. SameUnmade
  BY <1>7 DEF SameUnmade, SameAhead
<1>9. OrderInv'
  <2>1. \A e \in Deferreds, o \in Outcomes :
           /\ SameCalls(lists[<<e, o>>], lists'[<<e, o>>])
           /\ state'[e] = Final(o) <=> state[e] = Final(o)
           /\ state[e] = Final(o) => lists'[<<e, o>>].memory = lists[<<e, o>>].memory
    BY <1>7, CallsAhead, OthersOf
  <2>2. QED BY <2>1, OrderKept DEF DInv
<1>10. SameWhen(stack, stack')
         /\ \A k \in DOMAIN stack' :
               stack'[k].frame = "handler" => k \in DOMAIN s0 /\ stack'[k] = s0[k]
  <2>1. CASE stack' = s0
    BY <2>1, SameWhenNone
  <2>2. CASE stack' = Append(s0, FireFrame(<<d, on>>))
    <3> DEFINE s2 == Append(s0, FireFrame(<<d, on>>))
    <3>1. /\ Len(s0) \in Nat /\ DOMAIN s0 = 1 .. Len(s0) /\ DOMAIN s2 = 1 .. Len(s0) + 1
          /\ \A k \in 1 .. Len(s0) : s2[k] = s0[k]
          /\ s2[Len(s0) + 1].frame = "fire"
      BY <1>5, Frame1, AppendProperties
    <3> HIDE DEF s2
    <3>2. NoWhen(s2)
      BY <3>1 DEF NoWhen
    <3>3. \A k \in DOMAIN s2 : s2[k].frame = "handler" => k \in DOMAIN s0 /\ s2[k] = s0[k]
      BY <3>1
    <3>4. QED BY <2>2, <3>2, <3>3, SameWhenNone DEF s2
  <2>3. QED BY <1>4, <2>1, <2>2
<1>11. WaitsInv'
  <2>1. \A m \in Deferreds : args[m] # <<>> =>
           /\ SamePlaces(lists, lists', m)
           /\ \A o \in Outcomes : lists'[<<m, o>>].memory = lists[<<m, o>>].memory
    <3>1. SUFFICES ASSUME NEW m \in Deferreds, args[m] # <<>>
                   PROVE  /\ SamePlaces(lists, lists', m)
                          /\ \A o \in Outcomes :
                                lists'[<<m, o>>].memory = lists[<<m, o>>].memory
      OBVIOUS
    <3>2. m # d
      BY <3>1
    <3>3. SamePlaces(lists, lists', m)
      <4>1. SUFFICES ASSUME NEW e \in Deferreds
                     PROVE  /\ Places(lists'[<<e, "done">>], Update(m)) =
                               Places(lists[<<e, "done">>], Update(m))
                            /\ Places(lists'[<<e, "fail">>], Reject(m)) =
                               Places(lists[<<e, "fail">>], Reject(m))
        BY DEF SamePlaces
      <4>2. "done" \in Outcomes /\ "fail" \in Outcomes
        BY DEF Outcomes
      <4>3. SameAhead(lists[<<e, "done">>], lists'[<<e, "done">>])
        BY <1>7, <4>2
      <4>4. SameAhead(lists[<<e, "fail">>], lists'[<<e, "fail">>])
        BY <1>7, <4>2
      <4>5. QED BY <4>3, <4>4, PlacesAhead
    <3>4. QED BY <1>7, <3>2, <3>3
  <2>2. QED BY <1>10, <2>1, WaitsInvKept DEF DInv
<1>12. QED BY <1>3, <1>6, <1>7, <1>8, <1>9, <1>10, <1>11
=============================================================================
