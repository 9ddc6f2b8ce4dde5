------------------------------ MODULE Callbacks ------------------------------
(***************************************************************************)
(* jQuery.Callbacks: the lists of callbacks that promises, requests,       *)
(* animations and the ready event are made of.                             *)
(*                                                                         *)
(* JavaScript runs one piece of code at a time, but a callback may call    *)
(* back: it may add to the list that is calling it, remove itself or       *)
(* another, fire the list again, lock, empty or disable it, or throw.  So  *)
(* the call stack is part of the state: `fire' loops and the bodies of     *)
(* callbacks, each a frame, the innermost last.                            *)
(***************************************************************************)
EXTENDS Integers, Sequences, SequencesExt, Filter

CONSTANTS
    FreeLists,  \* lists the application made with jQuery.Callbacks(options)
    FreeFns,    \* the functions it puts into them
    MaxOps      \* bound: calls the application makes

ASSUME CallbacksAssumption == MaxOps \in Nat /\ FreeFns \subseteq Nat

VARIABLES
    lists,      \* the callback lists
    stack,      \* the call stack
    heard,      \* history: the calls of the application's callbacks, in order
    emptied,    \* history: free lists emptied by a callback while firing
    ops         \* history: the calls the application made

callbackVars == <<lists, stack, heard, emptied, ops>>

NoData == 0             \* memory that is undefined, false or ""
Datum == Nat \ {0}      \* what a list is fired with: the number of the call

Flags == {"once", "memory", "unique", "stopOnFalse"}

\* An element of a list: a function of the application, or one of Deferred.
Callback == [kind : {"call", "prologue", "update", "reject"}, n : Nat]
Call(n) == [kind |-> "call", n |-> n]

\* firingIndex counts the callbacks that were reached: the code's plus one.
\* A spent list is the "" that disable and lock leave in place of the array.
CallbackList ==
    [options : SUBSET Flags, list : Seq(Callback), spent : BOOLEAN,
     queue : Seq(Datum), firingIndex : Nat, firing : BOOLEAN,
     locked : BOOLEAN, memory : Datum \cup {NoData}]

NewList(options, callbacks) ==
    [options |-> options, list |-> callbacks, spent |-> FALSE, queue |-> <<>>,
     firingIndex |-> 0, firing |-> FALSE, locked |-> FALSE, memory |-> NoData]

-----------------------------------------------------------------------------
(* The operations, on a list c.                                            *)

\* fire, up to its loop: the first data is taken from the queue.
Entered(c) ==
    [c EXCEPT !.locked = @ \/ "once" \in c.options, !.firing = TRUE,
              !.memory = Head(c.queue), !.queue = Tail(c.queue)]

\* The loop goes on to the next data, from the first callback.
Rewound(c) ==
    [c EXCEPT !.firingIndex = 0, !.memory = Head(c.queue), !.queue = Tail(c.queue)]

\* fire, after its loop.
Finished(c) ==
    LET kept == IF "memory" \in c.options THEN c.memory ELSE NoData
    IN  [c EXCEPT !.firingIndex = 0, !.memory = kept, !.firing = FALSE,
                  !.list = IF c.locked THEN <<>> ELSE @,
                  !.spent = @ \/ (c.locked /\ kept = NoData)]

\* A callback returned false.
Stopped(c) == [c EXCEPT !.firingIndex = Len(c.list), !.memory = NoData]

\* Mutant of Replays: also in the middle of a firing.
ReplaysNested(c) == ~c.spent /\ c.memory # NoData

\* add calls what it adds right away, with what the list was fired with.
Replays(c) == ~c.spent /\ c.memory # NoData /\ ~c.firing

Added(c, f) ==
    LET known == "unique" \in c.options /\ f \in ToSet(c.list)
        with == [c EXCEPT !.list = IF known THEN @ ELSE Append(@, f)]
    IN  IF c.spent THEN c
        ELSE IF Replays(c)
        THEN Entered([with EXCEPT !.firingIndex = Len(c.list),
                                  !.queue = Append(@, c.memory)])
        ELSE with

\* Mutant of Removed: the firing index stays where it was.
RemovedOnly(c, f) == [c EXCEPT !.list = Filter(@, ToSet(@) \ {f})]

\* remove takes every f out, and moves the firing index back for each that
\* was reached already.
Removed(c, f) ==
    LET reached == {k \in DOMAIN c.list : k <= c.firingIndex /\ c.list[k] = f}
    IN  [c EXCEPT !.list = Filter(@, ToSet(@) \ {f}),
                  !.firingIndex = @ - Cardinality(reached)]

\* empty leaves the firing index alone.
Emptied(c) == [c EXCEPT !.list = <<>>]

Disabled(c) ==
    [c EXCEPT !.locked = TRUE, !.queue = <<>>, !.list = <<>>, !.spent = TRUE,
              !.memory = NoData]

\* lock disables only a list with nothing to remember.
Locked(c) ==
    IF c.memory = NoData /\ ~c.firing
    THEN Disabled(c)
    ELSE [c EXCEPT !.locked = TRUE, !.queue = <<>>]

\* fireWith: a list that is firing already only queues the data.
FiredWith(c, v) ==
    LET with == [c EXCEPT !.queue = Append(@, v)]
    IN  IF c.locked THEN c ELSE IF c.firing THEN with ELSE Entered(with)

StartsFiring(c) == ~c.locked /\ ~c.firing

-----------------------------------------------------------------------------
(* The call stack.                                                         *)

FireFrame(l) == [frame |-> "fire", of |-> l]
BodyFrame(n) == [frame |-> "body", of |-> n]

Idle == stack = <<>>
Top == stack[Len(stack)]
On(frame) == ~Idle /\ Top.frame = frame

\* Code of the application runs: in a turn of the event loop, in a callback,
\* or in a handler given to `then'.
Running == Idle \/ On("body") \/ On("handler")

\* The application makes one more call.
Operation ==
    /\ Running
    /\ ops < MaxOps
    /\ ops' = ops + 1

\* What add and fireWith do to the list l (of the lists ls) and the stack s.
Adds(l, f, s) ==
    /\ lists' = [lists EXCEPT ![l] = Added(@, f)]
    /\ stack' = IF Replays(lists[l]) THEN Append(s, FireFrame(l)) ELSE s

Fires(ls, l, v, s) ==
    /\ lists' = [ls EXCEPT ![l] = FiredWith(@, v)]
    /\ stack' = IF StartsFiring(ls[l]) THEN Append(s, FireFrame(l)) ELSE s

-----------------------------------------------------------------------------
(* The loop of fire, in the innermost frame.                               *)

\* The list l is firing, and its next callback is one of the given kind.
Reaches(l, kind) ==
    LET c == lists[l]
    IN  /\ On("fire") /\ Top.of = l
        /\ c.firingIndex < Len(c.list)
        /\ c.list[c.firingIndex + 1].kind = kind

\* That callback, and the lists when fire has moved on to it.
Reached(l) == lists[l].list[lists[l].firingIndex + 1].n
Passed(l) == [lists EXCEPT ![l].firingIndex = @ + 1]

\* A function of the application is called.
RunCallback(l) ==
    /\ Reaches(l, "call")
    /\ lists' = Passed(l)
    /\ stack' = Append(stack, BodyFrame(Reached(l)))
    /\ heard' = Append(heard, [of |-> l, n |-> Reached(l), v |-> lists[l].memory])
    /\ UNCHANGED <<emptied, ops>>

\* All callbacks were called: with the next data again, or fire returns.
RoundEnds(l) ==
    /\ On("fire") /\ Top.of = l
    /\ lists[l].firingIndex >= Len(lists[l].list)
    /\ IF lists[l].queue # <<>>
       THEN lists' = [lists EXCEPT ![l] = Rewound(@)] /\ UNCHANGED stack
       ELSE lists' = [lists EXCEPT ![l] = Finished(@)] /\ stack' = Front(stack)
    /\ UNCHANGED <<heard, emptied, ops>>

\* The body of a callback ends; only false, to a stopOnFalse list, matters.
BodyReturns ==
    /\ On("body")
    /\ stack' = Front(stack)
    /\ LET l == stack[Len(stack) - 1].of
       IN  \/ UNCHANGED lists
           \/ /\ "stopOnFalse" \in lists[l].options
              /\ lists' = [lists EXCEPT ![l] = Stopped(@)]
    /\ UNCHANGED <<heard, emptied, ops>>

-----------------------------------------------------------------------------
(* What the application does with a list of its own.                       *)

ListAdd(l) ==
    /\ Operation
    /\ \E n \in FreeFns : Adds(l, Call(n), stack)
    /\ UNCHANGED <<heard, emptied>>

ListFire(l) ==
    /\ Operation
    /\ Fires(lists, l, ops + 1, stack)
    /\ UNCHANGED <<heard, emptied>>

ListRemove(l) ==
    /\ Operation
    /\ \E n \in FreeFns : lists' = [lists EXCEPT ![l] = Removed(@, Call(n))]
    /\ UNCHANGED <<stack, heard, emptied>>

ListEmpty(l) ==
    /\ Operation
    /\ lists' = [lists EXCEPT ![l] = Emptied(@)]
    /\ emptied' = IF lists[l].firing THEN emptied \cup {l} ELSE emptied
    /\ UNCHANGED <<stack, heard>>

ListDisable(l) ==
    /\ Operation
    /\ lists' = [lists EXCEPT ![l] = Disabled(@)]
    /\ UNCHANGED <<stack, heard, emptied>>

ListLock(l) ==
    /\ Operation
    /\ lists' = [lists EXCEPT ![l] = Locked(@)]
    /\ UNCHANGED <<stack, heard, emptied>>

-----------------------------------------------------------------------------
(* Properties.                                                             *)

\* "memory: ... will call any callback added after the list has been fired
\* right away with the latest values": when a list with memory is not firing,
\* every callback in it has been called with what it was last fired with,
\* whatever was added, removed or fired again by callbacks meanwhile.  (Not so
\* if a callback emptied the list: fire skips what is added after that.)
CaughtUp ==
    \A l \in (FreeLists \cap DOMAIN lists) \ emptied :
        LET c == lists[l]
        IN  "memory" \in c.options /\ ~c.firing /\ c.memory # NoData =>
                \A f \in ToSet(c.list) :
                    [of |-> l, n |-> f.n, v |-> c.memory] \in ToSet(heard)
=============================================================================
