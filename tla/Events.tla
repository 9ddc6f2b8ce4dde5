-------------------------------- MODULE Events --------------------------------
(***************************************************************************)
(* jQuery's events: on, one, off, trigger and the dispatch of an event to  *)
(* handlers bound directly and by delegation, as the console binds them    *)
(* ($('.editMe').on('...', 'textarea', ...) and .change()).                *)
(*                                                                         *)
(* The page is a path of elements, 1 the innermost.  An event starts at an *)
(* element and goes outwards; a handler may bind and unbind handlers,      *)
(* trigger further events, stop the propagation or throw.  The stack holds *)
(* the events that are going on, the innermost call last.  One event type  *)
(* is modelled: the handlers of different types do not meet.               *)
(***************************************************************************)
EXTENDS Integers, Sequences, FiniteSets, SequencesExt, Filter

CONSTANTS
    Elements,   \* how many elements the path has
    MaxBound,   \* bound: calls of on and one
    MaxEvents,  \* bound: events
    MaxOff,     \* bound: calls of off
    MaxThrows   \* bound: exceptions of handlers

ASSUME EventsAssumption ==
    /\ Elements \in Nat \ {0}
    /\ MaxBound \in Nat /\ MaxEvents \in Nat /\ MaxOff \in Nat /\ MaxThrows \in Nat

VARIABLES
    handlers,   \* per element: elemData.events[type], with its delegateCount
    listener,   \* per element: the native listener is attached
    stack,      \* the events going on
    bound,      \* history: what was bound, and whether it was unbound since
    events,     \* history: the events, and the handlers that heard of them
    offs,       \* history: calls of off
    throws      \* history: exceptions

handlerVars == <<handlers, listener>>
historyVars == <<bound, events, offs, throws>>
allVars == <<handlerVars, stack, historyVars>>

Elems == 1 .. Elements

\* A handler is known by its place in `bound'.  (No handler: 0.)
Handler == 1 .. MaxBound

\* What on gets: a selector that matches one element further in (0: none), a
\* namespace or none, and whether it is `one'.
Options(e) == [elem : {e}, sel : 0 .. e - 1, ns : BOOLEAN, one : BOOLEAN]

\* An event on its way: its number, whether the browser or trigger runs it, its
\* namespace, its target, the element it is at, the handlers dispatch is still
\* to call there (per currentTarget), the handler it is calling, and whether
\* its propagation was stopped.
Frame ==
    [n : 1 .. MaxEvents, native : BOOLEAN, ns : BOOLEAN, target : Elems,
     at : 0 .. Elements, queue : Seq(Seq(Handler)), running : 0 .. MaxBound,
     stopped : BOOLEAN]

EventsTypeOK ==
    /\ handlers \in [Elems -> [list : Seq(Handler), delegateCount : 0 .. MaxBound]]
    /\ listener \in [Elems -> BOOLEAN]
    /\ stack \in Seq(Frame)
    /\ \A e \in Elems : \A h \in ToSet(handlers[e].list) :
          bound[h].elem = e /\ ~bound[h].gone

Init ==
    /\ handlers = [e \in Elems |-> [list |-> <<>>, delegateCount |-> 0]]
    /\ listener = [e \in Elems |-> FALSE]
    /\ stack = <<>>
    /\ bound = <<>>
    /\ events = <<>>
    /\ offs = 0
    /\ throws = 0

-----------------------------------------------------------------------------
(* Binding and unbinding.                                                  *)

Idle == stack = <<>>
Top == stack[Len(stack)]
Below == SubSeq(stack, 1, Len(stack) - 1)

\* Code of the application runs: in the event loop or in a handler.
Running == ~Idle => Top.running # 0

\* Mutant of Inserted: a delegated handler is put in front of the others.
InsertedFirst(c, h, delegated) ==
    IF delegated
    THEN [list |-> <<h>> \o c.list, delegateCount |-> c.delegateCount + 1]
    ELSE [c EXCEPT !.list = Append(@, h)]

\* "Add to the element's handler list, delegates in front"
Inserted(c, h, delegated) ==
    IF delegated
    THEN [list |-> InsertAt(c.list, c.delegateCount + 1, h),
          delegateCount |-> c.delegateCount + 1]
    ELSE [c EXCEPT !.list = Append(@, h)]

\* jQuery.event.add, by on or one.
On(e) ==
    /\ Running
    /\ Len(bound) < MaxBound
    /\ \E o \in Options(e) :
          LET h == Len(bound) + 1
          IN  /\ handlers' = [handlers EXCEPT ![e] = Inserted(@, h, o.sel # 0)]
              /\ bound' = Append(bound,
                    [elem |-> e, sel |-> o.sel, ns |-> o.ns, one |-> o.one,
                     gone |-> FALSE])
    /\ listener' = [listener EXCEPT ![e] = TRUE]
    /\ UNCHANGED <<stack, events, offs, throws>>

\* Mutant of Without: delegateCount is not counted down.
WithoutCount(c, hs) ==
    [c EXCEPT !.list = Filter(@, ToSet(@) \ hs)]

\* Mutant of Without: the loop goes upwards and skips the handler behind one it
\* took out.
WithoutSkipping(c, hs) ==
    LET out == {k \in DOMAIN c.list : c.list[k] \in hs
                                      /\ (k > 1 => c.list[k - 1] \notin hs)}
    IN  [list |-> Filter(c.list, ToSet(c.list) \ {c.list[k] : k \in out}),
         delegateCount |-> c.delegateCount - Cardinality(
             {k \in out : bound[c.list[k]].sel # 0})]

\* The handlers without those in hs.
Without(c, hs) ==
    [list |-> Filter(c.list, ToSet(c.list) \ hs),
     delegateCount |-> c.delegateCount - Cardinality(
         {k \in DOMAIN c.list : c.list[k] \in hs /\ bound[c.list[k]].sel # 0})]

\* jQuery.event.remove of hs: with the last handler goes the native listener.
Removes(e, hs) ==
    /\ handlers' = [handlers EXCEPT ![e] = Without(@, hs)]
    /\ listener' = [listener EXCEPT
          ![e] = @ /\ (ToSet(handlers[e].list) \subseteq hs
                       => handlers[e].list = <<>>)]

\* The history of what is bound after hs was unbound.
Gone(hs) ==
    bound' = [h \in DOMAIN bound |->
                [bound[h] EXCEPT !.gone = @ \/ h \in hs]]

\* What off may name: everything, a namespace, delegated handlers ("**") or one
\* handler.
OffMatches(e) ==
    LET here == ToSet(handlers[e].list)
    IN  {here, {h \in here : bound[h].ns}, {h \in here : bound[h].sel # 0}}
            \cup {{h} : h \in here}

Off(e) ==
    /\ Running
    /\ offs < MaxOff
    /\ offs' = offs + 1
    /\ \E hs \in OffMatches(e) \ {{}} : Removes(e, hs) /\ Gone(hs)
    /\ UNCHANGED <<stack, events, throws>>

-----------------------------------------------------------------------------
(* An event on its way.                                                    *)

\* What the path of an event leads to: the handlers that are meant for it.
MeantFor(target, ns, h) ==
    /\ target <= IF bound[h].sel = 0 THEN bound[h].elem ELSE bound[h].sel
    /\ ns => bound[h].ns

\* It starts at the target: the browser's, from the event loop, or trigger's.
Start(native) ==
    /\ IF native THEN Idle ELSE Running
    /\ Len(events) < MaxEvents
    /\ \E target \in Elems, ns \in IF native THEN {FALSE} ELSE BOOLEAN :
          /\ events' = Append(events,
                [due |-> {h \in DOMAIN bound :
                             ~bound[h].gone /\ MeantFor(target, ns, h)},
                 gone |-> {h \in DOMAIN bound : bound[h].gone},
                 during |-> {stack[k].n : k \in DOMAIN stack},
                 heard |-> <<>>, finished |-> FALSE])
          /\ stack' = Append(stack,
                [n |-> Len(events) + 1, native |-> native, ns |-> ns,
                 target |-> target, at |-> target - 1, queue |-> <<>>,
                 running |-> 0, stopped |-> FALSE])
    /\ UNCHANGED <<handlerVars, bound, offs, throws>>

NativeEvent == Start(TRUE)
Trigger == Start(FALSE)

\* Each handler is called "if its namespaces are a superset of the event's".
Invoked(ns, hs) == Filter(hs, {h \in ToSet(hs) : ns => bound[h].ns})

\* The handlers that were delegated to cur.
Matching(hs, cur) == Filter(hs, {h \in ToSet(hs) : bound[h].sel = cur})

\* A queue without empty groups.
NonEmpty(q) == Filter(q, ToSet(q) \ {<<>>})

\* Mutant of HandlerQueue: the live list is not copied for the direct handlers
\* but only the delegated ones are found.
HandlerQueueDelegated(e, target, ns) ==
    LET c == handlers[e]
        delegated == SubSeq(c.list, 1, c.delegateCount)
        groups == [k \in 1 .. e - target |-> Matching(delegated, target + k - 1)]
    IN  NonEmpty([k \in DOMAIN groups |-> Invoked(ns, groups[k])])

\* jQuery.event.handlers: the delegated handlers that match, by element from
\* the target outwards, and the direct ones; a copy of the lists as they are.
HandlerQueue(e, target, ns) ==
    LET c == handlers[e]
        delegated == SubSeq(c.list, 1, c.delegateCount)
        direct == SubSeq(c.list, c.delegateCount + 1, Len(c.list))
        groups == [k \in 1 .. e - target |-> Matching(delegated, target + k - 1)]
                      \o <<direct>>
    IN  NonEmpty([k \in DOMAIN groups |-> Invoked(ns, groups[k])])

\* The event reaches the next element, and dispatch is called there if the
\* native listener is attached (the browser) or there are handlers (trigger).
Reach ==
    /\ ~Idle /\ Top.running = 0 /\ Top.queue = <<>>
    /\ ~Top.stopped /\ Top.at < Elements
    /\ LET e == Top.at + 1
           here == IF Top.native THEN listener[e] ELSE handlers[e].list # <<>>
       IN  stack' = Append(Below,
              [Top EXCEPT !.at = e,
                          !.queue = IF here THEN HandlerQueue(e, Top.target, Top.ns)
                                    ELSE <<>>])
    /\ UNCHANGED <<handlerVars, historyVars>>

\* The queue after its first handler; its group stays, it may be empty.
Dequeued(q) == <<Tail(Head(q))>> \o Tail(q)

\* dispatch calls the next handler; that of `one' unbinds itself first.
Invoke ==
    /\ ~Idle /\ Top.running = 0 /\ Top.queue # <<>>
    /\ LET h == Top.queue[1][1]
           e == bound[h].elem
       IN  /\ stack' = Append(Below, [Top EXCEPT !.running = h, !.queue = Dequeued(@)])
           /\ events' = [events EXCEPT ![Top.n].heard = Append(@, h)]
           /\ IF bound[h].one /\ ~bound[h].gone
              THEN Removes(e, {h}) /\ Gone({h})
              ELSE UNCHANGED <<handlerVars, bound>>
    /\ UNCHANGED <<offs, throws>>

\* The queue after a handler returned: the propagation stopped at once, after
\* the current element (also by returning false), or not.
Remaining(q, how) ==
    CASE how = "immediate" -> <<>>
      [] how = "stop" -> NonEmpty(<<Head(q)>>)
      [] how = "no" -> NonEmpty(q)

HandlerReturns ==
    /\ ~Idle /\ Top.running # 0
    /\ \E how \in {"no", "stop", "immediate"} :
          /\ stack' = Append(Below,
                [Top EXCEPT !.running = 0, !.queue = Remaining(@, how),
                            !.stopped = @ \/ how # "no"])
          /\ events' = [events EXCEPT
                ![Top.n].due = IF how = "no" THEN @ ELSE {}]
    /\ UNCHANGED <<handlerVars, bound, offs, throws>>

\* A handler throws: dispatch is abandoned, and trigger with it; the innermost
\* native event goes on at the next element.
HandlerThrows ==
    /\ ~Idle /\ Top.running # 0
    /\ throws < MaxThrows
    /\ throws' = throws + 1
    /\ LET native == {k \in DOMAIN stack : stack[k].native}
           k == IF native = {} THEN 0 ELSE Max(native)
           cut == {stack[j].n : j \in (IF k = 0 THEN 1 ELSE k) .. Len(stack)}
       IN  /\ stack' = [j \in 1 .. k |->
                          IF j = k THEN [stack[j] EXCEPT !.running = 0, !.queue = <<>>]
                          ELSE stack[j]]
           /\ events' = [n \in DOMAIN events |->
                 IF n \in cut THEN [events[n] EXCEPT !.due = {}] ELSE events[n]]
    /\ UNCHANGED <<handlerVars, bound, offs>>

Finish ==
    /\ ~Idle /\ Top.running = 0 /\ Top.queue = <<>>
    /\ Top.stopped \/ Top.at = Elements
    /\ stack' = Below
    /\ events' = [events EXCEPT ![Top.n].finished = TRUE]
    /\ UNCHANGED <<handlerVars, bound, offs, throws>>

Next ==
    \/ \E e \in Elems : On(e) \/ Off(e)
    \/ NativeEvent \/ Trigger
    \/ Reach \/ Invoke \/ HandlerReturns \/ HandlerThrows \/ Finish

Spec == Init /\ [][Next]_allVars

-----------------------------------------------------------------------------
(* Properties.                                                             *)

\* An element is listened to by the browser exactly while it has handlers, and
\* delegateCount tells the delegated ones, which are in front, from the others,
\* however handlers bind and unbind each other.
ListensIffHandled ==
    \A e \in Elems :
        LET c == handlers[e]
        IN  /\ listener[e] <=> c.list # <<>>
            /\ \A k \in DOMAIN c.list : bound[c.list[k]].sel # 0 <=> k <= c.delegateCount

\* The variables have their types, and listeners and handlers fit.
EventsInv == EventsTypeOK /\ ListensIffHandled

\* A handler that was bound when an event began and is not unbound before its
\* end hears of it, if no handler stops it or throws; none hears of it twice.
NoneMissed ==
    \A n \in DOMAIN events :
        /\ IsInjective(events[n].heard)
        /\ events[n].finished =>
              {h \in events[n].due : ~bound[h].gone} \subseteq ToSet(events[n].heard)

\* A handler that was unbound does not hear of an event that begins later; and
\* of two events only one reaches a handler bound with `one', unless the second
\* was triggered while the first was going on.
NotAfterOff ==
    \A n \in DOMAIN events :
        /\ events[n].gone \cap ToSet(events[n].heard) = {}
        /\ \A m \in 1 .. n - 1 :
              \A h \in ToSet(events[m].heard) \cap ToSet(events[n].heard) :
                  bound[h].one => m \in events[n].during

\* At one element delegated handlers hear of an event before direct ones, those
\* further in first, and otherwise in the order they were bound in.
HeardInOrder ==
    \A n \in DOMAIN events :
        LET heard == events[n].heard
        IN  \A j, k \in DOMAIN heard :
              LET a == bound[heard[j]]
                  b == bound[heard[k]]
              IN  j < k =>
                    /\ a.elem <= b.elem
                    /\ a.elem = b.elem =>
                          \/ a.sel = b.sel /\ heard[j] < heard[k]
                          \/ a.sel # 0 /\ (b.sel = 0 \/ a.sel < b.sel)
=============================================================================
