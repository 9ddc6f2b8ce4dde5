------------------------------- MODULE Effects -------------------------------
(***************************************************************************)
(* jQuery's fx queue and animations of one element, the console's panel    *)
(* with the rerun button: slideDown, slideUp and slideToggle, stop, finish *)
(* and promise, the loop of frames and its timers.                         *)
(*                                                                         *)
(* What one call does before it returns is an operator on the record of    *)
(* the element and the timers, `fx'; a frame calls one timer at a time.    *)
(***************************************************************************)
EXTENDS Integers, Sequences, FiniteSets, SequencesExt, Filter

CONSTANTS
    MaxSlides,      \* bound: calls of slideDown, slideUp and slideToggle
    MaxStops,       \* bound: calls of stop and finish
    MaxPromises,    \* bound: calls of promise
    MaxThrows       \* bound: exceptions of complete callbacks

ASSUME EffectsAssumption ==
    MaxSlides \in Nat /\ MaxStops \in Nat /\ MaxPromises \in Nat /\ MaxThrows \in Nat

VARIABLES
    fx,         \* the element and jQuery.timers
    tick,       \* the timer the frame is at, 0 outside of a frame
    frames,     \* how many frames are requested
    asked,      \* history: whether the panel should be seen when all is done
    slides,     \* history: how many slides were asked for
    stops,      \* history: calls of stop and finish
    promises,   \* history: per promise, the slides queued when it was made
    throws,     \* history: exceptions
    exact       \* history: no slide was stopped on its way, and none threw

effectVars == <<fx, tick, frames, asked, slides, stops, promises, throws, exact>>

Slides == 1 .. MaxSlides
What == {"show", "hide", "toggle"}

\* The sentinel at the head of the queue while a slide is on.
InProgress == [id |-> 0, what |-> "inprogress"]

Queued == [id : Slides, what : What]

\* A slide as its timer knows it: whether it ends with hiding, the height it
\* restores, what is left of it, and whether it is on, is over, or is over but
\* for the tick that an exception has left.
Timer == [id : Slides, hides : BOOLEAN, noop : BOOLEAN, orig : {"own", "partial"},
          left : 0 .. 1, is : {"on", "over", "left"}]

\* What a stopped slide leaves behind (the "fxshow" data): nothing, or the
\* height, and where a toggle was to go.
NoShow == [is |-> FALSE, height |-> "own", hidden |-> "unset"]

Inlines == {"", "none", "block"}

Fx ==
    [queue : Seq(Queued \cup {InProgress}), timers : Seq(Timer), inProgress : BOOLEAN,
     hide : BOOLEAN, inline : Inlines, was : Inlines, height : {"own", "partial"},
     fxshow : [is : BOOLEAN, height : {"own", "partial"},
               hidden : {"unset", "yes", "no"}],
     hooked : BOOLEAN, waiting : SUBSET (1 .. MaxPromises), ended : SUBSET Slides]

\* The timers that still have their element: a slide that is over deletes it.
Live(f) == {k \in DOMAIN f.timers : f.timers[k].is = "on"}

EffectsInit ==
    /\ fx = [queue |-> <<>>, timers |-> <<>>, inProgress |-> FALSE, hide |-> TRUE,
             inline |-> "", was |-> "", height |-> "own", fxshow |-> NoShow,
             hooked |-> FALSE, waiting |-> {}, ended |-> {}]
    /\ tick = 0
    /\ frames = 0
    /\ asked = FALSE
    /\ slides = 0
    /\ stops = 0
    /\ promises = <<>>
    /\ throws = 0
    /\ exact = TRUE

-----------------------------------------------------------------------------
(* The element.                                                            *)

\* isHiddenWithinTree: "Inline style trumps all", then the class `hide'.
Hidden(f) == f.inline = "none" \/ (f.inline = "" /\ f.hide)

\* showHide(elem, true): an inline "none" gives way to what it had replaced, and
\* if that does not show the element the default display does.
Shown(f) ==
    LET back == [f EXCEPT !.inline = IF @ = "none" THEN f.was ELSE @]
    IN  IF Hidden(back) THEN [back EXCEPT !.inline = "block"] ELSE back

\* showHide(elem): "Remember what we're overwriting".
Hid(f) == IF f.inline = "none" THEN f ELSE [f EXCEPT !.inline = "none", !.was = f.inline]

\* "Get nonempty value(s) by temporarily forcing visibility", when no display to
\* restore is known.
Forced(f) == IF Hidden(f) /\ f.was = "" THEN Hid(Shown(f)) ELSE f

-----------------------------------------------------------------------------
(* A slide: defaultPrefilter, Animation and its end.                       *)

\* Whether a slide that is not a no-op ends with hiding: what is hidden is shown
\* and the other way round, but "show" goes on where one was stopped, and the
\* direction of a stopped toggle is kept.
Hides(f, what) ==
    IF f.fxshow.is /\ f.fxshow.hidden # "unset" THEN f.fxshow.hidden = "no"
    ELSE ~Hidden(f) /\ what # "show"

\* Mutant of Noop: a slide never bails out.
NoopNever(f, what) == FALSE

\* "Bail out if this is a no-op like .hide().hide()"
Noop(f, what) ==
    \/ what = "hide" /\ Hidden(f)
    \/ what = "show" /\ ~Hidden(f) /\ ~f.fxshow.is

\* A slide starts: its timer, and the element while it is on.
Started(f, e) ==
    LET timer(hides, noop, orig) ==
            [id |-> e.id, hides |-> hides, noop |-> noop, orig |-> orig, left |-> 1,
             is |-> "on"]
        orig == IF f.fxshow.is THEN f.fxshow.height ELSE f.height
        hides == Hides(f, e.what)
        show == [is |-> TRUE, height |-> orig,
                 hidden |-> IF e.what = "toggle" THEN (IF hides THEN "yes" ELSE "no")
                            ELSE f.fxshow.hidden]
        visible == IF hides THEN Forced(f) ELSE Shown(Forced(f))
    IN  IF Noop(f, e.what)
        THEN [f EXCEPT !.timers = Append(@, timer(FALSE, TRUE, "own"))]
        ELSE [visible EXCEPT !.timers = Append(@, timer(hides, FALSE, orig)),
                             !.fxshow = show, !.height = "partial"]

\* Mutant of Dequeued: the queue counts as empty once its last slide has started.
DequeuedCountsAfter(f) ==
    LET rest == IF f.queue # <<>> /\ Head(f.queue) = InProgress
                THEN Tail(f.queue) ELSE f.queue
        told == [f EXCEPT !.waiting = {}, !.hooked = FALSE]
    IN  IF rest = <<>> THEN [told EXCEPT !.queue = <<>>]
        ELSE Started([(IF Len(rest) = 1 THEN told ELSE f) EXCEPT
                         !.queue = <<InProgress>> \o Tail(rest)], Head(rest))

\* jQuery.dequeue of "fx": the next slide, behind the sentinel, or the end: what
\* waits for the queue to be empty is told.
Dequeued(f) ==
    LET rest == IF f.queue # <<>> /\ Head(f.queue) = InProgress
                THEN Tail(f.queue) ELSE f.queue
    IN  IF rest = <<>> THEN [f EXCEPT !.queue = <<>>, !.waiting = {}, !.hooked = FALSE]
        ELSE Started([f EXCEPT !.queue = <<InProgress>> \o Tail(rest)], Head(rest))

\* The prefilter's done callback.
Settled(f, t) ==
    IF t.noop THEN f
    ELSE [(IF t.hides THEN Hid(f) ELSE f) EXCEPT !.fxshow = NoShow, !.height = t.orig]

\* Mutant of Completed: complete does not dequeue.
CompletedOnly(f, t) == [Settled(f, t) EXCEPT !.ended = @ \cup {t.id}]

\* A slide is resolved: done, then complete, which dequeues.
Completed(f, t) == Dequeued([Settled(f, t) EXCEPT !.ended = @ \cup {t.id}])

\* The timers after jQuery.fx.timer: "inProgress" if the loop is to be started.
FrameLoop(f) == [f EXCEPT !.inProgress = @ \/ f.timers # <<>>]

\* jQuery.fx.start: unless the loop runs, a frame is requested and the first
\* tick is made at once.
RunLoop(f) ==
    /\ fx' = FrameLoop(f)
    /\ IF ~fx.inProgress /\ f.timers # <<>>
       THEN frames' = frames + 1 /\ tick' = 1
       ELSE UNCHANGED <<frames, tick>>

-----------------------------------------------------------------------------
(* Calls.                                                                  *)

\* Mutant of Enqueued: it does not look for the sentinel.
EnqueuedAndDequeued(f, what) ==
    Dequeued([f EXCEPT !.queue = Append(@, [id |-> slides + 1, what |-> what]),
                       !.hooked = TRUE])

\* queue("fx", slide): it starts at once if nothing is on.
Enqueued(f, what) ==
    LET g == [f EXCEPT !.queue = Append(@, [id |-> slides + 1, what |-> what]),
                       !.hooked = TRUE]
    IN  IF Head(g.queue) = InProgress THEN g ELSE Dequeued(g)

Slide(f, what, class) ==
    /\ tick = 0
    /\ slides < MaxSlides
    /\ slides' = slides + 1
    /\ RunLoop([Enqueued(f, what) EXCEPT !.hide = class])
    /\ UNCHANGED <<stops, promises, throws, exact>>

\* checkboxActionsButtonPress: slideDown and removeClass.
CheckboxActionsButtonPress ==
    /\ Slide(fx, "show", FALSE)
    /\ asked' = TRUE

\* refreshExecutionHandlerButtons when nothing is selected: addClass and slideUp.
RefreshExecutionHandlerButtons ==
    /\ Slide([fx EXCEPT !.hide = TRUE], "hide", TRUE)
    /\ asked' = FALSE

SlideToggle ==
    /\ Slide(fx, "toggle", fx.hide)
    /\ asked' = ~asked

\* anim.stop(gotoEnd) of the live timers, which leave jQuery.timers.
StoppedAll(f, gotoEnd) ==
    LET live == {f.timers[k] : k \in Live(f)}
        left == [f EXCEPT !.timers = Filter(@, ToSet(@) \ live)]
    IN  IF live = {} THEN f
        ELSE LET t == CHOOSE t \in live : TRUE
             IN  IF gotoEnd THEN Completed(left, t)
                 ELSE [left EXCEPT !.ended = @ \cup {t.id}]

\* queue("fx", []): the queue is new and empty, and is dequeued.
Cleared(f) == Dequeued([f EXCEPT !.queue = <<>>])

\* stop(clearQueue, gotoEnd): "Start the next in the queue if the last step
\* wasn't forced."
Stop(clearQueue, gotoEnd) ==
    /\ tick = 0
    /\ stops < MaxStops
    /\ stops' = stops + 1
    /\ LET f == IF clearQueue THEN Cleared(fx) ELSE fx
           g == StoppedAll(f, gotoEnd)
       IN  RunLoop(IF Live(f) = {} \/ ~gotoEnd THEN Dequeued(g) ELSE g)
    /\ exact' = FALSE
    /\ UNCHANGED <<asked, slides, promises, throws>>

\* A slide of the old queue is finished: it starts, and is stopped at its end.
\* Its timer stays until the next tick.
FinishedOne(f, e) ==
    IF e = InProgress THEN f
    ELSE LET g == Started(f, e)
             k == Len(g.timers)
         IN  Completed([g EXCEPT !.timers[k].is = "over"], g.timers[k])

\* The slides of the old queue q, one after the other.
FinishedAll(f, q) ==
    LET finished[k \in 0 .. Len(q)] ==
            IF k = 0 THEN f ELSE FinishedOne(finished[k - 1], q[k])
    IN  finished[Len(q)]

\* finish: the queue is emptied, the slide that is on is ended, and those that
\* were queued are started and ended one after the other. If the loop did not run
\* its first tick comes before the slide is stopped.
Finish ==
    /\ tick = 0
    /\ stops < MaxStops
    /\ stops' = stops + 1
    /\ LET f == FinishedAll(StoppedAll([fx EXCEPT !.queue = <<>>], TRUE), fx.queue)
       IN  /\ fx' = FrameLoop(f)
           /\ frames' = IF ~fx.inProgress /\ f.timers # <<>> THEN frames + 1 ELSE frames
    /\ UNCHANGED <<tick, asked, slides, promises, throws, exact>>

\* promise(): it waits for the queue's `empty' to fire, if there are its hooks.
Promise ==
    /\ tick = 0
    /\ Len(promises) < MaxPromises
    /\ LET on == {fx.timers[k].id : k \in Live(fx)}
           queued == {e.id : e \in ToSet(fx.queue) \ {InProgress}}
       IN  /\ promises' = Append(promises, on \cup queued)
           /\ fx' = IF fx.hooked THEN [fx EXCEPT !.waiting = @ \cup {Len(promises) + 1}]
                    ELSE fx
    /\ UNCHANGED <<tick, frames, asked, slides, stops, throws, exact>>

-----------------------------------------------------------------------------
(* Frames.                                                                 *)

\* schedule, called by the browser: it ends unless the loop runs.
Frame ==
    /\ tick = 0 /\ frames > 0
    /\ IF fx.inProgress THEN tick' = 1 /\ UNCHANGED frames
       ELSE frames' = frames - 1 /\ UNCHANGED tick
    /\ UNCHANGED <<fx, asked, slides, stops, promises, throws, exact>>

\* The list without its k-th timer. One that an exception had left has run its
\* tweens once more, and a hidden panel keeps the height they end with.
Without(f, k) ==
    [f EXCEPT !.timers = RemoveAt(@, k),
              !.height = IF f.timers[k].is = "left" /\ f.timers[k].hides
                         THEN "partial" ELSE @]

\* jQuery.fx.tick calls a timer: it is over, it has more to do, or it ends. What
\* it starts is called in the same frame.
TickTimer ==
    /\ tick \in DOMAIN fx.timers
    /\ LET t == fx.timers[tick]
       IN  IF t.is # "on"
           THEN fx' = Without(fx, tick) /\ UNCHANGED tick
           ELSE IF t.left > 0 /\ ~t.noop
           THEN /\ fx' = [fx EXCEPT !.timers[tick].left = @ - 1]
                /\ tick' = tick + 1
           ELSE fx' = Without(Completed(fx, t), tick) /\ UNCHANGED tick
    /\ UNCHANGED <<frames, asked, slides, stops, promises, throws, exact>>

\* The application's complete callback throws: the tick is left, nothing is
\* dequeued, and the next frame runs the timer again, whose callbacks are locked.
TickThrows ==
    /\ tick \in DOMAIN fx.timers
    /\ throws < MaxThrows
    /\ throws' = throws + 1
    /\ LET t == fx.timers[tick]
       IN  /\ t.is = "on" /\ (t.left = 0 \/ t.noop)
           /\ fx' = [Settled(fx, t) EXCEPT !.timers[tick].is = "left",
                                           !.ended = @ \cup {t.id}]
    /\ tick' = 0
    /\ exact' = FALSE
    /\ UNCHANGED <<frames, asked, slides, stops, promises>>

\* The tick is over: the loop stops if there are no timers.
TickEnds ==
    /\ tick > Len(fx.timers)
    /\ tick' = 0
    /\ fx' = [fx EXCEPT !.inProgress = fx.timers # <<>>]
    /\ UNCHANGED <<frames, asked, slides, stops, promises, throws, exact>>

Loop == Frame \/ TickTimer \/ TickEnds

EffectsNext ==
    \/ CheckboxActionsButtonPress \/ RefreshExecutionHandlerButtons \/ SlideToggle
    \/ \E clearQueue, gotoEnd \in BOOLEAN : Stop(clearQueue, gotoEnd)
    \/ Finish \/ Promise
    \/ Loop \/ TickThrows

\* The browser calls the frames that were requested, and a tick goes on.
EffectsSpec == EffectsInit /\ [][EffectsNext]_effectVars /\ WF_effectVars(Loop)

-----------------------------------------------------------------------------
(* Properties.                                                             *)

EffectsTypeOK ==
    /\ fx \in Fx
    /\ tick \in Nat /\ frames \in Nat
    /\ asked \in BOOLEAN /\ exact \in BOOLEAN
    /\ slides \in 0 .. MaxSlides /\ stops \in 0 .. MaxStops /\ throws \in 0 .. MaxThrows
    /\ promises \in Seq(SUBSET Slides)

\* One slide of the element is on at a time, it is on exactly while the sentinel
\* heads the queue, and the loop of frames runs while there are timers.
OneAtATime ==
    /\ Cardinality(Live(fx)) <= 1
    /\ throws = 0 => (Live(fx) # {} <=> fx.queue # <<>> /\ Head(fx.queue) = InProgress)
    /\ fx.timers # <<>> => fx.inProgress /\ frames > 0

\* The variables have their types, and slides are made one at a time.
EffectsInv == EffectsTypeOK /\ OneAtATime

\* When all slides are over the panel is as the last call asked, whatever was
\* queued, going on or finished when it came; and it has its own height again.
EndsAsAsked ==
    tick = 0 /\ fx.queue = <<>> /\ Live(fx) = {} /\ exact =>
        /\ Hidden(fx) = ~asked
        /\ fx.height = "own" /\ ~fx.fxshow.is

\* A promise is resolved only when the slides it waits for are over.
ResolvedWhenOver ==
    \A p \in DOMAIN promises :
        p \notin fx.waiting /\ stops = 0 => promises[p] \subseteq fx.ended

\* Every slide and every promise comes to its end, if no callback throws.
AllEnd ==
    throws = 0 ~> (throws > 0 \/ (fx.queue = <<>> /\ fx.waiting = {}))
=============================================================================
