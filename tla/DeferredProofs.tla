---------------------------- MODULE DeferredProofs ----------------------------
(***************************************************************************)
(* Proofs about jQuery's Callbacks and Deferred: every step preserves the  *)
(* invariant of DeferredLemmas; lists with memory are caught up; callbacks *)
(* are called in order; the first answer of a thenable decides; `when'     *)
(* waits for its arguments; and deferreds are promises.                    *)
(***************************************************************************)
EXTENDS DeferredLemmas

-----------------------------------------------------------------------------
(* The steps that fire the list of a deferred, or fire nothing.            *)

\* While code of the application runs, no list is about to settle anything,
\* and no `when' is under way.
LEMMA Calm ==
  ASSUME CoreInv, Idle \/ Top.frame \notin {"fire", "when"}
  PROVE  /\ Quiet(lists) /\ NoWhen(stack)
         /\ stack \in Seq(StackFrame) /\ Len(stack) \in Nat /\ DOMAIN stack = 1 .. Len(stack)
<1>1. /\ Phases(state, lists, stack) /\ WhenAlone(lists, stack)
      /\ stack \in Seq(StackFrame) /\ Len(stack) \in Nat /\ DOMAIN stack = 1 .. Len(stack)
  BY SoundTypes DEF CoreInv, Sound
<1>2. stack = <<>> \/ stack[Len(stack)].frame \notin {"fire", "when"}
  BY DEF Idle, Top
<1>3. Quiet(lists)
  BY <1>1, <1>2, QuietTop
<1>4. NoWhen(stack)
  BY <1>1, <1>2, NoWhenTop
<1>5. QED BY <1>1, <1>3, <1>4

\* A frame of the application is not at the bottom: something called it.
LEMMA CalmFront ==
  ASSUME CoreInv, ~Idle, Top.frame \notin {"fire", "when"}
  PROVE  /\ Sound(lists, Front(stack), state, registered, args)
         /\ Frames(Front(stack), hooks, maxDepth, source, args)
         /\ NoWhen(Front(stack)) /\ Front(stack) \in Seq(StackFrame)
         /\ Len(Front(stack)) = Len(stack) - 1 /\ Len(stack) >= 1
         /\ DOMAIN Front(stack) = 1 .. Len(stack) - 1
         /\ \A k \in DOMAIN Front(stack) : k \in DOMAIN stack /\ Front(stack)[k] = stack[k]
<1>1. /\ Quiet(lists) /\ NoWhen(stack)
      /\ stack \in Seq(StackFrame) /\ Len(stack) \in Nat /\ DOMAIN stack = 1 .. Len(stack)
  BY Calm
<1>2. /\ Front(stack) \in Seq(StackFrame) /\ Len(Front(stack)) = Len(stack) - 1
      /\ DOMAIN Front(stack) = 1 .. Len(stack) - 1 /\ Len(stack) >= 1
      /\ \A k \in 1 .. Len(stack) - 1 : Front(stack)[k] = stack[k]
  BY <1>1, FrontFacts, Zenon DEF Idle
<1>3. \A k \in DOMAIN Front(stack) : k \in DOMAIN stack /\ Front(stack)[k] = stack[k]
  BY <1>1, <1>2
<1>4. NoWhen(Front(stack))
  BY <1>1, <1>3 DEF NoWhen
<1>5. Sound(lists, Front(stack), state, registered, args)
  <2>1. Len(Front(stack)) <= Len(stack)
    BY <1>1, <1>2
  <2>2. QED BY <1>1, <1>2, <1>3, <2>1, PrefixSound DEF CoreInv
<1>6. Frames(Front(stack), hooks, maxDepth, source, args)
  <2>1. /\ Len(Front(stack)) <= Len(stack) /\ Len(Front(stack)) \in Nat
        /\ DOMAIN Front(stack) = 1 .. Len(Front(stack))
    BY <1>1, <1>2
  <2>2. QED BY <1>1, <1>3, <2>1, FramesPrefix DEF CoreInv
<1>7. QED BY <1>2, <1>3, <1>4, <1>5, <1>6

\* What the application fires with is no answer of a thenable.
LEMMA OldHeedable ==
  ASSUME CoreInv
  PROVE  \A v \in 0 .. MaxOps : Heedable(v, answers)
<1>1. Len(answers) \in Nat /\ DOMAIN answers = 1 .. Len(answers)
  BY DEF CoreInv, DeferredTypes
<1>2. \A k \in DOMAIN answers : answers[k].v = MaxOps + k
  BY DEF CoreInv, Promised
<1>3. QED BY <1>1, <1>2, HeedableOld

LEMMA FireKept ==
  ASSUME DInv, NEW s0, NoWhen(stack), NoWhen(s0),
         Sound(lists, s0, state, registered, args),
         Frames(s0, hooks, maxDepth, source, args), Quiet(lists),
         NEW d \in Deferreds, NEW on \in Ons, NEW v \in Data, Made(d), args[d] = <<>>,
         Fires(lists, <<d, on>>, v, s0), Steady,
         heard' = heard, registered' = registered, remaining' = remaining,
         emptied' = emptied, answers' = answers,
         on = "progress" \/ Heedable(v, answers),
         \A k \in DOMAIN timers' :
            timers'[k].how # "progress" => Heedable(timers'[k].v, answers),
         \A k \in DOMAIN s0 : s0[k].frame = "handler" => Heedable(s0[k].v, answers)
  PROVE  DInv'
<1>1. /\ state' = state /\ args' = args /\ maxDepth' = maxDepth
  BY DEF Steady
<1>2. /\ Sound(lists', stack', state, registered, args)
      /\ Frames(stack', hooks, maxDepth, source, args)
      /\ SameUnmade /\ OrderInv' /\ WaitsInv'
      /\ \A e \in Deferreds, o \in Outcomes :
            lists'[<<e, o>>].memory =
               IF e = d /\ o = on /\ state[d] = "pending" THEN v ELSE lists[<<e, o>>].memory
      /\ \A k \in DOMAIN stack' :
            stack'[k].frame = "handler" => k \in DOMAIN s0 /\ stack'[k] = s0[k]
  BY <1>1, FireCase
<1>3. CoreInv'
  BY <1>2, CoreSteady DEF DInv, NewAnswers
<1>4. AnswersInv'
  <2>1. AnswersInv /\ DeferredTypes
    BY DEF DInv, CoreInv
  <2>2. \A e \in Deferreds : maxDepth'[e] \in Nat /\ maxDepth[e] <= maxDepth'[e]
    BY <1>1, <2>1 DEF DeferredTypes
  <2>3. \A e \in Deferreds, o \in Outcomes :
           \/ lists'[<<e, o>>].memory = lists[<<e, o>>].memory
           \/ /\ lists'[<<e, o>>].memory \in Data
              /\ Heedable(lists'[<<e, o>>].memory, answers)
    <3>1. SUFFICES ASSUME NEW e \in Deferreds, NEW o \in Outcomes,
                          lists'[<<e, o>>].memory # lists[<<e, o>>].memory
                   PROVE  /\ lists'[<<e, o>>].memory \in Data
                          /\ Heedable(lists'[<<e, o>>].memory, answers)
      OBVIOUS
    <3>2. lists'[<<e, o>>].memory = v /\ o = on
      BY <1>2, <3>1
    <3>3. on # "progress"
      BY <3>2, OthersOf
    <3>4. QED BY <3>2, <3>3
  <2>4. \A k \in DOMAIN stack' :
           stack'[k].frame = "handler" => Heedable(stack'[k].v, answers)
    BY <1>2
  <2>5. QED BY <2>1, <2>2, <2>3, <2>4, AnswersKept
<1>5. QED BY <1>2, <1>3, <1>4 DEF DInv

\* The timers of this state are as those of the next.
LEMMA SteadyNow ==
  ASSUME CoreInv, UNCHANGED <<deferredVars, registered, source, heard>>,
         ops' \in 0 .. MaxOps, ops' >= ops
  PROVE  Steady
BY DEF CoreInv, DeferredTypes, Promised, Steady, deferredVars

LEMMA AnswerInv ==
  ASSUME DInv, NEW d \in Deferreds, NEW on \in Ons, Answer(d, on)
  PROVE  DInv'
<1>1. /\ ops \in 0 .. MaxOps /\ ops < MaxOps /\ ops' = ops + 1 /\ Running
      /\ Made(d) /\ args[d] = <<>> /\ Fires(lists, <<d, on>>, ops + 1, stack)
      /\ UNCHANGED <<heard, emptied, deferredVars, historyVars>>
  BY DEF Answer, Operation, DInv, CoreInv, DeferredTypes
<1>2. CoreInv /\ MaxOps \in Nat /\ MaxAnswers \in Nat
  BY CallbacksAssumption, DeferredAssumption DEF DInv
<1>3. Quiet(lists) /\ NoWhen(stack)
  BY <1>1, <1>2, Calm DEF Running, On
<1>4. ops + 1 \in 0 .. MaxOps /\ ops + 1 \in Data
  BY <1>1, <1>2 DEF Data
<1>5. Steady
  BY <1>1, <1>2, <1>4, SteadyNow DEF historyVars
<1>6. Heedable(ops + 1, answers)
  BY <1>2, <1>4, OldHeedable
<1>7. QED
  <2>1. /\ Sound(lists, stack, state, registered, args)
        /\ Frames(stack, hooks, maxDepth, source, args)
        /\ heard' = heard /\ registered' = registered /\ remaining' = remaining
        /\ emptied' = emptied /\ answers' = answers /\ timers' = timers
    BY <1>1, <1>2 DEF CoreInv, deferredVars, historyVars
  <2>2. /\ \A k \in DOMAIN timers' :
              timers'[k].how # "progress" => Heedable(timers'[k].v, answers)
        /\ \A k \in DOMAIN stack : stack[k].frame = "handler" => Heedable(stack[k].v, answers)
    BY <2>1 DEF DInv, AnswersInv
  <2>3. QED BY <1>1, <1>3, <1>4, <1>5, <1>6, <2>1, <2>2, FireKept

\* A deferred that a then made may be settled.
LEMMA DueMade ==
  ASSUME CoreInv, NEW t, Due(t, source, maxDepth)
  PROVE  /\ t.to \in Deferreds /\ Made(t.to) /\ args[t.to] = <<>>
         /\ t.depth \in 0 .. maxDepth[t.to] /\ maxDepth[t.to] \in Nat
BY DEF Due, CoreInv, Sources, DeferredTypes

LEMMA TailElements ==
  ASSUME NEW S, NEW q \in Seq(S), q # <<>>
  PROVE  /\ Tail(q) \in Seq(S) /\ Head(q) = q[1] /\ 1 \in DOMAIN q
         /\ \A i \in DOMAIN Tail(q) : i + 1 \in DOMAIN q /\ Tail(q)[i] = q[i + 1]
OBVIOUS

\* The ways that no list is fired.
LEMMA StackCase ==
  ASSUME DInv, lists' = lists, Steady, NewAnswers, heard' = heard, registered' = registered,
         remaining' = remaining, SameWhen(stack, stack'),
         Sound(lists, stack', state, registered, args),
         Frames(stack', hooks, maxDepth, source, args)
  PROVE  CoreInv' /\ OrderInv' /\ WaitsInv'
<1>1. state' = state /\ args' = args
  BY DEF Steady
<1>2. SameUnmade
  BY DEF SameUnmade
<1>3. CoreInv'
  BY <1>2, CoreSteady DEF DInv
<1>4. OrderInv'
  <2>1. \A e \in Deferreds, o \in Outcomes :
           /\ SameCalls(lists[<<e, o>>], lists'[<<e, o>>])
           /\ state'[e] = Final(o) <=> state[e] = Final(o)
           /\ state[e] = Final(o) => lists'[<<e, o>>].memory = lists[<<e, o>>].memory
    BY <1>1 DEF SameCalls
  <2>2. QED BY <2>1, OrderKept DEF DInv
<1>5. WaitsInv'
  <2>1. \A m \in Deferreds : args[m] # <<>> =>
           /\ SamePlaces(lists, lists', m)
           /\ \A on \in Outcomes : lists'[<<m, on>>].memory = lists[<<m, on>>].memory
    BY DEF SamePlaces
  <2>2. QED BY <1>1, <2>1, WaitsInvKept DEF DInv
<1>6. QED BY <1>3, <1>4, <1>5

LEMMA StackKept ==
  ASSUME DInv, lists' = lists, Steady, heard' = heard, registered' = registered,
         remaining' = remaining, SameWhen(stack, stack'),
         Sound(lists, stack', state, registered, args),
         Frames(stack', hooks, maxDepth, source, args),
         emptied' = emptied, answers' = answers,
         \A k \in DOMAIN timers' :
            timers'[k].how # "progress" => Heedable(timers'[k].v, answers),
         \A k \in DOMAIN stack' :
            stack'[k].frame = "handler" => Heedable(stack'[k].v, answers)
  PROVE  DInv'
<1>1. CoreInv' /\ OrderInv' /\ WaitsInv'
  BY StackCase DEF NewAnswers
<1>2. AnswersInv'
  <2>1. AnswersInv /\ DeferredTypes
    BY DEF DInv, CoreInv
  <2>2. \A e \in Deferreds : maxDepth'[e] \in Nat /\ maxDepth[e] <= maxDepth'[e]
    BY <2>1 DEF DeferredTypes, Steady
  <2>3. QED BY <2>1, <2>2, AnswersKept
<1>3. QED BY <1>1, <1>2 DEF DInv

\* process or a foreign `then' returns.
LEMMA ReturnsInv ==
  ASSUME DInv, Returns
  PROVE  DInv'
<1>1. /\ ~Idle /\ Top.frame \notin {"fire", "when"} /\ stack' = Front(stack)
      /\ UNCHANGED <<lists, heard, emptied, ops, deferredVars, historyVars>>
  BY DEF Returns, On
<1>2. CoreInv
  BY DEF DInv
<1>3. ops \in 0 .. MaxOps
  BY <1>2 DEF CoreInv, DeferredTypes
<1>4. Steady
  BY <1>1, <1>2, <1>3, SteadyNow DEF historyVars
<1>5. /\ Sound(lists, stack', state, registered, args)
      /\ Frames(stack', hooks, maxDepth, source, args)
      /\ \A k \in DOMAIN stack' : k \in DOMAIN stack /\ stack'[k] = stack[k]
      /\ NoWhen(stack')
  BY <1>1, <1>2, CalmFront
<1>6. SameWhen(stack, stack')
  BY <1>1, <1>2, <1>5, Calm, SameWhenNone
<1>7. /\ \A k \in DOMAIN timers' :
            timers'[k].how # "progress" => Heedable(timers'[k].v, answers)
      /\ \A k \in DOMAIN stack' : stack'[k].frame = "handler" => Heedable(stack'[k].v, answers)
      /\ answers' = answers /\ remaining' = remaining /\ registered' = registered
  BY <1>1, <1>5 DEF DInv, AnswersInv, deferredVars, historyVars
<1>8. QED BY <1>1, <1>4, <1>5, <1>6, <1>7, StackKept

\* A callback of a deferred cannot stop the others.
LEMMA BodyReturnsInv ==
  ASSUME DInv, BodyReturns, UNCHANGED <<deferredVars, historyVars>>
  PROVE  DInv'
<1>1. CoreInv /\ ~Idle /\ Top.frame \notin {"fire", "when"} /\ Top.frame = "body"
  BY DEF BodyReturns, On, DInv
<1>2. /\ stack \in Seq(StackFrame) /\ Len(stack) \in Nat /\ DOMAIN stack = 1 .. Len(stack)
      /\ Len(stack) >= 1
  BY <1>1, Calm, CalmFront
<1>3. lists' = lists
  <2>1. Len(stack) - 1 \in DOMAIN stack /\ stack[Len(stack) - 1].frame = "fire"
    BY <1>1, <1>2 DEF Top, CoreInv, Frames, RestsOn
  <2>2. stack[Len(stack) - 1].of \in Lists
    BY <1>1, <2>1, SoundTypes DEF CoreInv
  <2>3. \A l \in Lists : "stopOnFalse" \notin lists[l].options
    <3>1. SUFFICES ASSUME NEW d \in Deferreds, NEW on \in Ons
                   PROVE  "stopOnFalse" \notin lists[<<d, on>>].options
      BY DEF Lists
    <3>2. CASE on \in Outcomes
      BY <1>1, <3>2 DEF CoreInv, Sound, OnceLists, OnceList
    <3>3. CASE on = "progress"
      BY <1>1, <3>3 DEF CoreInv, Sound, ProgressLists, ProgressList
    <3>4. QED BY <3>2, <3>3, OthersOf
  <2>4. QED BY <2>2, <2>3 DEF BodyReturns
<1>4. ops \in 0 .. MaxOps /\ stack' = Front(stack)
      /\ UNCHANGED <<heard, emptied, ops, deferredVars, historyVars>>
  BY <1>1 DEF CoreInv, DeferredTypes, BodyReturns
<1>5. Steady
  BY <1>1, <1>4, SteadyNow DEF historyVars
<1>6. /\ Sound(lists, stack', state, registered, args)
      /\ Frames(stack', hooks, maxDepth, source, args)
      /\ \A k \in DOMAIN stack' : k \in DOMAIN stack /\ stack'[k] = stack[k]
      /\ NoWhen(stack')
  BY <1>1, <1>4, CalmFront
<1>7. SameWhen(stack, stack')
  BY <1>1, <1>6, Calm, SameWhenNone
<1>8. /\ \A k \in DOMAIN timers' :
            timers'[k].how # "progress" => Heedable(timers'[k].v, answers)
      /\ \A k \in DOMAIN stack' : stack'[k].frame = "handler" => Heedable(stack'[k].v, answers)
      /\ answers' = answers /\ remaining' = remaining /\ registered' = registered
  BY <1>4, <1>6 DEF DInv, AnswersInv, deferredVars, historyVars
<1>9. QED BY <1>3, <1>4, <1>5, <1>6, <1>7, <1>8, StackKept

\* The handler's value settles the deferred that `then' returned.
LEMMA HandlerReturnsInv ==
  ASSUME DInv, HandlerReturns
  PROVE  DInv'
<1>1. /\ CoreInv /\ ~Idle /\ Top.frame \notin {"fire", "when"} /\ Top.frame = "handler"
      /\ Fires(lists, <<Top.to, "done">>, Top.v, Front(stack))
      /\ UNCHANGED <<heard, emptied, ops, deferredVars, historyVars>>
  BY DEF HandlerReturns, On, DInv
<1>2. /\ stack \in Seq(StackFrame) /\ Len(stack) \in DOMAIN stack
      /\ Top = stack[Len(stack)] /\ NoWhen(stack) /\ Quiet(lists)
  BY <1>1, Calm, CalmFront DEF Top
<1>3. Top \in [frame : {"handler"}, to : Deferreds, v : Data]
  <2>1. Top \in StackFrame
    BY <1>2, InSeq
  <2>2. QED BY <1>1, <2>1 DEF StackFrame
<1>4. /\ Sound(lists, Front(stack), state, registered, args)
      /\ Frames(Front(stack), hooks, maxDepth, source, args)
      /\ NoWhen(Front(stack))
      /\ \A k \in DOMAIN Front(stack) : k \in DOMAIN stack /\ Front(stack)[k] = stack[k]
  BY <1>1, CalmFront
<1>5. Made(Top.to) /\ args[Top.to] = <<>>
  <2>1. /\ Len(stack) = 2 /\ stack[1] = ProcessFrame(Top.to, maxDepth[Top.to])
        /\ 1 \in DOMAIN stack
    BY <1>1, <1>2 DEF CoreInv, Frames, RestsOn
  <2>2. Due(stack[1], source, maxDepth) /\ stack[1].to = Top.to
    <3>1. stack[1].frame = "process" /\ stack[1].to = Top.to
      BY <2>1 DEF ProcessFrame
    <3>2. QED BY <1>1, <2>1, <3>1 DEF CoreInv, Frames, RestsOn
  <2>3. QED BY <1>1, <2>2, DueMade
<1>6. Steady
  <2>1. ops \in 0 .. MaxOps
    BY <1>1 DEF CoreInv, DeferredTypes
  <2>2. QED BY <1>1, <2>1, SteadyNow DEF historyVars
<1>7. /\ \A k \in DOMAIN timers' :
            timers'[k].how # "progress" => Heedable(timers'[k].v, answers)
      /\ \A k \in DOMAIN Front(stack) :
            Front(stack)[k].frame = "handler" => Heedable(Front(stack)[k].v, answers)
      /\ Heedable(Top.v, answers)
      /\ answers' = answers /\ remaining' = remaining /\ registered' = registered
  BY <1>1, <1>2, <1>4 DEF DInv, AnswersInv, deferredVars, historyVars
<1>8. Top.to \in Deferreds /\ Top.v \in Data /\ "done" \in Ons
  BY <1>3 DEF Ons
<1>9. QED BY <1>1, <1>2, <1>4, <1>5, <1>6, <1>7, <1>8, FireKept

LEMMA Appended ==
  ASSUME NEW S, NEW q \in Seq(S), NEW f \in S
  PROVE  /\ Append(q, f) \in Seq(S) /\ Len(q) \in Nat /\ DOMAIN q = 1 .. Len(q)
         /\ Len(Append(q, f)) = Len(q) + 1 /\ DOMAIN Append(q, f) = 1 .. Len(q) + 1
         /\ \A k \in 1 .. Len(q) : Append(q, f)[k] = q[k]
         /\ Append(q, f)[Len(q) + 1] = f
OBVIOUS

\* The stack with a single frame of process.
LEMMA ProcessAlone ==
  ASSUME CoreInv, Idle, NEW d \in Deferreds, NEW depth, Due(ProcessFrame(d, depth), source, maxDepth)
  PROVE  /\ <<ProcessFrame(d, depth)>> \in Seq(StackFrame)
         /\ NoWhen(<<ProcessFrame(d, depth)>>)
         /\ Sound(lists, <<ProcessFrame(d, depth)>>, state, registered, args)
         /\ Frames(<<ProcessFrame(d, depth)>>, hooks, maxDepth, source, args)
<1> DEFINE f == ProcessFrame(d, depth)
<1>1. /\ Quiet(lists) /\ NoWhen(stack) /\ stack = <<>> /\ stack \in Seq(StackFrame)
      /\ Frames(stack, hooks, maxDepth, source, args)
      /\ Sound(lists, stack, state, registered, args)
  BY Calm DEF Idle, CoreInv
<1>2. f.frame = "process" /\ f.to = d /\ f.depth = depth
  BY DEF ProcessFrame
<1>3. f \in StackFrame
  <2>1. depth \in Nat
    BY DueMade, <1>2
  <2>2. f \in [frame : {"process"}, to : Deferreds, depth : Nat]
    BY <2>1 DEF ProcessFrame
  <2>3. QED BY <2>2 DEF StackFrame
<1>4. Due(f, source, maxDepth)
  OBVIOUS
<1> HIDE DEF f
<1>5. Append(stack, f) = <<f>>
  BY <1>1
<1>6. Sound(lists, Append(stack, f), state, registered, args)
  BY <1>1, <1>2, <1>3, PushSound
<1>7. RestsOn(<<f>>, 1, hooks, maxDepth, source, args)
  BY <1>2, <1>4 DEF RestsOn
<1>8. Frames(Append(stack, f), hooks, maxDepth, source, args)
  <2>1. Len(stack) + 1 = 1
    BY <1>1
  <2>2. QED BY <1>1, <1>5, <1>7, <2>1, FramesPush
<1>9. NoWhen(<<f>>)
  BY <1>2 DEF NoWhen
<1>10. QED BY <1>3, <1>5, <1>6, <1>8, <1>9 DEF f

\* The lists of process, called by a timer.
LEMMA FireTimerInv ==
  ASSUME DInv, FireTimer
  PROVE  DInv'
<1> DEFINE t == Head(timers)
           here == <<ProcessFrame(t.to, t.depth)>>
<1>1. /\ CoreInv /\ Idle /\ timers # <<>> /\ timers' = Tail(timers)
      /\ UNCHANGED <<heard, emptied, ops, state, thens, maxDepth, hooks, args, remaining>>
      /\ UNCHANGED historyVars
  BY DEF FireTimer, DInv
<1>2. /\ timers \in Seq(Timer) /\ Tail(timers) \in Seq(Timer) /\ t = timers[1]
      /\ 1 \in DOMAIN timers
      /\ \A i \in DOMAIN Tail(timers) : i + 1 \in DOMAIN timers /\ Tail(timers)[i] = timers[i + 1]
  <2>1. timers \in Seq(Timer)
    BY <1>1 DEF CoreInv, DeferredTypes
  <2>2. QED BY <1>1, <2>1, TailElements
<1>3. /\ t \in Timer /\ Due(t, source, maxDepth) /\ t.v \in Data
      /\ t.how # "progress" => Heedable(t.v, answers)
  BY <1>1, <1>2, InSeq DEF CoreInv, Promised, DInv, AnswersInv
<1>4. /\ t.to \in Deferreds /\ Made(t.to) /\ args[t.to] = <<>>
      /\ t.depth \in 0 .. maxDepth[t.to] /\ maxDepth[t.to] \in Nat
  BY <1>1, <1>3, DueMade
<1>5. Steady
  BY <1>1, <1>2 DEF CoreInv, DeferredTypes, Promised, Steady, historyVars
<1>6. \A k \in DOMAIN timers' :
         timers'[k].how # "progress" => Heedable(timers'[k].v, answers)
  BY <1>1, <1>2 DEF DInv, AnswersInv
<1>7. /\ Quiet(lists) /\ NoWhen(stack) /\ stack = <<>> /\ stack \in Seq(StackFrame)
      /\ Frames(stack, hooks, maxDepth, source, args)
      /\ Sound(lists, stack, state, registered, args)
  BY <1>1, Calm DEF Idle, CoreInv
<1>8. /\ here \in Seq(StackFrame) /\ NoWhen(here)
      /\ Sound(lists, here, state, registered, args)
      /\ Frames(here, hooks, maxDepth, source, args)
      /\ Len(here) = 1 /\ here[1] = ProcessFrame(t.to, t.depth) /\ DOMAIN here = {1}
      /\ here[1].frame = "process"
  <2>1. Due(ProcessFrame(t.to, t.depth), source, maxDepth)
    BY <1>3 DEF Due, ProcessFrame
  <2>2. ProcessFrame(t.to, t.depth).frame = "process"
    BY DEF ProcessFrame
  <2>3. QED BY <1>1, <1>4, <2>1, <2>2, ProcessAlone
<1>9. /\ heard' = heard /\ registered' = registered /\ remaining' = remaining
      /\ emptied' = emptied /\ answers' = answers
  BY <1>1 DEF historyVars
<1>10. CASE UNCHANGED <<lists, stack>>
  <2>1. /\ SameWhen(stack, stack') /\ \A k \in DOMAIN stack' :
              stack'[k].frame = "handler" => Heedable(stack'[k].v, answers)
        /\ Sound(lists, stack', state, registered, args)
        /\ Frames(stack', hooks, maxDepth, source, args)
    BY <1>7, <1>10, SameWhenNone
  <2>2. QED BY <1>5, <1>6, <1>9, <1>10, <2>1, StackKept
<1>11. CASE /\ t.how = "call" /\ ~(t.depth < maxDepth[t.to]) /\ lists' = lists
            /\ stack' = Append(here, HandlerFrame(t.to, t.v))
  <2> DEFINE f == HandlerFrame(t.to, t.v)
  <2>1. f.frame = "handler" /\ f.to = t.to /\ f.v = t.v /\ f \in StackFrame
    BY <1>3, <1>4 DEF HandlerFrame, StackFrame
  <2>2. stack' = Append(here, f)
    BY <1>11
  <2> HIDE DEF f, here, t
  <2>3. Sound(lists, stack', state, registered, args)
    BY <1>7, <1>8, <2>1, <2>2, PushSound
  <2>4. /\ Len(here) + 1 = 2 /\ stack'[1] = here[1] /\ stack'[2] = f
        /\ DOMAIN stack' = {1, 2}
    <3>1. /\ Len(Append(here, f)) = 2 /\ DOMAIN Append(here, f) = 1 .. 2
          /\ Append(here, f)[1] = here[1] /\ Append(here, f)[2] = f
      <4>1. Len(here) + 1 = 2 /\ 1 .. Len(here) = {1}
        BY <1>8
      <4>2. /\ Len(Append(here, f)) = Len(here) + 1
            /\ DOMAIN Append(here, f) = 1 .. Len(here) + 1
            /\ \A k \in 1 .. Len(here) : Append(here, f)[k] = here[k]
            /\ Append(here, f)[Len(here) + 1] = f
        <5>1. here \in Seq(StackFrame)
          BY <1>8
        <5>2. f \in StackFrame
          BY <2>1
        <5>3. QED BY <5>1, <5>2, Appended
      <4>3. QED BY <4>1, <4>2, Zenon
    <3>2. QED BY <1>8, <2>2, <3>1
  <2>5. Frames(stack', hooks, maxDepth, source, args)
    <3>1. t.depth = maxDepth[t.to]
      BY <1>4, <1>11
    <3>2. RestsOn(stack', 2, hooks, maxDepth, source, args)
      BY <1>8, <2>1, <2>4, <3>1 DEF RestsOn
    <3>3. QED BY <1>8, <2>1, <2>2, <2>4, <3>2, FramesPush
  <2>6. NoWhen(stack')
    BY <1>8, <2>1, <2>4 DEF NoWhen
  <2>7. SameWhen(stack, stack')
    BY <1>7, <2>6, SameWhenNone
  <2>8. \A k \in DOMAIN stack' :
           stack'[k].frame = "handler" => Heedable(stack'[k].v, answers)
    BY <1>3, <1>8, <1>11, <2>1, <2>4
  <2>9. QED BY <1>5, <1>6, <1>9, <1>11, <2>3, <2>5, <2>7, <2>8, StackKept
<1>12. ASSUME NEW on \in Ons, NEW s0 \in {<<>>, here}, t.how # "progress" \/ on = "progress",
              Fires(lists, <<t.to, on>>, t.v, s0)
       PROVE  DInv'
  <2> HIDE DEF here, t
  <2>1. /\ NoWhen(s0) /\ Sound(lists, s0, state, registered, args)
        /\ Frames(s0, hooks, maxDepth, source, args)
        /\ \A k \in DOMAIN s0 : s0[k].frame = "handler" => Heedable(s0[k].v, answers)
    <3>1. CASE s0 = <<>>
      BY <1>7, <3>1
    <3>2. CASE s0 = here
      BY <1>8, <3>2
    <3>3. QED BY <3>1, <3>2, <1>12
  <2>2. QED BY <1>3, <1>4, <1>5, <1>6, <1>7, <1>9, <1>12, <2>1, FireKept
<1>13. QED
  <2>1. {"done", "fail", "progress"} = Ons
    BY DEF Ons
  <2>2. CASE ~(t.depth < maxDepth[t.to]) /\ t.how = "fail" /\ Caught(t.to, t.depth, t.v, <<>>)
    <3>1. t.depth + 1 >= maxDepth[t.to]
      BY <1>4, <2>2
    <3>2. Fires(lists, <<t.to, "fail">>, t.v, <<>>)
      BY <2>2, <3>1 DEF Caught
    <3>3. "fail" \in Ons /\ <<>> \in {<<>>, here} /\ t.how # "progress"
      BY <2>1, <2>2
    <3>4. QED BY <1>12, <3>2, <3>3
  <2>3. CASE t.how = "done" /\ Fires(lists, <<t.to, "done">>, t.v, here)
    <3>1. "done" \in Ons /\ here \in {<<>>, here} /\ t.how # "progress"
      BY <2>1, <2>3
    <3>2. QED BY <1>12, <2>3, <3>1
  <2>4. CASE t.how = "progress" /\ Fires(lists, <<t.to, "progress">>, t.v, <<>>)
    <3>1. "progress" \in Ons /\ <<>> \in {<<>>, here}
      BY <2>1
    <3>2. QED BY <1>12, <2>4, <3>1
  <2>5. \/ UNCHANGED <<lists, stack>>
        \/ /\ ~(t.depth < maxDepth[t.to]) /\ t.how = "call"
           /\ stack' = Append(here, HandlerFrame(t.to, t.v)) /\ lists' = lists
        \/ ~(t.depth < maxDepth[t.to]) /\ t.how = "fail" /\ Caught(t.to, t.depth, t.v, <<>>)
        \/ t.how = "done" /\ Fires(lists, <<t.to, "done">>, t.v, here)
        \/ t.how = "progress" /\ Fires(lists, <<t.to, "progress">>, t.v, <<>>)
    BY DEF FireTimer
  <2>6. QED BY <1>10, <1>11, <2>2, <2>3, <2>4, <2>5

\* A thenable answers: only its first answer may settle anything.
LEMMA AnswersMore ==
  ASSUME AnswersInv, CoreInv, NEW h \in hooks, Answering(h), timers' = timers,
         \A d \in Deferreds : maxDepth'[d] \in Nat /\ maxDepth[d] <= maxDepth'[d],
         \A d \in Deferreds, on \in Outcomes :
            \/ lists'[<<d, on>>].memory = lists[<<d, on>>].memory
            \/ /\ lists'[<<d, on>>].memory = NewAnswer
               /\ \A k \in DOMAIN answers : answers[k].hook # h,
         maxDepth'[h.to] > h.depth \/ Decided(h.to, lists'),
         \A k \in DOMAIN stack' :
            stack'[k].frame = "handler" => k \in DOMAIN stack /\ stack'[k] = stack[k]
  PROVE  AnswersInv'
<1> DEFINE a == [hook |-> h, v |-> NewAnswer]
           an == answers
<1>1. /\ an \in Seq([hook : [to : Deferreds, depth : Nat \ {0}], v : Nat])
      /\ h \in [to : Deferreds, depth : Nat \ {0}]
      /\ Len(an) \in Nat /\ DOMAIN an = 1 .. Len(an)
      /\ answers' = Append(an, a) /\ NewAnswer = MaxOps + Len(an) + 1
      /\ MaxOps \in Nat /\ MaxAnswers \in Nat /\ h.to \in Deferreds
      /\ timers \in Seq(Timer) /\ stack \in Seq(StackFrame)
  BY CallbacksAssumption, DeferredAssumption
  DEF CoreInv, DeferredTypes, Sound, Answering, NewAnswer
<1>2. NewAnswer \in Nat /\ NewAnswer # NoData
  BY <1>1 DEF NoData
<1>3. \A k \in DOMAIN an : an[k].v = MaxOps + k
  BY DEF CoreInv, Promised
<1>4. \A v \in Nat : Heedable(v, an) => Heedable(v, answers')
  BY <1>1, HeedableMore DEF NewAnswer
<1>5. (\A k \in DOMAIN an : an[k].hook # h) => Heedable(NewAnswer, answers')
  BY <1>1, <1>3, HeedableNew DEF NewAnswer
<1>6. \A d \in Deferreds, on \in Outcomes : lists[<<d, on>>].memory \in Nat
  <2>1. OnceLists(lists)
    BY DEF CoreInv, Sound
  <2>2. SUFFICES ASSUME NEW d \in Deferreds, NEW on \in Outcomes
                 PROVE  lists[<<d, on>>].memory \in Nat
    OBVIOUS
  <2>3. lists[<<d, on>>] \in CallbackList
    BY <2>1 DEF OnceLists, OnceList
  <2>4. lists[<<d, on>>].memory \in Datum \cup {NoData}
    BY <2>3, CallbackListFields
  <2>5. QED BY <2>4 DEF Datum, NoData
<1>7. \A d \in Deferreds : Decided(d, lists) => Decided(d, lists')
  BY <1>2 DEF Decided
<1>8. ASSUME NEW k \in DOMAIN answers'
      PROVE  maxDepth'[answers'[k].hook.to] > answers'[k].hook.depth
                \/ Decided(answers'[k].hook.to, lists')
  <2>0. /\ DOMAIN answers' = 1 .. Len(an) + 1 /\ answers'[Len(an) + 1] = a
        /\ \A j \in 1 .. Len(an) : answers'[j] = an[j]
        /\ \A j \in DOMAIN an : an[j].hook.to \in Deferreds /\ an[j].hook.depth \in Nat
        /\ a.hook = h
    <3>1. a \in [hook : [to : Deferreds, depth : Nat \ {0}], v : Nat]
      BY <1>1, <1>2
    <3>2. \A j \in DOMAIN an : an[j] \in [hook : [to : Deferreds, depth : Nat \ {0}], v : Nat]
      BY <1>1, InSeq
    <3>3. a.hook = h
      OBVIOUS
    <3> HIDE DEF a, an
    <3>4. QED BY <1>1, <3>1, <3>2, <3>3, Appended
  <2> HIDE DEF an, a
  <2>1. CASE k = Len(an) + 1
    BY <2>0, <2>1
  <2>2. CASE k # Len(an) + 1
    <3>1. k \in DOMAIN an /\ answers'[k] = an[k]
      <4>1. Len(an) \in Nat /\ DOMAIN an = 1 .. Len(an)
        BY <1>1
      <4>2. k \in 1 .. Len(an) + 1
        BY <1>8, <2>0
      <4>3. k \in 1 .. Len(an)
        BY <2>2, <4>1, <4>2
      <4>4. QED BY <2>0, <4>1, <4>3
    <3>2. an[k].hook.to \in Deferreds
      BY <2>0, <3>1
    <3>3. \/ maxDepth[an[k].hook.to] > an[k].hook.depth
          \/ Decided(an[k].hook.to, lists)
      BY <3>1 DEF AnswersInv, an
    <3>4. maxDepth[an[k].hook.to] \in Nat /\ an[k].hook.depth \in Nat
      BY <2>0, <3>1, <3>2 DEF CoreInv, DeferredTypes
    <3>5. QED BY <3>1, <3>2, <3>3, <3>4, <1>7
  <2>3. QED BY <2>1, <2>2
<1>9. \A d \in Deferreds, on \in Outcomes : Heedable(lists'[<<d, on>>].memory, answers')
  BY <1>4, <1>5, <1>6 DEF AnswersInv
<1>10. \A k \in DOMAIN timers' : timers'[k].how # "progress" => Heedable(timers'[k].v, answers')
  <2>1. \A k \in DOMAIN timers : timers[k].v \in Nat
    BY <1>1 DEF CoreInv, Promised, Data
  <2>2. QED BY <1>4, <2>1 DEF AnswersInv
<1>11. \A k \in DOMAIN stack' : stack'[k].frame = "handler" => Heedable(stack'[k].v, answers')
  <2>1. \A k \in DOMAIN stack : stack[k].frame = "handler" => stack[k].v \in Nat
    <3>1. SUFFICES ASSUME NEW k \in DOMAIN stack, stack[k].frame = "handler"
                   PROVE  stack[k].v \in Nat
      OBVIOUS
    <3>2. stack[k] \in StackFrame
      BY <1>1, InSeq
    <3>3. stack[k].v \in Data
      BY <3>1, <3>2 DEF StackFrame
    <3>4. QED BY <1>1, <3>3 DEF Data
  <2>2. QED BY <1>4, <2>1 DEF AnswersInv
<1>12. QED BY <1>8, <1>9, <1>10, <1>11 DEF AnswersInv

\* The thenable that is followed now has not answered, or the deferred is settled.
LEMMA FirstAnswer ==
  ASSUME CoreInv, AnswersInv, Quiet(lists), NEW h \in hooks, h.depth >= maxDepth[h.to],
         state[h.to] = "pending"
  PROVE  \A k \in DOMAIN answers : answers[k].hook # h
<1>1. SUFFICES ASSUME NEW k \in DOMAIN answers, answers[k].hook = h PROVE FALSE
  OBVIOUS
<1>2. h.to \in Deferreds /\ h.depth \in Nat /\ maxDepth[h.to] \in Nat
  BY DEF CoreInv, DeferredTypes
<1>3. Decided(h.to, lists)
  BY <1>1, <1>2 DEF AnswersInv
<1>4. ~Decided(h.to, lists)
  <2>1. "done" \in Outcomes
    BY DEF Outcomes
  <2>2. state[h.to] \in {"unused", "pending"}
    OBVIOUS
  <2>3. Sound(lists, stack, state, registered, args)
    BY DEF CoreInv
  <2>4. QED BY <1>2, <2>1, <2>2, <2>3, MemoryOf
<1>5. QED BY <1>3, <1>4

\* A thenable's answer is heeded, or is caught: a list is fired.
LEMMA FireAnswer ==
  ASSUME DInv, NEW s0, NoWhen(stack), NoWhen(s0),
         Sound(lists, s0, state, registered, args),
         Frames(s0, hooks, maxDepth, source, args), Quiet(lists),
         NEW h \in hooks, Answering(h), NEW on \in Outcomes, h.depth >= maxDepth[h.to],
         Fires(lists, <<h.to, on>>, NewAnswer, s0),
         UNCHANGED <<heard, emptied, ops, deferredVars, registered, source>>,
         \A k \in DOMAIN s0 : s0[k].frame = "handler" => k \in DOMAIN stack /\ s0[k] = stack[k]
  PROVE  DInv'
<1> DEFINE d == h.to
           v == NewAnswer
<1>1. CoreInv /\ AnswersInv
  BY DEF DInv
<1>2. d \in Deferreds /\ Made(d) /\ args[d] = <<>>
  <2>1. Due(h, source, maxDepth)
    BY <1>1 DEF CoreInv, Promised
  <2>2. QED BY <1>1, <2>1, DueMade
<1>3. v \in Data /\ on \in Ons
  <2>1. Len(answers) \in Nat /\ Len(answers) < MaxAnswers /\ MaxOps \in Nat /\ MaxAnswers \in Nat
    BY <1>1, CallbacksAssumption, DeferredAssumption DEF CoreInv, DeferredTypes, Answering
  <2>2. QED BY <2>1, OthersOf DEF Data, NewAnswer
<1>4. Steady
  <2>1. ops \in 0 .. MaxOps
    BY <1>1 DEF CoreInv, DeferredTypes
  <2>2. QED BY <1>1, <2>1, SteadyNow
<1>5. /\ heard' = heard /\ registered' = registered /\ state' = state /\ args' = args
      /\ remaining' = remaining /\ timers' = timers /\ maxDepth' = maxDepth /\ emptied' = emptied
  BY DEF deferredVars
<1> HIDE DEF v, d
<1>6. /\ Sound(lists', stack', state, registered, args)
      /\ Frames(stack', hooks, maxDepth, source, args)
      /\ SameUnmade /\ OrderInv' /\ WaitsInv'
      /\ \A e \in Deferreds, o \in Outcomes :
            lists'[<<e, o>>].memory =
               IF e = d /\ o = on /\ state[d] = "pending" THEN v ELSE lists[<<e, o>>].memory
      /\ \A k \in DOMAIN stack' :
            stack'[k].frame = "handler" => k \in DOMAIN s0 /\ stack'[k] = s0[k]
  <2>1. Fires(lists, <<d, on>>, v, s0)
    BY DEF d, v
  <2>2. QED BY <1>2, <1>3, <1>5, <2>1, FireCase
<1>7. CoreInv'
  BY <1>1, <1>4, <1>5, <1>6, CoreSteady DEF NewAnswers
<1>8. AnswersInv'
  <2>1. \A e \in Deferreds, o \in Outcomes :
           \/ lists'[<<e, o>>].memory = lists[<<e, o>>].memory
           \/ /\ lists'[<<e, o>>].memory = NewAnswer
              /\ \A k \in DOMAIN answers : answers[k].hook # h
    <3>1. state[h.to] = "pending" => \A k \in DOMAIN answers : answers[k].hook # h
      BY <1>1, FirstAnswer
    <3>2. SUFFICES ASSUME NEW e \in Deferreds, NEW o \in Outcomes,
                          lists'[<<e, o>>].memory # lists[<<e, o>>].memory
                   PROVE  lists'[<<e, o>>].memory = v /\ state[d] = "pending"
      BY <3>1 DEF d, v
    <3>3. QED BY <1>6, <3>2
  <2>2. Decided(d, lists')
    <3>1. CASE state[d] = "pending"
      <4>1. lists'[<<d, on>>].memory = v
        BY <1>2, <1>6, <3>1
      <4>2. v # NoData
        BY <1>3, DataDatum
      <4>3. QED BY <4>1, <4>2 DEF Decided
    <3>2. CASE state[d] # "pending"
      <4>1. Decided(d, lists)
        <5>1. state[d] \notin {"unused", "pending"}
          BY <1>2, <3>2 DEF Made
        <5>2. QED BY <1>1, <1>2, <5>1, MemoryOf DEF CoreInv
      <4>2. \A o \in Outcomes : lists'[<<d, o>>].memory = lists[<<d, o>>].memory
        BY <1>2, <1>6, <3>2
      <4>3. QED BY <4>1, <4>2 DEF Decided
    <3>3. QED BY <3>1, <3>2
  <2>3. \A k \in DOMAIN stack' :
           stack'[k].frame = "handler" => k \in DOMAIN stack /\ stack'[k] = stack[k]
    BY <1>6
  <2>4. \A e \in Deferreds : maxDepth'[e] \in Nat /\ maxDepth[e] <= maxDepth'[e]
    BY <1>1, <1>5 DEF CoreInv, DeferredTypes
  <2>5. QED BY <1>1, <1>5, <2>1, <2>2, <2>3, <2>4, AnswersMore DEF d
<1>9. QED BY <1>5, <1>6, <1>7, <1>8 DEF DInv

\* .. or is not heeded.
LEMMA IgnoreAnswer ==
  ASSUME DInv, lists' = lists, NEW h \in hooks, Answering(h), h.depth < maxDepth[h.to],
         SameWhen(stack, stack'),
         Sound(lists, stack', state, registered, args),
         Frames(stack', hooks, maxDepth, source, args),
         UNCHANGED <<heard, emptied, ops, deferredVars, registered, source>>,
         \A k \in DOMAIN stack' :
            stack'[k].frame = "handler" => k \in DOMAIN stack /\ stack'[k] = stack[k]
  PROVE  DInv'
<1>1. CoreInv /\ AnswersInv
  BY DEF DInv
<1>2. Steady
  <2>1. ops \in 0 .. MaxOps
    BY <1>1 DEF CoreInv, DeferredTypes
  <2>2. QED BY <1>1, <2>1, SteadyNow
<1>3. /\ timers' = timers /\ maxDepth' = maxDepth /\ remaining' = remaining /\ emptied' = emptied
      /\ heard' = heard /\ registered' = registered
  BY DEF deferredVars
<1>4. CoreInv' /\ OrderInv' /\ WaitsInv'
  BY <1>2, <1>3, StackCase DEF NewAnswers
<1>5. AnswersInv'
  <2>1. /\ maxDepth'[h.to] > h.depth
        /\ \A e \in Deferreds : maxDepth'[e] \in Nat /\ maxDepth[e] <= maxDepth'[e]
    <3>1. h.depth \in Nat /\ maxDepth[h.to] \in Nat
      BY <1>1 DEF CoreInv, DeferredTypes
    <3>2. maxDepth \in [Deferreds -> Nat]
      BY <1>1 DEF CoreInv, DeferredTypes
    <3>3. QED BY <1>3, <3>1, <3>2
  <2>2. QED BY <1>1, <1>3, <2>1, AnswersMore
<1>6. QED BY <1>3, <1>4, <1>5 DEF DInv

LEMMA HookIgnoredInv ==
  ASSUME DInv, NEW h \in hooks, HookIgnored(h)
  PROVE  DInv'
<1>1. /\ Answering(h) /\ ~Heeded(h)
      /\ UNCHANGED <<lists, stack, heard, emptied, ops, deferredVars, registered, source>>
  BY DEF HookIgnored, Calls
<1>2. CoreInv
  BY DEF DInv
<1>3. h.depth < maxDepth[h.to]
  <2>1. h.depth \in Nat /\ maxDepth[h.to] \in Nat
    BY <1>2 DEF CoreInv, DeferredTypes
  <2>2. QED BY <1>1, <2>1 DEF Heeded
<1>4. SameWhen(stack, stack')
  BY <1>1 DEF SameWhen
<1>5. QED BY <1>1, <1>2, <1>3, <1>4, IgnoreAnswer DEF CoreInv

\* process is called by a hook, from the event loop or by its thenable.
LEMMA HookStack ==
  ASSUME CoreInv, NEW h \in hooks, Calls(h)
  PROVE  /\ Quiet(lists) /\ NoWhen(stack) /\ stack \in Seq(StackFrame)
         /\ Sound(lists, stack, state, registered, args)
         /\ Frames(stack, hooks, maxDepth, source, args)
         /\ \A j \in DOMAIN stack : stack[j].frame \in {"process", "foreign"}
         /\ LET s0 == Append(stack, ProcessFrame(h.to, h.depth))
            IN  /\ NoWhen(s0) /\ Sound(lists, s0, state, registered, args)
                /\ s0 \in Seq(StackFrame)
                /\ Frames(s0, hooks, maxDepth, source, args)
                /\ \A k \in DOMAIN s0 : s0[k].frame \in {"process", "foreign"}
<1>1. /\ Idle \/ On("foreign")
      /\ Sound(lists, stack, state, registered, args)
      /\ Frames(stack, hooks, maxDepth, source, args)
  BY DEF Calls, CoreInv
<1>2. /\ Quiet(lists) /\ NoWhen(stack) /\ stack \in Seq(StackFrame)
      /\ Len(stack) \in Nat /\ DOMAIN stack = 1 .. Len(stack)
  BY <1>1, Calm DEF On
<1>3. \A j \in DOMAIN stack : stack[j].frame \in {"process", "foreign"}
  <2>1. CASE Idle
    BY <2>1 DEF Idle
  <2>2. CASE On("foreign")
    <3>1. Len(stack) \in DOMAIN stack /\ stack[Len(stack)].frame = "foreign"
      BY <1>2, <2>2 DEF On, Top, Idle
    <3>2. \A j \in 1 .. Len(stack) - 1 : stack[j].frame \in {"process", "foreign"}
      BY <1>1, <3>1 DEF Frames, RestsOn
    <3>3. QED BY <1>2, <3>1, <3>2
  <2>3. QED BY <1>1, <2>1, <2>2
<1> DEFINE f == ProcessFrame(h.to, h.depth)
<1>4. f.frame = "process" /\ f \in StackFrame /\ Due(f, source, maxDepth)
  <2>1. Due(h, source, maxDepth) /\ h.to \in Deferreds /\ h.depth \in Nat
    BY DEF CoreInv, Promised, DeferredTypes
  <2>2. f \in [frame : {"process"}, to : Deferreds, depth : Nat]
    BY <2>1 DEF ProcessFrame
  <2>3. f.to = h.to /\ f.depth = h.depth /\ f.frame = "process"
    BY DEF ProcessFrame
  <2>4. QED BY <2>1, <2>2, <2>3 DEF StackFrame, Due
<1> HIDE DEF f
<1> DEFINE s0 == Append(stack, f)
<1>5. /\ DOMAIN s0 = 1 .. Len(stack) + 1 /\ s0[Len(stack) + 1] = f
      /\ s0 \in Seq(StackFrame)
      /\ \A k \in 1 .. Len(stack) : s0[k] = stack[k]
  BY <1>2, <1>4, Appended
<1>6. \A k \in DOMAIN s0 : s0[k].frame \in {"process", "foreign"}
  BY <1>2, <1>3, <1>4, <1>5
<1>7. NoWhen(s0)
  BY <1>6 DEF NoWhen
<1>8. Sound(lists, s0, state, registered, args)
  BY <1>1, <1>2, <1>4, PushSound
<1>9. Frames(s0, hooks, maxDepth, source, args)
  <2>1. RestsOn(s0, Len(stack) + 1, hooks, maxDepth, source, args)
    <3> DEFINE n == Len(stack) + 1
    <3>1. /\ n \in Nat /\ s0[n] = f /\ f.frame = "process" /\ Due(f, source, maxDepth)
          /\ \A j \in 1 .. n - 1 : s0[j].frame \in {"process", "foreign"}
      BY <1>2, <1>3, <1>4, <1>5
    <3> HIDE DEF n, s0
    <3>2. RestsOn(s0, n, hooks, maxDepth, source, args)
      BY <3>1 DEF RestsOn
    <3>3. QED BY <3>2 DEF n
  <2>2. QED BY <1>1, <1>2, <2>1, FramesPush
<1>10. QED BY <1>1, <1>2, <1>3, <1>5, <1>6, <1>7, <1>8, <1>9 DEF f

LEMMA HookSettlesInv ==
  ASSUME DInv, NEW h \in hooks, HookSettles(h)
  PROVE  DInv'
<1> DEFINE s0 == Append(stack, ProcessFrame(h.to, h.depth))
<1>1. /\ Answering(h) /\ h.depth >= maxDepth[h.to] /\ Calls(h)
      /\ \/ Fires(lists, <<h.to, "done">>, NewAnswer, s0)
         \/ Caught(h.to, h.depth, NewAnswer, stack)
      /\ UNCHANGED <<heard, emptied, ops, deferredVars, registered, source>>
  BY DEF HookSettles, Calls, Heeded
<1>2. CoreInv
  BY DEF DInv
<1>3. /\ Quiet(lists) /\ NoWhen(stack) /\ stack \in Seq(StackFrame)
      /\ Sound(lists, stack, state, registered, args)
      /\ Frames(stack, hooks, maxDepth, source, args)
      /\ NoWhen(s0) /\ Sound(lists, s0, state, registered, args)
      /\ Frames(s0, hooks, maxDepth, source, args)
      /\ \A k \in DOMAIN s0 : s0[k].frame \in {"process", "foreign"}
  BY <1>1, <1>2, HookStack
<1>4. CASE Fires(lists, <<h.to, "done">>, NewAnswer, s0)
  <2> HIDE DEF s0
  <2>1. "done" \in Outcomes /\ \A k \in DOMAIN s0 : s0[k].frame # "handler"
    BY <1>3 DEF Outcomes
  <2>2. QED BY <1>1, <1>3, <1>4, <2>1, FireAnswer
<1>5. CASE Caught(h.to, h.depth, NewAnswer, stack)
  <2>1. "fail" \in Outcomes
    BY DEF Outcomes
  <2>2. h.depth + 1 >= maxDepth[h.to]
    <3>1. h.depth \in Nat /\ maxDepth[h.to] \in Nat
      BY <1>2 DEF CoreInv, DeferredTypes
    <3>2. QED BY <1>1, <3>1
  <2>3. Fires(lists, <<h.to, "fail">>, NewAnswer, stack)
    BY <1>5, <2>2 DEF Caught
  <2>4. QED BY <1>1, <1>3, <2>1, <2>3, FireAnswer
<1>6. QED BY <1>1, <1>4, <1>5

-----------------------------------------------------------------------------
(* An exception.                                                           *)

LEMMA MaxIn ==
  ASSUME NEW n \in Nat, NEW T, T \subseteq 1 .. n, T # {}
  PROVE  Max(T) \in T /\ \A y \in T : Max(T) >= y
<1> DEFINE U == {n - k : k \in T}
<1>0. \A k \in T : k \in Nat /\ n - k \in Nat
  OBVIOUS
<1>1. U \subseteq Nat /\ U # {}
  BY <1>0
<1>2. PICK u \in U : \A w \in U : u <= w
  BY <1>1, NatMin
<1>3. PICK k \in T : u = n - k
  OBVIOUS
<1>4. \A y \in T : k >= y
  <2>1. SUFFICES ASSUME NEW y \in T PROVE k >= y
    OBVIOUS
  <2>2. n - k <= n - y
    BY <1>2, <1>3
  <2>3. QED BY <1>0, <2>2
<1>5. QED BY <1>3, <1>4 DEF Max

\* The stack below one of its frames.
LEMMA BelowFrame ==
  ASSUME CoreInv, Quiet(lists), NoWhen(stack), NEW k \in DOMAIN stack
  PROVE  LET s0 == SubSeq(stack, 1, k - 1)
         IN  /\ NoWhen(s0) /\ Sound(lists, s0, state, registered, args)
             /\ Frames(s0, hooks, maxDepth, source, args)
             /\ s0 \in Seq(StackFrame) /\ Len(s0) = k - 1 /\ DOMAIN s0 = 1 .. k - 1
             /\ \A j \in DOMAIN s0 : j \in DOMAIN stack /\ s0[j] = stack[j]
<1>1. stack \in Seq(StackFrame) /\ Len(stack) \in Nat /\ DOMAIN stack = 1 .. Len(stack)
  BY DEF CoreInv, Sound
<1>2. k \in Nat /\ k >= 1 /\ k <= Len(stack) /\ k - 1 \in Nat
  BY <1>1
<1> DEFINE s0 == SubSeq(stack, 1, k - 1)
<1>3. /\ s0 \in Seq(StackFrame) /\ Len(s0) = k - 1 /\ DOMAIN s0 = 1 .. k - 1
      /\ \A j \in DOMAIN s0 : j \in DOMAIN stack /\ s0[j] = stack[j]
  BY <1>1, <1>2
<1> HIDE DEF s0
<1>4. NoWhen(s0)
  BY <1>3 DEF NoWhen
<1>5. Len(s0) <= Len(stack) /\ Len(s0) \in Nat /\ DOMAIN s0 = 1 .. Len(s0)
  BY <1>2, <1>3
<1>6. Sound(lists, s0, state, registered, args)
  BY <1>3, <1>5, PrefixSound DEF CoreInv
<1>7. Frames(s0, hooks, maxDepth, source, args)
  BY <1>1, <1>3, <1>5, FramesPrefix DEF CoreInv
<1>8. QED BY <1>3, <1>4, <1>6, <1>7 DEF s0

\* An exception of the application.
ThrowsOwn ==
    /\ ~Idle /\ Top.frame \in {"body", "handler"}
    /\ ops' \in 0 .. MaxOps /\ ops' >= ops
    /\ ops + 1 \in Data /\ ops + 1 \in 0 .. MaxOps
    /\ UNCHANGED <<heard, emptied, deferredVars, registered, source, answers>>

LEMMA ThrowsOwnKept ==
  ASSUME DInv, ThrowsOwn, NEW s0, NoWhen(s0), lists' = lists, stack' = s0,
         Sound(lists, s0, state, registered, args),
         Frames(s0, hooks, maxDepth, source, args),
         \A j \in DOMAIN s0 : j \in DOMAIN stack /\ s0[j] = stack[j]
  PROVE  DInv'
<1>1. CoreInv /\ AnswersInv /\ Steady
  BY SteadyNow DEF DInv, ThrowsOwn
<1>2. NoWhen(stack)
  BY <1>1, Calm DEF ThrowsOwn
<1>3. SameWhen(stack, stack')
  BY <1>2, SameWhenNone
<1>4. /\ \A k \in DOMAIN timers' :
            timers'[k].how # "progress" => Heedable(timers'[k].v, answers)
      /\ \A k \in DOMAIN stack' : stack'[k].frame = "handler" => Heedable(stack'[k].v, answers)
      /\ answers' = answers /\ remaining' = remaining /\ registered' = registered
      /\ heard' = heard /\ emptied' = emptied
  BY <1>1 DEF AnswersInv, deferredVars, ThrowsOwn
<1>5. Sound(lists, stack', state, registered, args)
      /\ Frames(stack', hooks, maxDepth, source, args)
  OBVIOUS
<1>6. QED BY <1>1, <1>3, <1>4, <1>5, StackKept

LEMMA ThrowsOwnFires ==
  ASSUME DInv, ThrowsOwn, NEW s0, NoWhen(s0), NEW d \in Deferreds, Made(d), args[d] = <<>>,
         Fires(lists, <<d, "fail">>, ops + 1, s0),
         Sound(lists, s0, state, registered, args),
         Frames(s0, hooks, maxDepth, source, args),
         \A j \in DOMAIN s0 : j \in DOMAIN stack /\ s0[j] = stack[j]
  PROVE  DInv'
<1>1. CoreInv /\ AnswersInv /\ Steady
  BY SteadyNow DEF DInv, ThrowsOwn
<1>2. NoWhen(stack) /\ Quiet(lists)
  BY <1>1, Calm DEF ThrowsOwn
<1>3. ops + 1 \in Data /\ Heedable(ops + 1, answers) /\ "fail" \in Ons
  BY <1>1, OldHeedable DEF ThrowsOwn, Ons
<1>4. /\ \A k \in DOMAIN timers' :
            timers'[k].how # "progress" => Heedable(timers'[k].v, answers)
      /\ \A k \in DOMAIN s0 : s0[k].frame = "handler" => Heedable(s0[k].v, answers)
      /\ answers' = answers /\ remaining' = remaining /\ registered' = registered
      /\ heard' = heard /\ emptied' = emptied
  BY <1>1 DEF AnswersInv, deferredVars, ThrowsOwn
<1>5. QED BY <1>1, <1>2, <1>3, <1>4, FireKept

LEMMA NothingLeft ==
  ASSUME CoreInv, Quiet(lists)
  PROVE  /\ NoWhen(<<>>) /\ Sound(lists, <<>>, state, registered, args)
         /\ Frames(<<>>, hooks, maxDepth, source, args)
<1>1. stack \in Seq(StackFrame) /\ Len(stack) \in Nat
  BY DEF CoreInv, Sound
<1>2. <<>> \in Seq(StackFrame) /\ Len(<<>>) <= Len(stack) /\ DOMAIN <<>> = {}
  BY <1>1
<1>3. Sound(lists, <<>>, state, registered, args)
  BY <1>1, <1>2, PrefixSound DEF CoreInv
<1>4. QED BY <1>2, <1>3 DEF NoWhen, Frames

LEMMA ThrowsInv ==
  ASSUME DInv, Throws
  PROVE  DInv'
<1> DEFINE catching == {k \in DOMAIN stack : stack[k].frame = "process"}
           k == Max(catching)
           s0 == SubSeq(stack, 1, k - 1)
           v == IF On("foreign") THEN NewAnswer ELSE ops + 1
<1>1. /\ \/ (On("body") \/ On("handler")) /\ Operation /\ UNCHANGED answers
         \/ On("foreign") /\ Answering(Top.hook) /\ UNCHANGED ops
      /\ IF catching = {} THEN stack' = <<>> /\ UNCHANGED lists
         ELSE Caught(stack[k].to, stack[k].depth, v, s0)
      /\ UNCHANGED <<heard, emptied, deferredVars, registered, source>>
  BY DEF Throws
<1>2. CoreInv /\ ~Idle /\ Top.frame \in {"body", "handler", "foreign"}
  BY <1>1 DEF DInv, On
<1>3. /\ Quiet(lists) /\ NoWhen(stack) /\ Len(stack) \in DOMAIN stack
      /\ Len(stack) \in Nat /\ DOMAIN stack = 1 .. Len(stack) /\ stack \in Seq(StackFrame)
      /\ Top = stack[Len(stack)]
  BY <1>2, Calm, CalmFront DEF Top
<1>4. ASSUME catching # {}
      PROVE  /\ k \in catching /\ \A j \in catching : k >= j
             /\ NoWhen(s0) /\ Sound(lists, s0, state, registered, args)
             /\ Frames(s0, hooks, maxDepth, source, args)
             /\ \A j \in DOMAIN s0 : j \in DOMAIN stack /\ s0[j] = stack[j]
             /\ stack[k].to \in Deferreds /\ Made(stack[k].to) /\ args[stack[k].to] = <<>>
  <2>1. k \in catching /\ \A j \in catching : k >= j
    <3>1. catching \subseteq 1 .. Len(stack)
      BY <1>3
    <3> HIDE DEF catching
    <3>2. QED BY <1>3, <1>4, <3>1, MaxIn
  <2> HIDE DEF k
  <2>2. k \in DOMAIN stack /\ stack[k].frame = "process"
    BY <2>1
  <2>3. Due(stack[k], source, maxDepth)
    BY <1>2, <2>2 DEF CoreInv, Frames, RestsOn
  <2>4. QED BY <1>2, <1>3, <2>1, <2>2, <2>3, BelowFrame, DueMade
<1>5. CASE On("foreign")
  <2> DEFINE h == Top.hook
  <2>1. Answering(h) /\ UNCHANGED ops
    BY <1>1, <1>5 DEF On
  <2>2. /\ h \in hooks /\ Len(stack) > 1
        /\ stack[Len(stack) - 1] = ProcessFrame(h.to, h.depth - 1)
    BY <1>2, <1>3, <1>5 DEF CoreInv, Frames, RestsOn, On
  <2>3. Len(stack) - 1 \in catching /\ Len(stack) \notin catching
    BY <1>3, <1>5, <2>2 DEF ProcessFrame, On
  <2>4. k = Len(stack) - 1 /\ catching # {}
    <3>1. catching # {} /\ k \in catching /\ k >= Len(stack) - 1
      BY <1>4, <2>3
    <3>2. k \in 1 .. Len(stack) /\ k # Len(stack)
      BY <1>3, <2>3, <3>1
    <3>3. Len(stack) \in Nat
      BY <1>3
    <3> HIDE DEF k, catching
    <3>4. k = Len(stack) - 1
      BY <3>1, <3>2, <3>3
    <3>5. QED BY <3>1, <3>4
  <2>5. stack[k].to = h.to /\ stack[k].depth = h.depth - 1
    BY <2>2, <2>4 DEF ProcessFrame
  <2>6. /\ h.depth \in Nat /\ maxDepth[h.to] \in Nat
        /\ h.depth - 1 + 1 = h.depth
    <3>1. h.depth \in Nat /\ maxDepth[h.to] \in Nat
      BY <1>2, <2>2 DEF CoreInv, DeferredTypes
    <3>2. QED BY <3>1
  <2>7. Caught(h.to, h.depth - 1, NewAnswer, s0)
    BY <1>1, <1>5, <2>4, <2>5
  <2>8. /\ NoWhen(s0) /\ Sound(lists, s0, state, registered, args)
        /\ Frames(s0, hooks, maxDepth, source, args)
        /\ \A j \in DOMAIN s0 : j \in DOMAIN stack /\ s0[j] = stack[j]
    BY <1>4, <2>4
  <2> HIDE DEF h, s0, k
  <2>9. CASE h.depth >= maxDepth[h.to]
    <3>1. Fires(lists, <<h.to, "fail">>, NewAnswer, s0)
      BY <2>6, <2>7, <2>9 DEF Caught
    <3>2. "fail" \in Outcomes
      BY DEF Outcomes
    <3>3. UNCHANGED <<heard, emptied, ops, deferredVars, registered, source>>
      BY <1>1, <2>1
    <3>4. QED BY <1>3, <2>1, <2>2, <2>8, <2>9, <3>1, <3>2, <3>3, FireAnswer
  <2>10. CASE h.depth < maxDepth[h.to]
    <3>1. stack' = s0 /\ lists' = lists
      BY <2>6, <2>7, <2>10 DEF Caught
    <3>2. SameWhen(stack, stack')
      BY <1>3, <2>8, <3>1, SameWhenNone
    <3>3. UNCHANGED <<heard, emptied, ops, deferredVars, registered, source>>
      BY <1>1, <2>1
    <3>4. /\ Sound(lists, stack', state, registered, args)
          /\ Frames(stack', hooks, maxDepth, source, args)
          /\ \A j \in DOMAIN stack' : j \in DOMAIN stack /\ stack'[j] = stack[j]
      BY <2>8, <3>1
    <3>5. QED BY <2>1, <2>2, <2>10, <3>1, <3>2, <3>3, <3>4, IgnoreAnswer
  <2>11. QED BY <2>6, <2>9, <2>10
<1>6. CASE ~On("foreign")
  <2>1. ThrowsOwn
    <3>1. /\ ops \in 0 .. MaxOps /\ ops < MaxOps /\ ops' = ops + 1 /\ answers' = answers
          /\ Top.frame \in {"body", "handler"}
      BY <1>1, <1>2, <1>6 DEF Operation, On, CoreInv, DeferredTypes
    <3>2. MaxOps \in Nat /\ MaxAnswers \in Nat
      BY CallbacksAssumption, DeferredAssumption
    <3>3. QED BY <1>1, <1>2, <3>1, <3>2 DEF ThrowsOwn, Data
  <2>2. CASE catching = {}
    <3>1. stack' = <<>> /\ lists' = lists
      BY <1>1, <2>2
    <3>2. /\ NoWhen(<<>>) /\ Sound(lists, <<>>, state, registered, args)
          /\ Frames(<<>>, hooks, maxDepth, source, args)
      BY <1>2, <1>3, NothingLeft
    <3>3. QED BY <2>1, <3>1, <3>2, ThrowsOwnKept
  <2>3. CASE catching # {}
    <3>1. Caught(stack[k].to, stack[k].depth, ops + 1, s0)
      BY <1>1, <1>6, <2>3
    <3>2. /\ NoWhen(s0) /\ Sound(lists, s0, state, registered, args)
          /\ Frames(s0, hooks, maxDepth, source, args)
          /\ \A j \in DOMAIN s0 : j \in DOMAIN stack /\ s0[j] = stack[j]
          /\ stack[k].to \in Deferreds /\ Made(stack[k].to) /\ args[stack[k].to] = <<>>
      BY <1>4, <2>3
    <3> HIDE DEF s0, k
    <3>3. \/ Fires(lists, <<stack[k].to, "fail">>, ops + 1, s0)
          \/ stack' = s0 /\ lists' = lists
      BY <3>1 DEF Caught
    <3>4. CASE Fires(lists, <<stack[k].to, "fail">>, ops + 1, s0)
      BY <2>1, <3>2, <3>4, ThrowsOwnFires
    <3>5. CASE stack' = s0 /\ lists' = lists
      BY <2>1, <3>2, <3>5, ThrowsOwnKept
    <3>6. QED BY <3>3, <3>4, <3>5
  <2>4. QED BY <2>2, <2>3
<1>7. QED BY <1>5, <1>6

-----------------------------------------------------------------------------
(* then.                                                                   *)

\* The lists stay, and deferreds are made.
MoreMade ==
    \A d \in Deferreds : state'[d] = state[d] \/ (state[d] = "unused" /\ state'[d] = "pending")

LEMMA ListsKept ==
  ASSUME DInv, MoreMade, UNCHANGED <<lists, heard, registered, args, remaining>>,
         SameWhen(stack, stack')
  PROVE  OrderInv' /\ WaitsInv'
<1>1. OrderInv'
  <2>1. \A e \in Deferreds, o \in Outcomes :
           /\ SameCalls(lists[<<e, o>>], lists'[<<e, o>>])
           /\ state'[e] = Final(o) <=> state[e] = Final(o)
           /\ state[e] = Final(o) => lists'[<<e, o>>].memory = lists[<<e, o>>].memory
    BY OthersOf DEF SameCalls, MoreMade
  <2>2. QED BY <2>1, OrderKept DEF DInv
<1>2. WaitsInv'
  <2>1. \A m \in Deferreds : args[m] # <<>> =>
           /\ SamePlaces(lists, lists', m)
           /\ \A on \in Outcomes : lists'[<<m, on>>].memory = lists[<<m, on>>].memory
    BY DEF SamePlaces
  <2>2. \A d \in Deferreds : Made(d) => state'[d] = state[d]
    BY DEF Made, MoreMade
  <2>3. QED BY <2>1, <2>2, WaitsInvKept DEF DInv
<1>3. QED BY <1>1, <1>2

LEMMA ArgsMore ==
  ASSUME MoreMade, args' = args, NEW d \in Deferreds, ArgsOK(d)
  PROVE  ArgsOK(d)'
<1>1. \A e \in Deferreds : Made(e) => Made(e)'
  BY DEF Made, MoreMade
<1>2. \A i \in 1 .. 2 : args[d][i] # 0 => args[d][i] \in Deferreds
  BY DEF ArgsOK, Deferreds
<1>3. QED BY <1>1, <1>2 DEF ArgsOK

\* What a registration by then adds.
ThenEffect(d, t) ==
    /\ thens' \in [Deferreds -> Seq(Then)]
    /\ \A e \in Deferreds : state[e] # "pending" => thens'[e] = thens[e]
    /\ \A e \in Deferreds : \A k \in DOMAIN thens'[e] :
          thens'[e][k] = t \/ (k \in DOMAIN thens[e] /\ thens'[e][k] = thens[e][k])
    /\ timers' \in Seq(Timer)
    /\ \A k \in DOMAIN timers' :
          \/ k \in DOMAIN timers /\ timers'[k] = timers[k]
          \/ /\ timers'[k].to = t.to /\ timers'[k].depth = t.depth /\ timers'[k].v \in Data
             /\ timers'[k].how # "progress" => Heedable(timers'[k].v, answers)

LEMMA OneMore ==
  ASSUME NEW S, NEW q \in Seq(S), NEW b \in BOOLEAN, NEW x, b => x \in S
  PROVE  LET r == q \o IF b THEN <<x>> ELSE <<>>
         IN  /\ r \in Seq(S)
             /\ \A k \in DOMAIN r : (k \in DOMAIN q /\ r[k] = q[k]) \/ (b /\ r[k] = x)
<1>1. CASE b = TRUE
  <2>1. x \in S
    BY <1>1
  <2>2. /\ Append(q, x) \in Seq(S) /\ Len(q) \in Nat /\ DOMAIN q = 1 .. Len(q)
        /\ DOMAIN Append(q, x) = 1 .. Len(q) + 1
        /\ \A k \in 1 .. Len(q) : Append(q, x)[k] = q[k]
        /\ Append(q, x)[Len(q) + 1] = x
    BY <2>1, Appended
  <2>3. q \o <<x>> = Append(q, x)
    BY <2>1, AppendIsConcat
  <2>4. \A k \in DOMAIN Append(q, x) :
           (k \in DOMAIN q /\ Append(q, x)[k] = q[k]) \/ Append(q, x)[k] = x
    BY <2>2
  <2>5. QED BY <1>1, <2>2, <2>3, <2>4
<1>2. CASE b = FALSE
  <2>1. q \o <<>> = q
    BY ConcatEmptySeq
  <2>2. QED BY <1>2, <2>1
<1>3. QED BY <1>1, <1>2

LEMMA TimerOfIs ==
  ASSUME NEW t \in Then, NEW on \in Ons, NEW v \in Data
  PROVE  /\ TimerOf(t, on, v) \in Timer
         /\ TimerOf(t, on, v).to = t.to /\ TimerOf(t, on, v).depth = t.depth
         /\ TimerOf(t, on, v).v = v
         /\ TimerOf(t, on, v).how = "progress" <=> on = "progress"
<1>1. v \in Datum
  BY DataDatum
<1>2. QED BY <1>1 DEF TimerOf, Timer, Then, Ons

LEMMA AddsThenEffect ==
  ASSUME CoreInv, AnswersInv, Quiet(lists), NEW d \in Deferreds, Made(d), NEW t \in Then,
         AddsThen(d, t)
  PROVE  ThenEffect(d, t)
<1> DEFINE progress == lists[<<d, "progress">>].memory
           on == IF state[d] = "resolved" THEN "done" ELSE "fail"
           v == lists[<<d, on>>].memory
           q1 == timers \o IF progress # NoData THEN <<TimerOf(t, "progress", progress)>> ELSE <<>>
           q2 == q1 \o IF state[d] # "pending" THEN <<TimerOf(t, on, v)>> ELSE <<>>
<1>1. /\ timers \in Seq(Timer) /\ thens \in [Deferreds -> Seq(Then)]
      /\ state \in [Deferreds -> {"unused", "pending"} \cup Settled]
  BY DEF CoreInv, DeferredTypes
<1>2. progress # NoData => progress \in Data
  BY DEF CoreInv, Sound, ProgressLists, ProgressList
<1>3. state[d] # "pending" =>
         v \in Data /\ Heedable(v, answers) /\ on \in Outcomes
  <2>1. SUFFICES ASSUME state[d] # "pending" PROVE v \in Data /\ Heedable(v, answers) /\ on \in Outcomes
    OBVIOUS
  <2>2. state[d] = Final(on) /\ on \in Outcomes
    BY <1>1, <2>1 DEF Made, Final, Settled, Outcomes
  <2> HIDE DEF on
  <2>3. v \in Data
    BY <2>2, MemoryOf DEF CoreInv
  <2>4. Heedable(v, answers)
    BY <2>2 DEF AnswersInv
  <2>5. QED BY <2>2, <2>3, <2>4
<1>4. /\ timers' = (timers \o (IF progress = NoData THEN <<>>
                              ELSE <<TimerOf(t, "progress", progress)>>))
                     \o (IF state[d] = "pending" THEN <<>> ELSE <<TimerOf(t, on, v)>>)
      /\ thens' = IF state[d] = "pending"
                  THEN [thens EXCEPT ![d] = Append(@, t)] ELSE thens
  BY DEF AddsThen
<1>5. timers' = q2
  BY <1>4
<1>6. "progress" \in Ons /\ (on \in Outcomes => on \in Ons /\ on # "progress")
  BY DEF Ons, Outcomes
<1> HIDE DEF progress, on, v
<1>7. progress # NoData =>
         LET x == TimerOf(t, "progress", progress)
         IN  /\ x \in Timer /\ x.to = t.to /\ x.depth = t.depth /\ x.v \in Data
             /\ x.how = "progress"
  BY <1>2, <1>6, TimerOfIs
<1>8. state[d] # "pending" =>
         LET x == TimerOf(t, on, v)
         IN  /\ x \in Timer /\ x.to = t.to /\ x.depth = t.depth /\ x.v \in Data
             /\ Heedable(x.v, answers)
  BY <1>3, <1>6, TimerOfIs
<1>9. /\ q1 \in Seq(Timer)
      /\ \A k \in DOMAIN q1 :
            \/ k \in DOMAIN timers /\ q1[k] = timers[k]
            \/ progress # NoData /\ q1[k] = TimerOf(t, "progress", progress)
  BY <1>1, <1>7, OneMore
<1> HIDE DEF q1
<1>10. /\ q2 \in Seq(Timer)
       /\ \A k \in DOMAIN q2 :
            \/ k \in DOMAIN q1 /\ q2[k] = q1[k]
            \/ state[d] # "pending" /\ q2[k] = TimerOf(t, on, v)
  BY <1>8, <1>9, OneMore
<1> HIDE DEF q2
<1>11. \A k \in DOMAIN timers' :
          \/ k \in DOMAIN timers /\ timers'[k] = timers[k]
          \/ /\ timers'[k].to = t.to /\ timers'[k].depth = t.depth /\ timers'[k].v \in Data
             /\ timers'[k].how # "progress" => Heedable(timers'[k].v, answers)
  <2>1. SUFFICES ASSUME NEW k \in DOMAIN q2
                 PROVE  \/ k \in DOMAIN timers /\ q2[k] = timers[k]
                        \/ /\ q2[k].to = t.to /\ q2[k].depth = t.depth /\ q2[k].v \in Data
                           /\ q2[k].how # "progress" => Heedable(q2[k].v, answers)
    BY <1>5
  <2>2. CASE state[d] # "pending" /\ q2[k] = TimerOf(t, on, v)
    BY <1>8, <2>2
  <2>3. CASE k \in DOMAIN q1 /\ q2[k] = q1[k]
    <3>1. CASE k \in DOMAIN timers /\ q1[k] = timers[k]
      BY <2>3, <3>1
    <3>2. CASE progress # NoData /\ q1[k] = TimerOf(t, "progress", progress)
      BY <1>7, <2>3, <3>2
    <3>3. QED BY <1>9, <2>3, <3>1, <3>2
  <2>4. QED BY <1>10, <2>2, <2>3
<1>12. /\ thens' \in [Deferreds -> Seq(Then)]
       /\ \A e \in Deferreds : state[e] # "pending" => thens'[e] = thens[e]
       /\ \A e \in Deferreds : \A k \in DOMAIN thens'[e] :
             thens'[e][k] = t \/ (k \in DOMAIN thens[e] /\ thens'[e][k] = thens[e][k])
  <2>1. CASE state[d] # "pending"
    BY <1>1, <1>4, <2>1
  <2>2. CASE state[d] = "pending"
    <3>1. thens[d] \in Seq(Then)
      BY <1>1
    <3>2. /\ Append(thens[d], t) \in Seq(Then)
          /\ \A k \in DOMAIN Append(thens[d], t) :
                \/ k \in DOMAIN thens[d] /\ Append(thens[d], t)[k] = thens[d][k]
                \/ Append(thens[d], t)[k] = t
      BY <3>1, AppendElements
    <3>3. thens' = [thens EXCEPT ![d] = Append(thens[d], t)]
      BY <1>4, <2>2
    <3> DEFINE q == Append(thens[d], t)
    <3> HIDE DEF q
    <3>4. /\ thens' \in [Deferreds -> Seq(Then)] /\ thens'[d] = q
          /\ \A e \in Deferreds : e # d => thens'[e] = thens[e]
      BY <1>1, <3>2, <3>3 DEF q
    <3>5. QED BY <2>2, <3>2, <3>4 DEF q
  <2>3. QED BY <2>1, <2>2
<1>13. QED BY <1>5, <1>10, <1>11, <1>12 DEF ThenEffect

\* What then adds is due, if more thenables may have been followed.
LEMMA PromisedMore ==
  ASSUME CoreInv, NEW d, NEW t, ThenEffect(d, t), Due(t, source', maxDepth'),
         maxDepth' \in [Deferreds -> Nat],
         \A e \in Deferreds : maxDepth[e] <= maxDepth'[e] /\ (source[e] # 0 => source'[e] # 0),
         hooks' = hooks, answers' = answers
  PROVE  Promised'
<1>1. maxDepth \in [Deferreds -> Nat]
  BY DEF CoreInv, DeferredTypes
<1>2. \A x : Due(x, source, maxDepth) => Due(x, source', maxDepth')
  BY <1>1, DueMore
<1>3. \A e \in Deferreds : \A k \in DOMAIN thens'[e] : Due(thens'[e][k], source', maxDepth')
  BY <1>2 DEF CoreInv, Promised, ThenEffect
<1>4. \A k \in DOMAIN timers' : Due(timers'[k], source', maxDepth') /\ timers'[k].v \in Data
  <2>1. SUFFICES ASSUME NEW k \in DOMAIN timers'
                 PROVE  Due(timers'[k], source', maxDepth') /\ timers'[k].v \in Data
    OBVIOUS
  <2>2. CASE k \in DOMAIN timers /\ timers'[k] = timers[k]
    BY <1>2, <2>2 DEF CoreInv, Promised
  <2>3. CASE /\ timers'[k].to = t.to /\ timers'[k].depth = t.depth /\ timers'[k].v \in Data
    BY <2>3 DEF Due
  <2>4. QED BY <2>2, <2>3 DEF ThenEffect
<1>5. (\A h \in hooks : Due(h, source, maxDepth))'
  BY <1>2 DEF CoreInv, Promised
<1>6. (\A k \in DOMAIN answers : answers[k].hook \in hooks /\ answers[k].v = MaxOps + k)'
  BY DEF CoreInv, Promised
<1>7. QED BY <1>3, <1>4, <1>5, <1>6 DEF Promised

LEMMA AnswersThen ==
  ASSUME CoreInv, AnswersInv, NEW d, NEW t, ThenEffect(d, t),
         maxDepth' \in [Deferreds -> Nat], \A e \in Deferreds : maxDepth[e] <= maxDepth'[e],
         lists' = lists, answers' = answers,
         \A k \in DOMAIN stack' :
            stack'[k].frame = "handler" => k \in DOMAIN stack /\ stack'[k] = stack[k]
  PROVE  AnswersInv'
<1>1. DeferredTypes
  BY DEF CoreInv
<1>2. \A k \in DOMAIN timers' : timers'[k].how # "progress" => Heedable(timers'[k].v, answers)
  BY DEF ThenEffect, AnswersInv
<1>3. \A k \in DOMAIN stack' : stack'[k].frame = "handler" => Heedable(stack'[k].v, answers)
  BY DEF AnswersInv
<1>4. QED BY <1>1, <1>2, <1>3, AnswersKept

LEMMA CallThenInv ==
  ASSUME DInv, NEW d \in Deferreds, NEW nd \in Deferreds, CallThen(d, nd)
  PROVE  DInv'
<1>1. /\ CoreInv /\ AnswersInv /\ Running /\ ops < MaxOps /\ ops' = ops + 1
      /\ Made(d) /\ state[nd] = "unused"
      /\ state' = [state EXCEPT ![nd] = "pending"]
      /\ source' = [source EXCEPT ![nd] = d]
      /\ UNCHANGED <<lists, stack, heard, emptied>>
      /\ UNCHANGED <<maxDepth, hooks, args, remaining, registered, answers>>
  BY DEF CallThen, Operation, New, Made, DInv
<1>2. PICK handled \in BOOLEAN : AddsThen(d, [to |-> nd, depth |-> 0, handled |-> handled])
  BY DEF CallThen
<1> DEFINE t == [to |-> nd, depth |-> 0, handled |-> handled]
<1>3. t \in Then /\ t.to = nd /\ t.depth = 0
  BY DEF Then
<1>4. ThenEffect(d, t)
  <2>1. Quiet(lists)
    BY <1>1, Calm DEF Running, On
  <2>2. AddsThen(d, t)
    BY <1>2
  <2> HIDE DEF t
  <2>3. QED BY <1>1, <1>3, <2>1, <2>2, AddsThenEffect
<1> HIDE DEF t
<1>5. /\ state \in [Deferreds -> {"unused", "pending"} \cup Settled]
      /\ source \in [Deferreds -> 0 .. MaxDeferred] /\ maxDepth \in [Deferreds -> Nat]
      /\ ops \in 0 .. MaxOps /\ d \in 0 .. MaxDeferred /\ d # 0 /\ MaxOps \in Nat
  BY <1>1, CallbacksAssumption DEF CoreInv, DeferredTypes, Deferreds
<1>6. /\ MoreMade /\ state'[nd] = "pending" /\ source'[nd] = d
      /\ \A e \in Deferreds : e # nd => state'[e] = state[e] /\ source'[e] = source[e]
      /\ state' \in [Deferreds -> {"unused", "pending"} \cup Settled]
      /\ source' \in [Deferreds -> 0 .. MaxDeferred]
      /\ \A e \in Deferreds : maxDepth[e] <= maxDepth'[e] /\ (source[e] # 0 => source'[e] # 0)
      /\ \A e \in Deferreds : Made(e) => Made(e)'
      /\ Made(nd)' /\ ops' \in 0 .. MaxOps /\ (ops >= 1 => ops' >= 1)
  BY <1>1, <1>5 DEF MoreMade, Made
<1>7. DeferredTypes'
  <2>1. DeferredTypes
    BY <1>1 DEF CoreInv
  <2>2. QED BY <1>1, <1>4, <1>6, <2>1 DEF DeferredTypes, ThenEffect
<1>8. Sound(lists, stack, state, registered, args)'
  <2>1. \A e \in Deferreds : state'[e] = state[e] \/ (state[e] = "unused" /\ state'[e] = "pending")
    BY <1>6 DEF MoreMade
  <2>2. Sound(lists, stack, state', registered, args)
    BY <1>1, <2>1, SoundMore DEF CoreInv
  <2>3. QED BY <1>1, <2>2
<1>9. Frames(stack, hooks, maxDepth, source, args)'
  <2>1. Frames(stack, hooks, maxDepth, source', args)
    <3>1. stack \in Seq(StackFrame) /\ Frames(stack, hooks, maxDepth, source, args)
      BY <1>1 DEF CoreInv, Sound
    <3>2. \A e \in Deferreds : maxDepth[e] <= maxDepth[e] /\ (source[e] # 0 => source'[e] # 0)
      BY <1>1, <1>6
    <3>3. QED BY <1>5, <3>1, <3>2, FramesMore
  <2>2. QED BY <1>1, <2>1
<1>10. Promised'
  <2>1. Due(t, source', maxDepth')
    BY <1>1, <1>3, <1>5, <1>6 DEF Due
  <2>2. maxDepth' \in [Deferreds -> Nat]
    BY <1>1, <1>5
  <2>3. QED BY <1>1, <1>4, <1>6, <2>1, <2>2, PromisedMore
<1>11. Sources'
  <2>1. args[nd] = <<>>
    BY <1>1 DEF CoreInv, Sources, Made
  <2>2. \A e \in Deferreds :
           /\ source'[e] # 0 => args[e] = <<>> /\ Made(e)'
           /\ args[e] # <<>> => ArgsOK(e)' /\ ops' >= 1 /\ Made(e)'
    BY <1>1, <1>6, <2>1, ArgsMore DEF CoreInv, Sources
  <2>3. \A e \in Deferreds : Made(e)' \/ \A on \in Outcomes : Ahead(lists[<<e, on>>]) = {}
    BY <1>1, <1>6 DEF CoreInv, Sources
  <2>4. \A e \in Deferreds : state'[e] # "pending" => thens'[e] = <<>>
    BY <1>1, <1>4, <1>6 DEF CoreInv, Sources, ThenEffect
  <2>5. QED BY <1>1, <2>2, <2>3, <2>4 DEF Sources
<1>12. CoreInv'
  BY <1>7, <1>8, <1>9, <1>10, <1>11 DEF CoreInv
<1>13. OrderInv' /\ WaitsInv'
  <2>1. SameWhen(stack, stack')
    BY <1>1 DEF SameWhen
  <2>2. QED BY <1>1, <1>6, <2>1, ListsKept
<1>14. AnswersInv'
  <2>1. maxDepth' \in [Deferreds -> Nat] /\ \A e \in Deferreds : maxDepth[e] <= maxDepth'[e]
    BY <1>1, <1>5, <1>6
  <2>2. QED BY <1>1, <1>4, <2>1, AnswersThen
<1>15. QED BY <1>1, <1>12, <1>13, <1>14 DEF DInv

\* The handler of a then: the stack, and the deferred it is for.
LEMMA HandlerTop ==
  ASSUME CoreInv, On("handler")
  PROVE  /\ Quiet(lists) /\ NoWhen(stack) /\ Len(stack) = 2
         /\ Top.to \in Deferreds /\ source[Top.to] # 0 /\ args[Top.to] = <<>> /\ Made(Top.to)
         /\ Sound(lists, Front(stack), state, registered, args)
         /\ Frames(Front(stack), hooks, maxDepth, source, args)
         /\ NoWhen(Front(stack)) /\ Front(stack) \in Seq(StackFrame) /\ Len(Front(stack)) = 1
         /\ DOMAIN Front(stack) = {1}
         /\ Front(stack)[1] = ProcessFrame(Top.to, maxDepth[Top.to])
<1>1. /\ ~Idle /\ Top.frame = "handler" /\ Top = stack[Len(stack)]
      /\ Top.frame \notin {"fire", "when"}
  BY DEF On, Top
<1>2. /\ Quiet(lists) /\ NoWhen(stack) /\ stack \in Seq(StackFrame) /\ Len(stack) \in DOMAIN stack
      /\ Sound(lists, Front(stack), state, registered, args)
      /\ Frames(Front(stack), hooks, maxDepth, source, args)
      /\ NoWhen(Front(stack)) /\ Front(stack) \in Seq(StackFrame)
      /\ Len(Front(stack)) = Len(stack) - 1 /\ DOMAIN Front(stack) = 1 .. Len(stack) - 1
      /\ \A k \in DOMAIN Front(stack) : k \in DOMAIN stack /\ Front(stack)[k] = stack[k]
  <2>1. /\ Quiet(lists) /\ NoWhen(stack) /\ stack \in Seq(StackFrame)
        /\ Len(stack) \in Nat /\ DOMAIN stack = 1 .. Len(stack)
    BY <1>1, Calm
  <2>2. /\ Sound(lists, Front(stack), state, registered, args)
        /\ Frames(Front(stack), hooks, maxDepth, source, args)
        /\ NoWhen(Front(stack)) /\ Front(stack) \in Seq(StackFrame)
        /\ Len(Front(stack)) = Len(stack) - 1 /\ Len(stack) >= 1
        /\ DOMAIN Front(stack) = 1 .. Len(stack) - 1
        /\ \A k \in DOMAIN Front(stack) : k \in DOMAIN stack /\ Front(stack)[k] = stack[k]
    BY <1>1, CalmFront
  <2>3. Len(stack) \in DOMAIN stack
    BY <2>1, <2>2
  <2>4. QED BY <2>1, <2>2, <2>3
<1>3. Len(stack) = 2 /\ stack[1] = ProcessFrame(Top.to, maxDepth[Top.to])
  BY <1>1, <1>2 DEF CoreInv, Frames, RestsOn
<1>4. /\ Len(Front(stack)) = 1 /\ DOMAIN Front(stack) = {1} /\ 1 \in DOMAIN stack
      /\ Front(stack)[1] = stack[1]
  BY <1>2, <1>3
<1>5. Due(stack[1], source, maxDepth)
  <2>1. stack[1].frame = "process"
    BY <1>3 DEF ProcessFrame
  <2>2. QED BY <1>4, <2>1 DEF CoreInv, Frames, RestsOn
<1>6. stack[1].to = Top.to
  BY <1>3 DEF ProcessFrame
<1>7. Top.to \in Deferreds /\ source[Top.to] # 0 /\ args[Top.to] = <<>> /\ Made(Top.to)
  BY <1>5, <1>6, DueMade DEF Due
<1>8. QED BY <1>2, <1>3, <1>4, <1>7

LEMMA HandlerReturnsPromiseInv ==
  ASSUME DInv, NEW e \in Deferreds, HandlerReturnsPromise(e)
  PROVE  DInv'
<1> DEFINE d == Top.to
           t == [to |-> d, depth |-> maxDepth[d] + 1, handled |-> FALSE]
<1>1. /\ CoreInv /\ AnswersInv /\ On("handler") /\ ops < MaxOps /\ ops' = ops + 1 /\ Made(e)
      /\ maxDepth' = [maxDepth EXCEPT ![d] = @ + 1]
      /\ AddsThen(e, t) /\ stack' = Front(stack)
      /\ UNCHANGED <<lists, heard, emptied, state, hooks, args, remaining, historyVars>>
  BY DEF HandlerReturnsPromise, Operation, Follow, HookOf, DInv
<1>2. /\ Quiet(lists) /\ NoWhen(stack)
      /\ d \in Deferreds /\ source[d] # 0 /\ args[d] = <<>> /\ Made(d)
      /\ Sound(lists, Front(stack), state, registered, args)
      /\ Frames(Front(stack), hooks, maxDepth, source, args)
      /\ NoWhen(Front(stack)) /\ Front(stack) \in Seq(StackFrame)
      /\ DOMAIN Front(stack) = {1} /\ Front(stack)[1] = ProcessFrame(d, maxDepth[d])
  BY <1>1, HandlerTop
<1>3. /\ maxDepth \in [Deferreds -> Nat] /\ ops \in 0 .. MaxOps
      /\ MaxOps \in Nat
  BY <1>1, CallbacksAssumption DEF CoreInv, DeferredTypes
<1>4. t \in Then /\ t.to = d /\ t.depth = maxDepth[d] + 1
  BY <1>2, <1>3 DEF Then
<1>5. ThenEffect(e, t)
  <2> HIDE DEF t
  <2>1. QED BY <1>1, <1>2, <1>4, AddsThenEffect
<1> HIDE DEF t, d
<1>6. /\ maxDepth' \in [Deferreds -> Nat] /\ maxDepth'[d] = maxDepth[d] + 1
      /\ \A x \in Deferreds : maxDepth[x] <= maxDepth'[x]
      /\ ops' \in 0 .. MaxOps /\ (ops >= 1 => ops' >= 1)
  BY <1>1, <1>2, <1>3
<1>7. /\ state' = state /\ args' = args /\ source' = source /\ registered' = registered
      /\ hooks' = hooks /\ answers' = answers /\ heard' = heard /\ remaining' = remaining
      /\ emptied' = emptied
  BY <1>1 DEF historyVars
<1>8. DeferredTypes'
  <2>1. DeferredTypes
    BY <1>1 DEF CoreInv
  <2>2. QED BY <1>1, <1>5, <1>6, <1>7, <2>1 DEF DeferredTypes, ThenEffect
<1>9. Sound(lists, stack, state, registered, args)'
  BY <1>1, <1>2, <1>7
<1>10. \A k \in DOMAIN Front(stack) : Front(stack)[k].frame # "handler"
  BY <1>2 DEF ProcessFrame
<1>11. Frames(stack, hooks, maxDepth, source, args)'
  <2>1. Frames(Front(stack), hooks, maxDepth', source, args)
    BY <1>2, <1>3, <1>6, <1>10, FramesMore
  <2>2. QED BY <1>1, <1>7, <2>1
<1>12. Promised'
  <2>1. Due(t, source', maxDepth')
    BY <1>2, <1>3, <1>4, <1>6, <1>7 DEF Due
  <2>2. QED BY <1>1, <1>5, <1>6, <1>7, <2>1, PromisedMore
<1>13. Sources'
  <2>1. \A x \in Deferreds : Made(x)' <=> Made(x)
    BY <1>7 DEF Made
  <2>2. \A x \in Deferreds : ArgsOK(x) => ArgsOK(x)'
    BY <1>7, ArgsMore DEF MoreMade
  <2>3. \A x \in Deferreds : state'[x] # "pending" => thens'[x] = <<>>
    BY <1>1, <1>5, <1>7 DEF CoreInv, Sources, ThenEffect
  <2>4. QED BY <1>1, <1>6, <1>7, <2>1, <2>2, <2>3 DEF CoreInv, Sources
<1>14. CoreInv'
  BY <1>8, <1>9, <1>11, <1>12, <1>13 DEF CoreInv
<1>15. OrderInv' /\ WaitsInv'
  <2>1. SameWhen(stack, stack')
    BY <1>1, <1>2, SameWhenNone
  <2>2. QED BY <1>1, <1>7, <2>1, ListsKept DEF MoreMade
<1>16. AnswersInv'
  BY <1>1, <1>5, <1>6, <1>7, <1>10, AnswersThen
<1>17. QED BY <1>7, <1>14, <1>15, <1>16 DEF DInv

\* A foreign thenable is followed, with the stack s0.
LEMMA FollowCore ==
  ASSUME DInv, NEW d \in Deferreds, source[d] # 0, Quiet(lists), NoWhen(stack),
         NEW s0 \in Seq(StackFrame), Sound(lists, s0, state, registered, args),
         Frames(s0, hooks, maxDepth, source, args), Len(s0) >= 1,
         \A k \in DOMAIN s0 : s0[k].frame \in {"process", "foreign"},
         s0[Len(s0)] = ProcessFrame(d, maxDepth[d]),
         FollowsForeign(d, s0), NewAnswers, ops' \in 0 .. MaxOps, ops' >= ops,
         UNCHANGED <<heard, emptied, state, thens, timers, args, remaining, registered, source>>
  PROVE  /\ CoreInv' /\ OrderInv' /\ WaitsInv' /\ emptied' = {}
         /\ \A k \in DOMAIN stack' : stack'[k].frame # "handler"
<1> DEFINE h == HookOf(d)
           f == ForeignFrame(h)
<1>1. /\ maxDepth' = [maxDepth EXCEPT ![d] = @ + 1] /\ hooks' = hooks \cup {h}
      /\ stack' = Append(s0, f) /\ lists' = lists
  BY DEF FollowsForeign, Follow
<1>2. /\ CoreInv /\ DeferredTypes /\ Promised /\ Sources
      /\ maxDepth \in [Deferreds -> Nat]
      /\ state' = state /\ args' = args /\ source' = source /\ registered' = registered
  BY DEF DInv, CoreInv, DeferredTypes
<1>3. /\ h.to = d /\ h.depth = maxDepth[d] + 1 /\ h \in [to : Deferreds, depth : Nat \ {0}]
  BY <1>2 DEF HookOf
<1>4. f.frame = "foreign" /\ f.hook = h /\ f \in StackFrame
  <2>1. f \in [frame : {"foreign"}, hook : [to : Deferreds, depth : Nat \ {0}]]
    BY <1>3 DEF ForeignFrame
  <2>2. QED BY <2>1 DEF StackFrame, ForeignFrame
<1> HIDE DEF h, f
<1>5. /\ maxDepth' \in [Deferreds -> Nat] /\ maxDepth'[d] = maxDepth[d] + 1
      /\ \A x \in Deferreds : maxDepth[x] <= maxDepth'[x]
  BY <1>1, <1>2
<1>6. /\ DOMAIN stack' = 1 .. Len(s0) + 1 /\ stack'[Len(s0) + 1] = f
      /\ stack' \in Seq(StackFrame) /\ Len(s0) \in Nat /\ DOMAIN s0 = 1 .. Len(s0)
      /\ \A k \in 1 .. Len(s0) : stack'[k] = s0[k]
  BY <1>1, <1>4, Appended
<1>7. \A k \in DOMAIN stack' : stack'[k].frame \in {"process", "foreign"}
  BY <1>4, <1>6
<1>8. Sound(lists, stack, state, registered, args)'
  <2>1. NoWhen(s0)
    BY DEF NoWhen
  <2>2. Sound(lists, Append(s0, f), state, registered, args)
    BY <1>4, <2>1, PushSound
  <2>3. QED BY <1>1, <1>2, <2>2
<1>9. Frames(stack, hooks, maxDepth, source, args)'
  <2>1. \A k \in DOMAIN s0 : s0[k].frame = "handler" => maxDepth'[s0[k].to] = maxDepth[s0[k].to]
    OBVIOUS
  <2>2. hooks \subseteq hooks'
    BY <1>1
  <2>3. Frames(s0, hooks', maxDepth', source, args)
    BY <1>2, <1>5, <2>1, <2>2, FramesMore
  <2>4. RestsOn(stack', Len(s0) + 1, hooks', maxDepth', source, args)
    <3> DEFINE n == Len(s0) + 1
    <3>1. /\ n \in Nat /\ n > 1 /\ n - 1 = Len(s0) /\ stack'[n] = f
          /\ stack'[n - 1] = ProcessFrame(h.to, h.depth - 1)
          /\ \A j \in 1 .. n - 1 : stack'[j].frame \in {"process", "foreign"}
      <4>1. h.depth - 1 = maxDepth[d] /\ Len(s0) \in 1 .. Len(s0)
        BY <1>2, <1>3, <1>6
      <4>2. QED BY <1>3, <1>6, <1>7, <4>1
    <3>2. h \in hooks'
      BY <1>1
    <3> HIDE DEF n
    <3>3. RestsOn(stack', n, hooks', maxDepth', source, args)
      BY <1>4, <3>1, <3>2 DEF RestsOn
    <3>4. QED BY <3>3 DEF n
  <2>5. QED BY <1>1, <1>2, <2>3, <2>4, FramesPush
<1>10. /\ answers' \in Seq([hook : [to : Deferreds, depth : Nat \ {0}], v : Nat])
       /\ Len(answers') <= MaxAnswers
       /\ \A k \in DOMAIN answers' : answers'[k].hook \in hooks /\ answers'[k].v = MaxOps + k
  BY <1>2, NewAnswersKept
<1>11. DeferredTypes'
  <2>1. hooks' \subseteq [to : Deferreds, depth : Nat \ {0}]
    BY <1>1, <1>2, <1>3 DEF DeferredTypes
  <2>2. QED BY <1>2, <1>5, <1>10, <2>1 DEF DeferredTypes
<1>12. Promised'
  <2>1. \A x : Due(x, source, maxDepth) => Due(x, source', maxDepth')
    BY <1>2, <1>5, DueMore
  <2>2. Due(h, source', maxDepth')
    BY <1>2, <1>3, <1>5 DEF Due
  <2>3. \A x \in hooks' : Due(x, source', maxDepth')
    BY <1>1, <1>2, <2>1, <2>2 DEF Promised
  <2>4. QED BY <1>1, <1>2, <1>10, <2>1, <2>3 DEF Promised
<1>13. Sources'
  <2>1. \A x \in Deferreds : Made(x)' <=> Made(x)
    BY <1>2 DEF Made
  <2>2. \A x \in Deferreds : ArgsOK(x) => ArgsOK(x)'
    BY <1>2, ArgsMore DEF MoreMade
  <2>3. ops >= 1 => ops' >= 1
    <3>1. ops \in Int
      BY <1>2 DEF DeferredTypes
    <3>2. QED BY <3>1
  <2>4. QED BY <1>1, <1>2, <2>1, <2>2, <2>3 DEF Sources
<1>14. CoreInv'
  BY <1>8, <1>9, <1>11, <1>12, <1>13 DEF CoreInv
<1>15. OrderInv' /\ WaitsInv'
  <2>1. NoWhen(stack')
    BY <1>7 DEF NoWhen
  <2>2. SameWhen(stack, stack')
    BY <2>1, SameWhenNone
  <2>3. QED BY <1>1, <2>2, ListsKept DEF MoreMade
<1>16. QED BY <1>7, <1>14, <1>15 DEF DInv

LEMMA HandlerReturnsForeignInv ==
  ASSUME DInv, HandlerReturnsForeign
  PROVE  DInv'
<1> DEFINE d == Top.to
           s0 == Front(stack)
<1>1. /\ CoreInv /\ AnswersInv /\ On("handler") /\ ops < MaxOps /\ ops' = ops + 1
      /\ FollowsForeign(d, s0)
      /\ UNCHANGED <<heard, emptied, state, thens, timers, args, remaining, historyVars>>
  BY DEF HandlerReturnsForeign, Operation, DInv
<1>2. /\ Quiet(lists) /\ NoWhen(stack) /\ d \in Deferreds /\ source[d] # 0
      /\ Sound(lists, s0, state, registered, args)
      /\ Frames(s0, hooks, maxDepth, source, args)
      /\ s0 \in Seq(StackFrame) /\ Len(s0) = 1 /\ DOMAIN s0 = {1}
      /\ s0[1] = ProcessFrame(d, maxDepth[d])
  BY <1>1, HandlerTop
<1>3. ops' \in 0 .. MaxOps /\ ops' >= ops /\ MaxOps \in Nat
  BY <1>1, CallbacksAssumption DEF CoreInv, DeferredTypes
<1> HIDE DEF d, s0
<1>4. \A k \in DOMAIN s0 : s0[k].frame \in {"process", "foreign"}
  BY <1>2 DEF ProcessFrame
<1>5. /\ NewAnswers /\ answers' = answers
      /\ UNCHANGED <<heard, emptied, state, thens, timers, args, remaining, registered, source>>
  BY <1>1 DEF NewAnswers, historyVars
<1>6. /\ CoreInv' /\ OrderInv' /\ WaitsInv' /\ emptied' = {}
      /\ \A k \in DOMAIN stack' : stack'[k].frame # "handler"
  <2>1. Len(s0) >= 1 /\ s0[Len(s0)] = ProcessFrame(d, maxDepth[d])
    BY <1>2
  <2>2. QED BY <1>1, <1>2, <1>3, <1>4, <1>5, <2>1, FollowCore
<1>7. AnswersInv'
  <2>1. DeferredTypes /\ maxDepth \in [Deferreds -> Nat]
    BY <1>1 DEF CoreInv, DeferredTypes
  <2>2. \A e \in Deferreds : maxDepth'[e] \in Nat /\ maxDepth[e] <= maxDepth'[e]
    BY <1>1, <2>1 DEF FollowsForeign, Follow
  <2>3. lists' = lists
    BY <1>1 DEF FollowsForeign
  <2>4. \A k \in DOMAIN timers' :
           timers'[k].how # "progress" => Heedable(timers'[k].v, answers)
    BY <1>1, <1>5 DEF AnswersInv
  <2>5. QED BY <1>1, <1>5, <1>6, <2>1, <2>2, <2>3, <2>4, AnswersKept
<1>8. QED BY <1>6, <1>7 DEF DInv

LEMMA HookFollowsInv ==
  ASSUME DInv, NEW h \in hooks, HookFollows(h)
  PROVE  DInv'
<1> DEFINE d == h.to
           s0 == Append(stack, ProcessFrame(d, h.depth))
<1>1. /\ CoreInv /\ AnswersInv /\ Calls(h) /\ Answering(h) /\ h.depth >= maxDepth[d]
      /\ ops' = ops /\ FollowsForeign(d, s0)
      /\ UNCHANGED <<heard, emptied, state, thens, timers, args, remaining>>
      /\ UNCHANGED <<registered, source>>
  BY DEF HookFollows, Calls, Heeded, DInv
<1>2. /\ Quiet(lists) /\ NoWhen(stack) /\ stack \in Seq(StackFrame)
      /\ NoWhen(s0) /\ Sound(lists, s0, state, registered, args)
      /\ Frames(s0, hooks, maxDepth, source, args)
      /\ s0 \in Seq(StackFrame)
      /\ \A k \in DOMAIN s0 : s0[k].frame \in {"process", "foreign"}
  BY <1>1, HookStack
<1>3. /\ d \in Deferreds /\ source[d] # 0 /\ h.depth = maxDepth[d] /\ maxDepth[d] \in Nat
      /\ h.depth \in Nat
  <2>1. Due(h, source, maxDepth)
    BY <1>1 DEF CoreInv, Promised
  <2>2. d \in Deferreds /\ source[d] # 0 /\ h.depth \in 0 .. maxDepth[d] /\ maxDepth[d] \in Nat
    BY <1>1, <2>1 DEF Due, CoreInv, DeferredTypes
  <2>3. QED BY <1>1, <2>2
<1>4. Len(s0) >= 1 /\ s0[Len(s0)] = ProcessFrame(d, maxDepth[d])
  <2> DEFINE f == ProcessFrame(d, h.depth)
  <2>1. f \in StackFrame
    BY <1>3 DEF ProcessFrame, StackFrame
  <2> HIDE DEF f
  <2>2. Len(Append(stack, f)) >= 1 /\ Append(stack, f)[Len(Append(stack, f))] = f
    BY <1>2, <2>1, Appended
  <2>3. QED BY <1>3, <2>2 DEF f
<1> HIDE DEF d, s0
<1>5. /\ NewAnswers /\ ops' \in 0 .. MaxOps /\ ops' >= ops
      /\ UNCHANGED <<heard, emptied, state, thens, timers, args, remaining, registered, source>>
  BY <1>1 DEF NewAnswers, CoreInv, DeferredTypes
<1>6. /\ CoreInv' /\ OrderInv' /\ WaitsInv' /\ emptied' = {}
      /\ \A k \in DOMAIN stack' : stack'[k].frame # "handler"
  BY <1>1, <1>2, <1>3, <1>4, <1>5, FollowCore
<1>7. AnswersInv'
  <2>1. maxDepth \in [Deferreds -> Nat]
    BY <1>1 DEF CoreInv, DeferredTypes
  <2>2. /\ \A e \in Deferreds : maxDepth'[e] \in Nat /\ maxDepth[e] <= maxDepth'[e]
        /\ maxDepth'[d] > h.depth
    BY <1>1, <1>3, <2>1 DEF FollowsForeign, Follow
  <2>3. lists' = lists /\ timers' = timers
    BY <1>1 DEF FollowsForeign
  <2>4. maxDepth'[h.to] > h.depth
    BY <2>2 DEF d
  <2>5. QED BY <1>1, <1>6, <2>2, <2>3, <2>4, AnswersMore
<1>8. QED BY <1>6, <1>7 DEF DInv

\* The ways that lists change when nothing is fired anew, nor settled.
LEMMA ListsStep ==
  ASSUME DInv, Steady, emptied' = emptied, answers' = answers, timers' = timers,
         SameUnmade, Sound(lists', stack', state, registered', args),
         Frames(stack', hooks, maxDepth, source, args),
         \A d \in Deferreds, on \in Outcomes :
            lists'[<<d, on>>].memory = lists[<<d, on>>].memory,
         \A k \in DOMAIN stack' :
            stack'[k].frame = "handler" => k \in DOMAIN stack /\ stack'[k] = stack[k]
  PROVE  CoreInv' /\ AnswersInv' /\ emptied' = {}
<1>1. CoreInv' /\ emptied' = {}
  BY CoreSteady DEF DInv, NewAnswers
<1>2. AnswersInv'
  <2>1. AnswersInv /\ DeferredTypes
    BY DEF DInv, CoreInv
  <2>2. \A e \in Deferreds : maxDepth'[e] \in Nat /\ maxDepth[e] <= maxDepth'[e]
    BY <2>1 DEF DeferredTypes, Steady
  <2>3. /\ \A k \in DOMAIN timers' :
              timers'[k].how # "progress" => Heedable(timers'[k].v, answers)
        /\ \A k \in DOMAIN stack' : stack'[k].frame = "handler" => Heedable(stack'[k].v, answers)
    BY <2>1 DEF AnswersInv
  <2>4. QED BY <2>1, <2>2, <2>3, AnswersKept
<1>3. QED BY <1>1, <1>2

LEMMA FireFrameLast ==
  ASSUME CoreInv, NEW d \in Deferreds, NEW on \in Ons, On("fire"), Top.of = <<d, on>>
  PROVE  /\ InLoop(d, on, stack) /\ stack \in Seq(StackFrame) /\ Len(stack) \in Nat
         /\ DOMAIN stack = 1 .. Len(stack) /\ Len(stack) >= 1
<1>1. stack \in Seq(StackFrame) /\ stack # <<>>
  BY DEF CoreInv, Sound, On, Idle
<1>2. Len(stack) \in Nat /\ DOMAIN stack = 1 .. Len(stack) /\ Len(stack) >= 1
  BY <1>1
<1>3. Top \in StackFrame
  BY <1>1, <1>2, InSeq DEF Top
<1>4. Top.frame = "fire" /\ Top.of = <<d, on>>
  BY DEF On
<1>5. Top = FireFrame(<<d, on>>)
  <2>1. Top \in [frame : {"fire"}, of : Lists]
    BY <1>3, <1>4 DEF StackFrame
  <2>2. QED BY <1>4, <2>1 DEF FireFrame
<1>6. QED BY <1>1, <1>2, <1>5 DEF InLoop, Top

LEMMA RoundEndsInv ==
  ASSUME DInv, NEW d \in Deferreds, NEW on \in Ons, RoundEnds(<<d, on>>),
         UNCHANGED <<deferredVars, historyVars>>
  PROVE  DInv'
<1>1. CoreInv /\ On("fire") /\ Top.of = <<d, on>>
  BY DEF RoundEnds, DInv
<1>2. /\ InLoop(d, on, stack) /\ stack \in Seq(StackFrame) /\ Len(stack) \in Nat
      /\ DOMAIN stack = 1 .. Len(stack) /\ Len(stack) >= 1
  BY <1>1, FireFrameLast
<1>3. RoundStep(d, on, lists, stack, lists', stack')
  BY DEF RoundEnds, RoundStep
<1>4. /\ Sound(lists', stack', state, registered, args) /\ Quiet(lists) /\ Quiet(lists')
      /\ AsideEffect(lists, lists')
  BY <1>1, <1>2, <1>3, RoundSound DEF CoreInv
<1>5. /\ heard' = heard /\ emptied' = emptied /\ ops' = ops
      /\ UNCHANGED <<deferredVars, historyVars>>
      /\ stack' = stack \/ stack' = Front(stack)
  BY DEF RoundEnds
<1>6. /\ SameWhen(stack, stack') /\ Frames(stack', hooks, maxDepth, source, args)
      /\ \A k \in DOMAIN stack' : k \in DOMAIN stack /\ stack'[k] = stack[k]
  <2>1. CASE stack' = stack
    BY <1>1, <2>1 DEF SameWhen, CoreInv
  <2>2. CASE stack' = Front(stack)
    <3>1. stack # <<>> /\ stack[Len(stack)].frame # "when"
      BY <1>2 DEF InLoop, FireFrame
    <3>2. SameWhen(stack, stack')
      BY <1>2, <2>2, <3>1, SameWhenFront
    <3>3. /\ Len(stack') = Len(stack) - 1 /\ DOMAIN stack' = 1 .. Len(stack) - 1
          /\ \A k \in 1 .. Len(stack) - 1 : stack'[k] = stack[k]
      BY <1>2, <2>2, <3>1, FrontFacts, Zenon
    <3>4. /\ \A k \in DOMAIN stack' : k \in DOMAIN stack /\ stack'[k] = stack[k]
          /\ Len(stack') \in Nat /\ Len(stack') <= Len(stack) /\ DOMAIN stack' = 1 .. Len(stack')
      BY <1>2, <3>3
    <3>5. Frames(stack', hooks, maxDepth, source, args)
      BY <1>1, <1>2, <3>4, FramesPrefix DEF CoreInv
    <3>6. QED BY <3>2, <3>4, <3>5
  <2>3. QED BY <1>5, <2>1, <2>2
<1>7. /\ state' = state /\ args' = args /\ registered' = registered /\ remaining' = remaining
      /\ answers' = answers /\ timers' = timers
  BY <1>5 DEF deferredVars, historyVars
<1>8. Steady
  <2>1. ops \in 0 .. MaxOps
    BY <1>1 DEF CoreInv, DeferredTypes
  <2>2. QED BY <1>1, <1>5, <2>1, SteadyNow DEF historyVars
<1>9. \A e \in Deferreds, o \in Outcomes :
         /\ SameAhead(lists[<<e, o>>], lists'[<<e, o>>])
         /\ lists'[<<e, o>>].memory = lists[<<e, o>>].memory
  BY <1>4 DEF AsideEffect
<1>10. CoreInv' /\ AnswersInv' /\ emptied' = {}
  <2>1. SameUnmade
    BY <1>9 DEF SameUnmade, SameAhead
  <2>2. QED BY <1>4, <1>5, <1>6, <1>7, <1>8, <1>9, <2>1, ListsStep
<1>11. OrderInv'
  <2>1. \A e \in Deferreds, o \in Outcomes :
           /\ SameCalls(lists[<<e, o>>], lists'[<<e, o>>])
           /\ state'[e] = Final(o) <=> state[e] = Final(o)
           /\ state[e] = Final(o) => lists'[<<e, o>>].memory = lists[<<e, o>>].memory
    BY <1>7, <1>9, CallsAhead
  <2>2. QED BY <1>5, <1>7, <2>1, OrderKept DEF DInv
<1>12. WaitsInv'
  <2>1. "done" \in Outcomes /\ "fail" \in Outcomes
    BY DEF Outcomes
  <2>2. \A m \in Deferreds : SamePlaces(lists, lists', m)
    BY <1>9, <2>1, PlacesAhead DEF SamePlaces
  <2>3. \A m \in Deferreds : args[m] # <<>> =>
           /\ SamePlaces(lists, lists', m)
           /\ \A o \in Outcomes : lists'[<<m, o>>].memory = lists[<<m, o>>].memory
    BY <1>9, <2>2
  <2>4. QED BY <1>1, <1>6, <1>7, <2>3, WaitsInvKept DEF DInv
<1>13. QED BY <1>10, <1>11, <1>12 DEF DInv

-----------------------------------------------------------------------------
(* Callbacks of the application.                                           *)

LEMMA GainKept ==
  ASSUME NEW d \in Deferreds, NEW on \in Ons, NEW f, NEW st, NEW ls, NEW ls2,
         AddEffect(d, on, f, ls, ls2, st), f.kind = "call"
  PROVE  \A m \in Deferreds : SamePlaces(ls, ls2, m)
<1>1. SUFFICES ASSUME NEW m \in Deferreds, NEW e \in Deferreds, NEW o \in Outcomes,
                      NEW g, g.kind # "call"
               PROVE  Places(ls2[<<e, o>>], g) = Places(ls[<<e, o>>], g)
  <2>1. /\ "done" \in Outcomes /\ "fail" \in Outcomes
        /\ \A m \in Deferreds : Update(m).kind # "call" /\ Reject(m).kind # "call"
    BY DEF Outcomes, Update, Reject
  <2>2. QED BY <2>1 DEF SamePlaces
<1>2. CASE ls2[<<e, o>>] = ls[<<e, o>>]
  BY <1>2
<1>3. CASE e = d /\ o = on /\ Gains(ls[<<d, on>>], ls2[<<d, on>>], f)
  <2>1. g # f
    BY <1>1
  <2>2. QED BY <1>3, <2>1, PlacesGain
<1>4. QED BY <1>2, <1>3 DEF AddEffect

LEMMA RegisterInv ==
  ASSUME DInv, NEW d \in Deferreds, NEW on \in Ons, Register(d, on)
  PROVE  DInv'
<1> DEFINE n == Len(registered) + 1
           f == Call(n)
           r == [of |-> d, on |-> on]
           reg == Append(registered, r)
<1>1. /\ CoreInv /\ Running /\ ops < MaxOps /\ ops' = ops + 1 /\ Made(d)
      /\ registered' = reg /\ Adds(<<d, on>>, f, stack)
      /\ UNCHANGED <<heard, emptied, deferredVars, source, answers>>
  BY DEF Register, Operation, DInv
<1>2. /\ Quiet(lists) /\ NoWhen(stack) /\ stack \in Seq(StackFrame)
      /\ Sound(lists, stack, state, registered, args)
      /\ Frames(stack, hooks, maxDepth, source, args)
  BY <1>1, Calm DEF Running, On, CoreInv
<1>3. /\ registered \in Seq([of : Deferreds, on : Ons]) /\ ops \in 0 .. MaxOps /\ MaxOps \in Nat
  BY <1>1, CallbacksAssumption DEF CoreInv, DeferredTypes
<1>4. /\ reg \in Seq([of : Deferreds, on : Ons]) /\ DOMAIN registered = 1 .. Len(registered)
      /\ n \in Nat /\ DOMAIN reg = 1 .. n /\ reg[n] = r
      /\ \A k \in DOMAIN registered : k \in DOMAIN reg /\ reg[k] = registered[k]
  <2>1. r \in [of : Deferreds, on : Ons]
    OBVIOUS
  <2> HIDE DEF r
  <2>2. QED BY <1>3, <2>1, Appended
<1>5. f \in Callback /\ f.kind = "call" /\ f.n = n
  BY <1>4 DEF Call, Callback
<1>6. IsRegistered(d, on, f, reg)
  BY <1>4, <1>5 DEF IsRegistered
<1> HIDE DEF f, n, r, reg
<1>7. Sound(lists, stack, state, reg, args)
  <2>1. \A e \in Deferreds : state[e] = state[e] \/ (state[e] = "unused" /\ state[e] = "pending")
    OBVIOUS
  <2>2. \A e, m \in Deferreds : IsGiven(e, m, args) => IsGiven(e, m, args)
    OBVIOUS
  <2>3. QED BY <1>2, <1>4, <2>1, <2>2, SoundMore
<1>8. AddStep(d, on, f, lists, stack, lists', stack')
  BY <1>1 DEF AddStep, Adds
<1>9. Sound(lists', stack', state, reg, args) /\ AddEffect(d, on, f, lists, lists', state)
  <2>1. MayAdd(d, on, f, stack)
    BY <1>2 DEF MayAdd, NoWhen
  <2>2. on \in Outcomes => Fits(d, on, f, reg, args)
    BY <1>6 DEF Fits
  <2>3. f.kind # "prologue"
    BY <1>5
  <2>4. QED BY <1>2, <1>5, <1>6, <1>7, <1>8, <2>1, <2>2, <2>3, AddSound
<1>10. <<d, on>> \in Lists
  BY DEF Lists
<1>11. stack' = stack \/ stack' = Append(stack, FireFrame(<<d, on>>))
  BY <1>8 DEF AddStep
<1>12. /\ SameWhen(stack, stack') /\ Frames(stack', hooks, maxDepth, source, args)
       /\ \A k \in DOMAIN stack' :
            stack'[k].frame = "handler" => k \in DOMAIN stack /\ stack'[k] = stack[k]
  <2>1. CASE stack' = stack
    BY <1>2, <2>1 DEF SameWhen
  <2>2. CASE stack' = Append(stack, FireFrame(<<d, on>>))
    <3> DEFINE g == FireFrame(<<d, on>>)
    <3>1. g \in StackFrame /\ g.frame = "fire"
      BY <1>10, Frame1
    <3>2. Frames(stack', hooks, maxDepth, source, args)
      BY <1>2, <1>10, <2>2, FramesPushFire
    <3> HIDE DEF g
    <3>3. \A k \in DOMAIN Append(stack, g) :
             (k \in DOMAIN stack /\ Append(stack, g)[k] = stack[k]) \/ Append(stack, g)[k] = g
      BY <1>2, <3>1, AppendElements
    <3>4. stack' = Append(stack, g)
      BY <2>2 DEF g
    <3>5. SameWhen(stack, stack')
      BY <1>2, <3>1, <3>4, SameWhenPush
    <3>6. QED BY <3>1, <3>2, <3>3, <3>4, <3>5
  <2>3. QED BY <1>11, <2>1, <2>2
<1>13. /\ heard' = heard /\ emptied' = emptied /\ state' = state /\ args' = args
       /\ remaining' = remaining /\ answers' = answers /\ timers' = timers
  BY <1>1 DEF deferredVars
<1>14. Steady
  BY <1>1, <1>3, <1>4 DEF CoreInv, DeferredTypes, Promised, Steady, deferredVars
<1>15. \A e \in Deferreds, o \in Outcomes :
          /\ lists'[<<e, o>>].memory = lists[<<e, o>>].memory
          /\ e # d => lists'[<<e, o>>] = lists[<<e, o>>]
  BY <1>9 DEF AddEffect
<1>16. CoreInv' /\ AnswersInv' /\ emptied' = {}
  <2>1. SameUnmade
    BY <1>1, <1>15 DEF SameUnmade
  <2>2. Sound(lists', stack', state, registered', args)
    BY <1>1, <1>9
  <2>3. QED BY <1>12, <1>13, <1>14, <1>15, <2>1, <2>2, ListsStep
<1>17. OrderInv'
  <2>1. /\ registered' = Append(registered, [of |-> d, on |-> on])
        /\ AddEffect(d, on, Call(Len(registered) + 1), lists, lists', state)
    BY <1>1, <1>9 DEF f, n, r, reg
  <2>2. OrderInv /\ DeferredTypes
    BY <1>1 DEF DInv, CoreInv
  <2>3. QED BY <1>2, <1>13, <2>1, <2>2, OrderRegister
<1>18. WaitsInv'
  <2>1. \A m \in Deferreds : SamePlaces(lists, lists', m)
    BY <1>5, <1>9, GainKept
  <2>2. QED BY <1>1, <1>12, <1>13, <1>15, <2>1, WaitsInvKept DEF DInv
<1>19. QED BY <1>16, <1>17, <1>18 DEF DInv

\* The next callback of the innermost loop.
LEMMA ReachesLoop ==
  ASSUME CoreInv, NEW d \in Deferreds, NEW on \in Ons, NEW kind, Reaches(<<d, on>>, kind)
  PROVE  /\ InLoop(d, on, stack) /\ stack \in Seq(StackFrame) /\ Len(stack) \in Nat
         /\ DOMAIN stack = 1 .. Len(stack) /\ Len(stack) >= 1
         /\ Sound(lists, stack, state, registered, args)
         /\ Frames(stack, hooks, maxDepth, source, args)
         /\ lists[<<d, on>>] \in CallbackList
         /\ lists[<<d, on>>].firingIndex < Len(lists[<<d, on>>].list)
         /\ lists[<<d, on>>].firingIndex + 1 \in DOMAIN lists[<<d, on>>].list
         /\ lists[<<d, on>>].list[lists[<<d, on>>].firingIndex + 1] \in Callback
         /\ lists[<<d, on>>].list[lists[<<d, on>>].firingIndex + 1].kind = kind
         /\ lists[<<d, on>>].memory \in Data
<1> DEFINE c == lists[<<d, on>>]
<1>1. /\ On("fire") /\ Top.of = <<d, on>> /\ c.firingIndex < Len(c.list)
      /\ c.list[c.firingIndex + 1].kind = kind
  BY DEF Reaches
<1>2. /\ InLoop(d, on, stack) /\ stack \in Seq(StackFrame) /\ Len(stack) \in Nat
      /\ DOMAIN stack = 1 .. Len(stack) /\ Len(stack) >= 1
  BY <1>1, FireFrameLast
<1>3. /\ Sound(lists, stack, state, registered, args)
      /\ Frames(stack, hooks, maxDepth, source, args)
  BY DEF CoreInv
<1>4. <<d, on>> \in Lists
  BY DEF Lists
<1>5. c \in CallbackList /\ c.firing
  BY <1>2, <1>3, <1>4, SoundTypes, InLoopFires
<1>6. c.memory \in Data
  <2>1. CASE on = "progress"
    BY <1>3, <1>5, <2>1 DEF Sound, ProgressLists, ProgressList
  <2>2. CASE on \in Outcomes /\ kind = "prologue"
    <3>1. StartingPhase(d, on, state, lists, stack)
      BY <1>1, <1>2, <1>3, <2>2, StartingReached
    <3>2. QED BY <3>1 DEF StartingPhase, StartingList
  <2>3. CASE on \in Outcomes /\ kind # "prologue"
    <3>1. Quiet(lists)
      BY <1>1, <1>2, <1>3, <2>3, QuietReached DEF InLoop, Sound
    <3>2. GoingList(c)
      BY <1>2, <1>3, <2>3, <3>1, GoingReached
    <3>3. QED BY <3>2 DEF GoingList
  <2>4. QED BY <2>1, <2>2, <2>3, OthersOf
<1> HIDE DEF c
<1>7. c.list \in Seq(Callback) /\ c.firingIndex \in Nat
  BY <1>5, CallbackListFields
<1>8. c.firingIndex + 1 \in DOMAIN c.list
  BY <1>1, <1>7 DEF c
<1>9. c.list[c.firingIndex + 1] \in Callback
  BY <1>7, <1>8, InSeq
<1>10. QED BY <1>1, <1>2, <1>3, <1>5, <1>6, <1>8, <1>9 DEF c

LEMMA RunCallbackInv ==
  ASSUME DInv, NEW d \in Deferreds, NEW on \in Ons, RunCallback(<<d, on>>),
         UNCHANGED <<deferredVars, historyVars>>
  PROVE  DInv'
<1> DEFINE l == <<d, on>>
           c == lists[l]
           k0 == c.firingIndex + 1
           f == c.list[k0]
           g == BodyFrame(f.n)
           e == [of |-> l, n |-> f.n, v |-> c.memory]
<1>1. /\ CoreInv /\ Reaches(l, "call") /\ lists' = Passed(l) /\ stack' = Append(stack, g)
      /\ heard' = Append(heard, e)
      /\ UNCHANGED <<emptied, ops, deferredVars, historyVars>>
  BY DEF RunCallback, DInv, Reached
<1>2. /\ InLoop(d, on, stack) /\ stack \in Seq(StackFrame) /\ Len(stack) \in Nat
      /\ DOMAIN stack = 1 .. Len(stack) /\ Len(stack) >= 1
      /\ Sound(lists, stack, state, registered, args)
      /\ Frames(stack, hooks, maxDepth, source, args)
      /\ c.firingIndex < Len(c.list) /\ k0 \in DOMAIN c.list
      /\ f \in Callback /\ f.kind = "call" /\ c.memory \in Data
  BY <1>1, ReachesLoop
<1>3. PassStep(d, on, lists, lists')
  BY <1>1 DEF PassStep, Passed
<1>4. l \in Lists /\ l = <<d, on>> /\ c = lists[<<d, on>>]
  BY DEF Lists
<1>5. f.n \in Nat /\ g \in StackFrame /\ g.frame = "body"
  <2>1. f.n \in Nat
    BY <1>2 DEF Callback
  <2>2. g \in [frame : {"body"}, of : Nat]
    BY <2>1 DEF BodyFrame
  <2>3. QED BY <2>1, <2>2 DEF StackFrame
<1>6. /\ Sound(lists', stack, state, registered, args) /\ Quiet(lists')
      /\ PassEffect(d, on, lists, lists', state)
  <2>1. f.kind # "prologue"
    BY <1>2
  <2>2. QED BY <1>2, <1>3, <2>1, PassSound
<1>7. NoWhen(stack)
  <2>1. \A m : ~Spared(lists, l, m)
    BY <1>2 DEF Spared
  <2>2. WhenAlone(lists, stack)
    BY <1>2 DEF Sound
  <2>3. QED BY <1>2, <2>1, <2>2, NoWhenTop DEF InLoop
<1>8. e \in [of : Lists, n : Nat, v : Data]
  BY <1>2, <1>4, <1>5
<1>9. heard \in Seq([of : Lists, n : Nat, v : Data]) /\ ops \in 0 .. MaxOps
  BY <1>1 DEF CoreInv, DeferredTypes
<1>10. Steady
  <2> HIDE DEF e
  <2>1. heard' \in Seq([of : Lists, n : Nat, v : Data])
    BY <1>1, <1>8, <1>9
  <2>2. QED BY <1>1, <1>9, <2>1
        DEF CoreInv, DeferredTypes, Promised, Steady, deferredVars, historyVars
<1>11. /\ emptied' = emptied /\ state' = state /\ args' = args /\ registered' = registered
       /\ remaining' = remaining /\ answers' = answers /\ timers' = timers
  BY <1>1 DEF deferredVars, historyVars
<1>12. OrderInv'
  <2>1. heard' = Append(heard, [of |-> <<d, on>>, n |-> f.n, v |-> lists[<<d, on>>].memory])
    BY <1>1
  <2>2. OrderInv /\ DeferredTypes
    BY <1>1 DEF DInv, CoreInv
  <2>3. k0 = lists[<<d, on>>].firingIndex + 1 /\ f = lists[<<d, on>>].list[k0]
        /\ k0 \in DOMAIN lists[<<d, on>>].list /\ lists[<<d, on>>].memory \in Data
    BY <1>2
  <2> HIDE DEF k0, f
  <2>4. QED BY <1>2, <1>5, <1>6, <1>11, <2>1, <2>2, <2>3, OrderCallback
<1> HIDE DEF l, c, e, g
<1>13. /\ \A x \in Deferreds, o \in Outcomes :
             lists'[<<x, o>>].memory = lists[<<x, o>>].memory
       /\ SameUnmade
       /\ \A m \in Deferreds : SamePlaces(lists, lists', m)
  <2>1. CASE on \notin Outcomes
    <3>1. \A x \in Deferreds, o \in Outcomes : lists'[<<x, o>>] = lists[<<x, o>>]
      BY <1>6, <2>1 DEF PassEffect, OthersSame
    <3>2. "done" \in Outcomes /\ "fail" \in Outcomes
      BY DEF Outcomes
    <3>3. QED BY <3>1, <3>2 DEF SameUnmade, SamePlaces
  <2>2. CASE on \in Outcomes
    <3>1. /\ \A x \in Deferreds, o \in Outcomes :
                ~(x = d /\ o = on) => lists'[<<x, o>>] = lists[<<x, o>>]
          /\ state[d] = Final(on)
          /\ lists'[<<d, on>>].memory = lists[<<d, on>>].memory
          /\ Loses(c, lists'[<<d, on>>], k0)
      BY <1>4, <1>6, <2>2 DEF PassEffect, OthersSame
    <3>2. Made(d)
      BY <2>2, <3>1, OthersOf DEF Made
    <3>3. SameUnmade
      <4>1. \A x \in Deferreds : x # d => \A o \in Outcomes : lists'[<<x, o>>] = lists[<<x, o>>]
        BY <3>1
      <4>2. QED BY <3>2, <4>1 DEF SameUnmade
    <3>4. ASSUME NEW x \in Deferreds, NEW o \in Outcomes, NEW u, u.kind # "call"
          PROVE  Places(lists'[<<x, o>>], u) = Places(lists[<<x, o>>], u)
      <4>1. CASE ~(x = d /\ o = on)
        BY <3>1, <4>1
      <4>2. CASE x = d /\ o = on
        <5>1. u # c.list[k0]
          BY <1>2, <3>4
        <5>2. Places(lists'[<<d, on>>], u) = Places(c, u)
          BY <3>1, <5>1, PlacesLose
        <5>3. QED BY <1>4, <4>2, <5>2
      <4>3. QED BY <4>1, <4>2
    <3>5. /\ "done" \in Outcomes /\ "fail" \in Outcomes
          /\ \A m \in Deferreds : Update(m).kind # "call" /\ Reject(m).kind # "call"
      BY DEF Outcomes, Update, Reject
    <3>6. \A m \in Deferreds : SamePlaces(lists, lists', m)
      BY <3>4, <3>5 DEF SamePlaces
    <3>7. \A x \in Deferreds, o \in Outcomes :
             lists'[<<x, o>>].memory = lists[<<x, o>>].memory
      BY <3>1
    <3>8. QED BY <3>3, <3>6, <3>7
  <2>3. QED BY <2>1, <2>2
<1>14. /\ Sound(lists', stack', state, registered, args)
       /\ Frames(stack', hooks, maxDepth, source, args)
       /\ SameWhen(stack, stack')
       /\ \A k \in DOMAIN stack' :
            stack'[k].frame = "handler" => k \in DOMAIN stack /\ stack'[k] = stack[k]
  <2>1. /\ DOMAIN stack' = 1 .. Len(stack) + 1 /\ stack'[Len(stack) + 1] = g
        /\ \A k \in 1 .. Len(stack) : stack'[k] = stack[k]
    BY <1>1, <1>2, <1>5, Appended
  <2>2. RestsOn(stack', Len(stack) + 1, hooks, maxDepth, source, args)
    <3> DEFINE n == Len(stack) + 1
    <3>1. n > 1 /\ stack'[n] = g /\ stack'[n - 1].frame = "fire"
      <4>1. stack[Len(stack)].frame = "fire"
        BY <1>2 DEF InLoop, FireFrame
      <4>2. n - 1 = Len(stack) /\ Len(stack) \in 1 .. Len(stack) /\ n > 1
        BY <1>2
      <4>3. QED BY <2>1, <4>1, <4>2
    <3> HIDE DEF n
    <3>2. RestsOn(stack', n, hooks, maxDepth, source, args)
      BY <1>5, <3>1 DEF RestsOn
    <3>3. QED BY <3>2 DEF n
  <2>3. Frames(stack', hooks, maxDepth, source, args)
    BY <1>1, <1>2, <2>2, FramesPush
  <2>4. Sound(lists', stack', state, registered, args)
    BY <1>1, <1>5, <1>6, <1>7, PushSound
  <2>5. SameWhen(stack, stack')
    BY <1>1, <1>2, <1>5, SameWhenPush
  <2>6. QED BY <1>2, <1>5, <2>1, <2>3, <2>4, <2>5
<1>15. CoreInv' /\ AnswersInv' /\ emptied' = {}
  BY <1>10, <1>11, <1>13, <1>14, ListsStep
<1>16. WaitsInv'
  BY <1>1, <1>11, <1>13, <1>14, WaitsInvKept DEF DInv
<1>17. QED BY <1>12, <1>15, <1>16 DEF DInv

-----------------------------------------------------------------------------
(* The functions that settle a deferred.                                   *)

LEMMA ConcatElements ==
  ASSUME NEW S, NEW q1 \in Seq(S), NEW q2 \in Seq(S)
  PROVE  /\ q1 \o q2 \in Seq(S)
         /\ \A k \in DOMAIN (q1 \o q2) :
               \/ k \in DOMAIN q1 /\ (q1 \o q2)[k] = q1[k]
               \/ \E j \in DOMAIN q2 : (q1 \o q2)[k] = q2[j]
<1>1. q1 \o q2 \in Seq(S)
  OBVIOUS
<1>2. SUFFICES ASSUME NEW k \in DOMAIN (q1 \o q2)
               PROVE  \/ k \in DOMAIN q1 /\ (q1 \o q2)[k] = q1[k]
                      \/ \E j \in DOMAIN q2 : (q1 \o q2)[k] = q2[j]
  BY <1>1
<1>3. /\ Len(q1) \in Nat /\ Len(q2) \in Nat /\ DOMAIN q1 = 1 .. Len(q1)
      /\ DOMAIN q2 = 1 .. Len(q2) /\ k \in 1 .. Len(q1) + Len(q2)
  OBVIOUS
<1>4. CASE k <= Len(q1)
  BY <1>3, <1>4
<1>5. CASE k > Len(q1)
  <2>1. k - Len(q1) \in DOMAIN q2
    BY <1>3, <1>5
  <2>2. (q1 \o q2)[k] = q2[k - Len(q1)]
    BY <1>3, <1>5
  <2>3. QED BY <2>1, <2>2
<1>6. QED BY <1>3, <1>4, <1>5

LEMMA TimersOfAre ==
  ASSUME CoreInv, NEW d \in Deferreds, NEW on \in Ons, NEW v \in Data,
         timers' = timers \o TimersOf(d, on, v)
  PROVE  /\ timers' \in Seq(Timer)
         /\ \A k \in DOMAIN timers' :
               \/ k \in DOMAIN timers /\ timers'[k] = timers[k]
               \/ /\ Due(timers'[k], source, maxDepth) /\ timers'[k].v = v
                  /\ timers'[k].how = "progress" <=> on = "progress"
<1> DEFINE q == TimersOf(d, on, v)
<1>1. thens[d] \in Seq(Then) /\ timers \in Seq(Timer)
  BY DEF CoreInv, DeferredTypes
<1>2. /\ DOMAIN q = DOMAIN thens[d] /\ DOMAIN thens[d] = 1 .. Len(thens[d]) /\ Len(thens[d]) \in Nat
      /\ \A k \in DOMAIN q : q[k] = TimerOf(thens[d][k], on, v)
  BY <1>1 DEF TimersOf
<1>3. ASSUME NEW k \in DOMAIN q
      PROVE  /\ q[k] \in Timer /\ Due(q[k], source, maxDepth) /\ q[k].v = v
             /\ q[k].how = "progress" <=> on = "progress"
  <2> DEFINE t == thens[d][k]
  <2>1. t \in Then
    BY <1>1, <1>2, <1>3, InSeq
  <2>2. Due(t, source, maxDepth)
    BY <1>2, <1>3 DEF CoreInv, Promised
  <2>3. q[k] = TimerOf(t, on, v)
    BY <1>2, <1>3
  <2> HIDE DEF t, q
  <2>4. /\ q[k] \in Timer /\ q[k].to = t.to /\ q[k].depth = t.depth /\ q[k].v = v
        /\ q[k].how = "progress" <=> on = "progress"
    BY <2>1, <2>3, TimerOfIs
  <2>5. QED BY <2>2, <2>4 DEF Due
<1>4. q \in Seq(Timer)
  <2>1. \A k \in 1 .. Len(thens[d]) : q[k] \in Timer
    BY <1>2, <1>3
  <2>2. q = [k \in 1 .. Len(thens[d]) |-> q[k]]
    BY <1>2 DEF TimersOf
  <2> HIDE DEF q
  <2> DEFINE n == Len(thens[d])
  <2>3. n \in Nat
    BY <1>2
  <2>4. q \in [1 .. n -> Timer]
    BY <2>1, <2>2
  <2> HIDE DEF n
  <2>5. QED BY <2>3, <2>4, SeqDef
<1> HIDE DEF q
<1>5. /\ timers \o q \in Seq(Timer)
      /\ \A k \in DOMAIN (timers \o q) :
            \/ k \in DOMAIN timers /\ (timers \o q)[k] = timers[k]
            \/ \E j \in DOMAIN q : (timers \o q)[k] = q[j]
  BY <1>1, <1>4, ConcatElements
<1>6. timers' = timers \o q
  BY DEF q
<1>7. QED BY <1>3, <1>5, <1>6

LEMMA RunPrologueInv ==
  ASSUME DInv, NEW d \in Deferreds, NEW on \in Ons, RunPrologue(d, on)
  PROVE  DInv'
<1> DEFINE l == <<d, on>>
           c == lists[l]
           k0 == c.firingIndex + 1
<1>1. /\ CoreInv /\ AnswersInv /\ Reaches(l, "prologue")
      /\ timers' = timers \o TimersOf(d, on, c.memory)
      /\ IF on = "progress" THEN lists' = Passed(l) /\ UNCHANGED <<state, thens>>
         ELSE Settles(d, on)
      /\ UNCHANGED <<stack, heard, emptied, ops, maxDepth, hooks, args, remaining>>
      /\ UNCHANGED historyVars
  BY DEF RunPrologue, DInv
<1>2. /\ InLoop(d, on, stack) /\ stack \in Seq(StackFrame)
      /\ Sound(lists, stack, state, registered, args)
      /\ Frames(stack, hooks, maxDepth, source, args)
      /\ c.firingIndex < Len(c.list) /\ c.list[k0].kind = "prologue" /\ c.memory \in Data
  BY <1>1, ReachesLoop
<1>3. /\ timers' \in Seq(Timer)
      /\ \A k \in DOMAIN timers' :
            \/ k \in DOMAIN timers /\ timers'[k] = timers[k]
            \/ /\ Due(timers'[k], source, maxDepth) /\ timers'[k].v = c.memory
               /\ timers'[k].how = "progress" <=> on = "progress"
  <2>1. CoreInv /\ c.memory \in Data /\ timers' = timers \o TimersOf(d, on, c.memory)
    BY <1>1, <1>2
  <2> HIDE DEF c
  <2>2. QED BY <2>1, TimersOfAre
<1>4. \A k \in DOMAIN timers' : Due(timers'[k], source, maxDepth) /\ timers'[k].v \in Data
  BY <1>1, <1>2, <1>3 DEF CoreInv, Promised
<1>5. \A k \in DOMAIN timers' :
         timers'[k].how # "progress" => Heedable(timers'[k].v, answers)
  <2>1. on # "progress" => Heedable(c.memory, answers)
    BY <1>1, OthersOf DEF AnswersInv
  <2> HIDE DEF c
  <2>2. QED BY <1>1, <1>3, <2>1 DEF AnswersInv
<1>6. \A k \in DOMAIN stack' : stack'[k].frame = "handler" => Heedable(stack'[k].v, answers)
  BY <1>1 DEF AnswersInv
<1>7. /\ heard' = heard /\ emptied' = emptied /\ args' = args /\ registered' = registered
      /\ remaining' = remaining /\ answers' = answers /\ source' = source /\ stack' = stack
      /\ maxDepth' = maxDepth /\ hooks' = hooks /\ ops' = ops
  BY <1>1 DEF historyVars
<1>8. SameWhen(stack, stack')
  BY <1>7 DEF SameWhen
<1>9. CASE on = "progress"
  <2>1. PassStep(d, on, lists, lists') /\ state' = state /\ thens' = thens
    BY <1>1, <1>9 DEF PassStep, Passed
  <2>2. on \notin Outcomes
    BY <1>9 DEF Outcomes
  <2>3. Sound(lists', stack, state, registered, args) /\ PassEffect(d, on, lists, lists', state)
    BY <1>2, <2>1, <2>2, PassSound
  <2>4. \A e \in Deferreds, o \in Outcomes : lists'[<<e, o>>] = lists[<<e, o>>]
    BY <2>2, <2>3 DEF PassEffect, OthersSame
  <2>5. Steady
    <3>1. DeferredTypes
      BY <1>1 DEF CoreInv
    <3>2. /\ ops' \in 0 .. MaxOps /\ ops' >= ops /\ remaining' \in [Deferreds -> Int]
          /\ registered' \in Seq([of : Deferreds, on : Ons])
          /\ heard' \in Seq([of : Lists, n : Nat, v : Data])
      BY <1>7, <3>1 DEF DeferredTypes
    <3>3. QED BY <1>3, <1>4, <1>7, <2>1, <3>2 DEF Steady
  <2>6. CoreInv'
    <3>1. SameUnmade
      BY <2>4 DEF SameUnmade
    <3>2. Sound(lists', stack', state, registered', args)
          /\ Frames(stack', hooks, maxDepth, source, args)
      BY <1>2, <1>7, <2>3
    <3>3. NewAnswers
      BY <1>7 DEF NewAnswers
    <3>4. QED BY <1>1, <2>5, <3>1, <3>2, <3>3, CoreSteady
  <2>7. AnswersInv'
    <3>1. DeferredTypes
      BY <1>1 DEF CoreInv
    <3>2. \A e \in Deferreds : maxDepth'[e] \in Nat /\ maxDepth[e] <= maxDepth'[e]
      BY <1>7, <3>1 DEF DeferredTypes
    <3>3. QED BY <1>1, <1>5, <1>6, <1>7, <2>4, <3>1, <3>2, AnswersKept
  <2>8. OrderInv'
    <3>1. \A e \in Deferreds, o \in Outcomes :
             /\ SameCalls(lists[<<e, o>>], lists'[<<e, o>>])
             /\ state'[e] = Final(o) <=> state[e] = Final(o)
             /\ state[e] = Final(o) => lists'[<<e, o>>].memory = lists[<<e, o>>].memory
      BY <2>1, <2>4 DEF SameCalls
    <3>2. QED BY <1>7, <3>1, OrderKept DEF DInv
  <2>9. WaitsInv'
    <3>1. "done" \in Outcomes /\ "fail" \in Outcomes
      BY DEF Outcomes
    <3>2. \A m \in Deferreds :
             /\ SamePlaces(lists, lists', m)
             /\ \A o \in Outcomes : lists'[<<m, o>>].memory = lists[<<m, o>>].memory
      BY <2>4, <3>1 DEF SamePlaces
    <3>3. QED BY <1>1, <1>7, <1>8, <2>1, <3>2, WaitsInvKept DEF DInv
  <2>10. QED BY <1>7, <2>6, <2>7, <2>8, <2>9 DEF DInv
<1>10. CASE on \in Outcomes
  <2>1. /\ state' = [state EXCEPT ![d] = Final(on)] /\ thens' = [thens EXCEPT ![d] = <<>>]
        /\ SettleStep(d, on, lists, state, lists', state')
    BY <1>1, <1>10, OthersOf DEF Settles, SettleStep, Passed
  <2>2. /\ DeferredTypes /\ Promised /\ Sources
        /\ state \in [Deferreds -> {"unused", "pending"} \cup Settled]
        /\ DOMAIN state = Deferreds /\ thens \in [Deferreds -> Seq(Then)]
        /\ maxDepth \in [Deferreds -> Nat]
    BY <1>1 DEF CoreInv, DeferredTypes
  <2>3. /\ Sound(lists', stack, state', registered, args)
        /\ SettleEffect(d, on, lists, state, lists')
    BY <1>2, <1>10, <2>1, <2>2, SettleSound
  <2>4. /\ state[d] = "pending" /\ state'[d] = Final(on) /\ Final(on) \in Settled
        /\ \A e \in Deferreds : e # d => state'[e] = state[e]
        /\ thens' \in [Deferreds -> Seq(Then)] /\ thens'[d] = <<>>
        /\ \A e \in Deferreds : e # d => thens'[e] = thens[e]
        /\ state' \in [Deferreds -> {"unused", "pending"} \cup Settled]
        /\ \A e \in Deferreds : Made(e)' <=> Made(e)
    BY <1>10, <2>1, <2>2, <2>3, OthersOf DEF SettleEffect, Made, Settled
  <2>5. \A e \in Deferreds, o \in Outcomes :
           /\ lists'[<<e, o>>].memory = lists[<<e, o>>].memory
           /\ e # d => lists'[<<e, o>>] = lists[<<e, o>>]
    <3>1. SUFFICES ASSUME NEW o \in Outcomes
                   PROVE  lists'[<<d, o>>].memory = lists[<<d, o>>].memory
      BY <2>3 DEF SettleEffect
    <3>2. o = on \/ o = Other(on)
      BY <1>10, OthersOf
    <3>3. QED BY <2>3, <3>2 DEF SettleEffect
  <2>6. DeferredTypes'
    BY <1>3, <1>7, <2>2, <2>4 DEF DeferredTypes
  <2>7. Sound(lists, stack, state, registered, args)'
        /\ Frames(stack, hooks, maxDepth, source, args)'
    BY <1>2, <1>7, <2>3
  <2>8. Promised'
    <3>1. \A e \in Deferreds : \A k \in DOMAIN thens'[e] : Due(thens'[e][k], source, maxDepth)
      <4>1. DOMAIN thens'[d] = {}
        BY <2>4
      <4>2. \A e \in Deferreds : e # d =>
               \A k \in DOMAIN thens'[e] : Due(thens'[e][k], source, maxDepth)
        BY <2>2, <2>4 DEF Promised
      <4>3. QED BY <4>1, <4>2
    <3>2. QED BY <1>4, <1>7, <2>2, <3>1 DEF Promised
  <2>9. Sources'
    <3>1. \A e \in Deferreds : ArgsOK(e) => ArgsOK(e)'
      <4>1. SUFFICES ASSUME NEW e \in Deferreds, ArgsOK(e) PROVE ArgsOK(e)'
        OBVIOUS
      <4>2. \A i \in 1 .. 2 : args[e][i] # 0 => args[e][i] \in Deferreds
        BY <4>1 DEF ArgsOK, Deferreds
      <4>3. QED BY <1>7, <2>4, <4>1, <4>2 DEF ArgsOK
    <3>2. \A e \in Deferreds : ~Made(e)' => \A o \in Outcomes : Ahead(lists'[<<e, o>>]) = {}
      <4>1. Made(d)
        BY <2>4 DEF Made
      <4>2. QED BY <2>2, <2>4, <2>5, <4>1 DEF Sources
    <3>3. \A e \in Deferreds : state'[e] # "pending" => thens'[e] = <<>>
      BY <2>2, <2>4 DEF Sources
    <3>4. QED BY <1>7, <2>2, <2>4, <3>1, <3>2, <3>3 DEF Sources
  <2>10. CoreInv'
    BY <2>6, <2>7, <2>8, <2>9 DEF CoreInv
  <2>11. AnswersInv'
    <3>1. \A e \in Deferreds : maxDepth'[e] \in Nat /\ maxDepth[e] <= maxDepth'[e]
      BY <1>7, <2>2
    <3>2. QED BY <1>1, <1>5, <1>6, <1>7, <2>2, <2>5, <3>1, AnswersKept
  <2>12. OrderInv'
    BY <1>7, <1>10, <2>3, <2>4, OrderSettle DEF DInv
  <2>13. WaitsInv'
    <3>1. SUFFICES ASSUME NEW m \in Deferreds
                   PROVE  IF args[m] = <<>> THEN remaining[m] = 0
                          ELSE WaitsOf(m, remaining[m], lists', stack, state', args)
      BY <1>7 DEF WaitsInv
    <3>2. CASE args[m] # <<>>
      <4>1. WaitsOf(m, remaining[m], lists, stack, state, args)
        BY <3>2 DEF DInv, WaitsInv
      <4>2. Given(m, stack, state, args)
        BY <1>1, <3>2, GivenAll
      <4>3. remaining[m] \in Int /\ OnceLists(lists)
        BY <1>2, <2>2 DEF DeferredTypes, Sound
      <4>4. QED BY <1>10, <2>3, <2>4, <3>2, <4>1, <4>2, <4>3, WaitsSettle
    <3>3. CASE args[m] = <<>>
      BY <3>3 DEF DInv, WaitsInv
    <3>4. QED BY <3>2, <3>3
  <2>14. QED BY <1>7, <2>10, <2>11, <2>12, <2>13 DEF DInv
<1>11. QED BY <1>9, <1>10, OthersOf

-----------------------------------------------------------------------------
(* What when put into the lists of its arguments.                          *)

Counter(on) == IF on = "done" THEN "update" ELSE "reject"

\* The list of d for `on' calls what the `when' that made m put there; it has
\* moved on in the lists ls.
WhenCalls(d, on, m, ls) ==
    LET l == <<d, on>>
        k0 == lists[l].firingIndex + 1
    IN  /\ Sound(ls, stack, state, registered, args) /\ Quiet(lists) /\ Quiet(ls)
        /\ OthersSame(d, on, lists, ls) /\ state[d] = Final(on)
        /\ ls[l].memory = lists[l].memory /\ lists[l].memory \in Data
        /\ Loses(lists[l], ls[l], k0)
        /\ lists[l].list[k0] = [kind |-> Counter(on), n |-> m]
        /\ m \in Deferreds /\ args[m] # <<>> /\ IsGiven(d, m, args) /\ Made(m)
        /\ MayFire(<<m, on>>, ls, stack)

LEMMA WhenCalled ==
  ASSUME CoreInv, NEW d \in Deferreds, NEW on \in Outcomes, Reaches(<<d, on>>, Counter(on)),
         NEW m, m = Reached(<<d, on>>), NEW ls, ls = Passed(<<d, on>>)
  PROVE  WhenCalls(d, on, m, ls)
<1> DEFINE l == <<d, on>>
           c == lists[l]
           k0 == c.firingIndex + 1
           f == c.list[k0]
<1>1. /\ InLoop(d, on, stack) /\ stack \in Seq(StackFrame) /\ Len(stack) \in Nat
      /\ DOMAIN stack = 1 .. Len(stack) /\ Len(stack) >= 1
      /\ Sound(lists, stack, state, registered, args)
      /\ c.firingIndex < Len(c.list) /\ k0 \in DOMAIN c.list
      /\ f \in Callback /\ f.kind = Counter(on) /\ c.memory \in Data
  BY OthersOf, ReachesLoop
<1>2. Counter(on) \in {"update", "reject"}
  BY DEF Counter
<1>3. /\ Sound(ls, stack, state, registered, args) /\ Quiet(lists) /\ Quiet(ls)
      /\ PassEffect(d, on, lists, ls, state)
  <2>1. PassStep(d, on, lists, ls)
    BY DEF PassStep, Passed
  <2>2. f.kind # "prologue" /\ on \in Ons
    BY <1>1, <1>2, OthersOf
  <2>3. QED BY <1>1, <2>1, <2>2, PassSound
<1>4. /\ OthersSame(d, on, lists, ls) /\ state[d] = Final(on) /\ ls[l].memory = c.memory
      /\ Loses(c, ls[l], k0)
  BY <1>3 DEF PassEffect
<1>5. f.n = m /\ f = [kind |-> Counter(on), n |-> m]
  <2>1. f.n = m
    BY DEF Reached
  <2> HIDE DEF f
  <2>2. QED BY <1>1, <2>1 DEF Callback
<1>6. IsGiven(d, m, args)
  <2>1. k0 \in Ahead(c)
    BY <1>4 DEF Loses
  <2>2. Fits(d, on, f, registered, args)
    BY <1>1, <2>1 DEF Sound, AllFit
  <2> HIDE DEF f
  <2>3. QED BY <1>1, <1>2, <1>5, <2>2 DEF Fits, IsRegistered
<1>7. m \in Deferreds /\ args[m] # <<>> /\ Made(m)
  <2>1. m \in Deferreds /\ \E i \in DOMAIN args[m] : args[m][i] = d
    BY <1>6 DEF IsGiven
  <2>2. args[m] # <<>>
    BY <2>1
  <2>3. QED BY <2>1, <2>2, GivenAll
<1>8. MayFire(<<m, on>>, ls, stack)
  <2>1. SUFFICES ASSUME NEW k \in DOMAIN stack, stack[k].frame = "when"
                 PROVE  Spared(ls, <<m, on>>, stack[k].to)
    BY DEF MayFire
  <2>2. stack[Len(stack)] = FireFrame(l)
    BY <1>1 DEF InLoop
  <2>3. k # Len(stack) /\ stack[Len(stack)].of = l
    BY <2>1, <2>2 DEF FireFrame
  <2>4. Len(stack) \in k + 1 .. Len(stack)
    BY <1>1, <2>3
  <2>5. Spared(lists, l, stack[k].to)
    BY <1>1, <2>1, <2>3, <2>4 DEF Sound, WhenAlone
  <2>6. stack[k].to = m
    <3>1. f.kind # "prologue"
      BY <1>1, <1>2
    <3> HIDE DEF f
    <3>2. f.n = stack[k].to
      BY <1>1, <2>5, <3>1 DEF Spared, f
    <3>3. QED BY <1>5, <3>2
  <2>7. \A i \in DOMAIN ls[<<m, on>>].list : ls[<<m, on>>].list[i].kind = "prologue"
    <3>1. WhenAlone(ls, stack)
      BY <1>3 DEF Sound
    <3>2. \A o \in Outcomes : \A i \in DOMAIN ls[<<stack[k].to, o>>].list :
             ls[<<stack[k].to, o>>].list[i].kind = "prologue"
      BY <2>1, <3>1 DEF WhenAlone
    <3>3. \A i \in DOMAIN ls[<<stack[k].to, on>>].list :
             ls[<<stack[k].to, on>>].list[i].kind = "prologue"
      BY <3>2
    <3>4. QED BY <2>6, <3>3
  <2>8. <<m, on>>[2] = on
    OBVIOUS
  <2>9. QED BY <2>6, <2>7, <2>8 DEF Spared
<1>9. QED BY <1>1, <1>3, <1>4, <1>5, <1>6, <1>7, <1>8 DEF WhenCalls

\* What it does: the deferred m is fired, or not.
WhenFires(on, m, v, ls) ==
    \/ lists' = ls /\ stack' = stack
    \/ Fires(ls, <<m, on>>, v, stack)

WhenEffect(d, on, m, v) ==
    LET f == [kind |-> Counter(on), n |-> m]
        k0 == lists[<<d, on>>].firingIndex + 1
    IN  /\ SameWhen(stack, stack')
        /\ \A x \in Deferreds, o \in Outcomes :
              /\ ~(x = m /\ o = on) => lists'[<<x, o>>].memory = lists[<<x, o>>].memory
              /\ \A g : g # f \/ ~(x = d /\ o = on) =>
                    Places(lists'[<<x, o>>], g) = Places(lists[<<x, o>>], g)
        /\ lists'[<<m, on>>].memory \in {v, lists[<<m, on>>].memory}
        /\ k0 \in Places(lists[<<d, on>>], f)
        /\ Places(lists'[<<d, on>>], f) = Places(lists[<<d, on>>], f) \ {k0}

LEMMA LosesPlace ==
  ASSUME NEW c, NEW e, NEW n, Loses(c, e, n), NEW f, c.list[n] = f
  PROVE  n \in Places(c, f) /\ Places(e, f) = Places(c, f) \ {n}
BY DEF Loses, Places

LEMMA WhenKept ==
  ASSUME DInv, NEW d \in Deferreds, NEW on \in Outcomes, NEW m, NEW ls,
         WhenCalls(d, on, m, ls), NEW v, v = lists[<<d, on>>].memory,
         WhenFires(on, m, v, ls), remaining' \in [Deferreds -> Int],
         UNCHANGED <<heard, emptied, ops, state, thens, timers, maxDepth, hooks, args>>,
         UNCHANGED historyVars
  PROVE  /\ CoreInv' /\ AnswersInv' /\ OrderInv' /\ emptied' = {}
         /\ WhenEffect(d, on, m, v)
         /\ Fires(ls, <<m, on>>, v, stack) => Decided(m, lists')
         /\ \A x \in Deferreds : Decided(x, lists) => Decided(x, lists')
<1> DEFINE l == <<d, on>>
           k0 == lists[l].firingIndex + 1
           f == [kind |-> Counter(on), n |-> m]
<1>1. /\ CoreInv /\ AnswersInv /\ OrderInv /\ DeferredTypes
      /\ Frames(stack, hooks, maxDepth, source, args) /\ stack \in Seq(StackFrame)
      /\ Sound(lists, stack, state, registered, args)
  BY DEF DInv, CoreInv, Sound
<1>2. /\ Sound(ls, stack, state, registered, args) /\ Quiet(lists) /\ Quiet(ls)
      /\ OthersSame(d, on, lists, ls) /\ state[d] = Final(on)
      /\ ls[l].memory = lists[l].memory /\ lists[l].memory \in Data
      /\ Loses(lists[l], ls[l], k0) /\ lists[l].list[k0] = f
      /\ m \in Deferreds /\ Made(m) /\ MayFire(<<m, on>>, ls, stack)
  BY DEF WhenCalls
<1>3. /\ v \in Data /\ v # NoData /\ Heedable(v, answers) /\ on \in Ons
  BY <1>1, <1>2, DataDatum, OthersOf DEF AnswersInv
<1>4. f.kind # "call"
  BY DEF Counter
<1> HIDE DEF l, f, k0
<1>5. /\ Sound(lists', stack', state, registered, args)
      /\ \A x \in Deferreds, o \in Outcomes :
            /\ SameAhead(ls[<<x, o>>], lists'[<<x, o>>])
            /\ lists'[<<x, o>>].memory = ls[<<x, o>>].memory
                  \/ (x = m /\ o = on /\ state[m] = "pending" /\ lists'[<<x, o>>].memory = v)
      /\ stack' = stack \/ stack' = Append(stack, FireFrame(<<m, on>>))
      /\ Fires(ls, <<m, on>>, v, stack) /\ state[m] = "pending" => lists'[<<m, on>>].memory = v
  <2>1. CASE Fires(ls, <<m, on>>, v, stack)
    <3>1. FireStep(m, on, v, ls, stack, lists', stack')
      BY <2>1 DEF Fires, FireStep
    <3>2. Sound(lists', stack', state, registered, args)
          /\ FireEffect(m, on, v, ls, lists', state)
      BY <1>2, <1>3, <3>1, FireSound DEF Made
    <3>3. stack' = stack \/ stack' = Append(stack, FireFrame(<<m, on>>))
      BY <3>1 DEF FireStep
    <3>4. \A x \in Deferreds, o \in Outcomes :
            /\ SameAhead(ls[<<x, o>>], lists'[<<x, o>>])
            /\ lists'[<<x, o>>].memory =
                  IF x = m /\ o = on /\ state[m] = "pending" THEN v ELSE ls[<<x, o>>].memory
      BY <3>2 DEF FireEffect
    <3>5. QED BY <1>2, <3>2, <3>3, <3>4
  <2>2. CASE lists' = ls /\ stack' = stack /\ ~Fires(ls, <<m, on>>, v, stack)
    <3>1. \A x \in Deferreds, o \in Outcomes : SameAhead(ls[<<x, o>>], lists'[<<x, o>>])
      BY <2>2 DEF SameAhead
    <3>2. QED BY <1>2, <2>2, <3>1
  <2>3. QED BY <2>1, <2>2 DEF WhenFires
<1>6. /\ \A x \in Deferreds, o \in Outcomes : ls[<<x, o>>].memory = lists[<<x, o>>].memory
      /\ \A x \in Deferreds, o \in Outcomes : ~(x = d /\ o = on) => ls[<<x, o>>] = lists[<<x, o>>]
  BY <1>2 DEF OthersSame, l
<1>7. /\ heard' = heard /\ emptied' = emptied /\ state' = state /\ args' = args
      /\ registered' = registered /\ answers' = answers /\ timers' = timers
      /\ maxDepth' = maxDepth
  BY DEF historyVars
<1>8. <<m, on>> \in Lists
  BY <1>2, <1>3 DEF Lists
<1>9. /\ SameWhen(stack, stack') /\ Frames(stack', hooks, maxDepth, source, args)
      /\ \A k \in DOMAIN stack' :
            stack'[k].frame = "handler" => k \in DOMAIN stack /\ stack'[k] = stack[k]
  <2>1. CASE stack' = stack
    BY <1>1, <2>1 DEF SameWhen
  <2>2. CASE stack' = Append(stack, FireFrame(<<m, on>>))
    <3> DEFINE g == FireFrame(<<m, on>>)
    <3>1. g \in StackFrame /\ g.frame = "fire"
      BY <1>8, Frame1
    <3>2. Frames(stack', hooks, maxDepth, source, args)
      BY <1>1, <1>8, <2>2, FramesPushFire
    <3> HIDE DEF g
    <3>3. \A k \in DOMAIN Append(stack, g) :
             (k \in DOMAIN stack /\ Append(stack, g)[k] = stack[k]) \/ Append(stack, g)[k] = g
      BY <1>1, <3>1, AppendElements
    <3>4. stack' = Append(stack, g)
      BY <2>2 DEF g
    <3>5. SameWhen(stack, stack')
      BY <1>1, <3>1, <3>4, SameWhenPush
    <3>6. QED BY <3>1, <3>2, <3>3, <3>4, <3>5
  <2>3. QED BY <1>5, <2>1, <2>2
<1>10. CoreInv'
  <2>1. Steady
    <3>1. /\ ops' \in 0 .. MaxOps /\ ops' >= ops
      BY <1>1 DEF DeferredTypes
    <3>2. QED BY <1>1, <3>1 DEF CoreInv, DeferredTypes, Promised, Steady, historyVars
  <2>2. SameUnmade
    <3>1. Made(d)
      BY <1>2, OthersOf DEF Made
    <3>2. SUFFICES ASSUME NEW x \in Deferreds, ~Made(x), NEW o \in Outcomes
                   PROVE  Ahead(lists'[<<x, o>>]) = Ahead(lists[<<x, o>>])
      BY DEF SameUnmade
    <3>3. ls[<<x, o>>] = lists[<<x, o>>]
      BY <1>6, <3>1, <3>2
    <3>4. QED BY <1>5, <3>3 DEF SameAhead
  <2>3. Sound(lists', stack', state, registered', args) /\ NewAnswers
    BY <1>5, <1>7 DEF NewAnswers
  <2>4. QED BY <1>1, <1>9, <2>1, <2>2, <2>3, CoreSteady
<1>11. AnswersInv'
  <2>1. \A x \in Deferreds : maxDepth'[x] \in Nat /\ maxDepth[x] <= maxDepth'[x]
    BY <1>1, <1>7 DEF DeferredTypes
  <2>2. \A x \in Deferreds, o \in Outcomes :
           \/ lists'[<<x, o>>].memory = lists[<<x, o>>].memory
           \/ /\ lists'[<<x, o>>].memory \in Data
              /\ Heedable(lists'[<<x, o>>].memory, answers)
    <3>1. SUFFICES ASSUME NEW x \in Deferreds, NEW o \in Outcomes
                   PROVE lists'[<<x, o>>].memory \in {v, lists[<<x, o>>].memory}
      BY <1>3
    <3>2. QED BY <1>5, <1>6
  <2>3. /\ \A k \in DOMAIN timers' :
              timers'[k].how # "progress" => Heedable(timers'[k].v, answers)
        /\ \A k \in DOMAIN stack' : stack'[k].frame = "handler" => Heedable(stack'[k].v, answers)
    BY <1>1, <1>7, <1>9 DEF AnswersInv
  <2>4. QED BY <1>1, <1>7, <2>1, <2>2, <2>3, AnswersKept
<1>12. OrderInv'
  <2>1. SUFFICES ASSUME NEW x \in Deferreds, NEW o \in Outcomes
                 PROVE  /\ SameCalls(lists[<<x, o>>], lists'[<<x, o>>])
                        /\ state[x] = Final(o) =>
                             lists'[<<x, o>>].memory = lists[<<x, o>>].memory
    BY <1>1, <1>7, OrderKept
  <2>2. SameCalls(lists[<<x, o>>], ls[<<x, o>>])
    <3>1. CASE x = d /\ o = on
      <4>1. SameCalls(lists[l], ls[l])
        BY <1>2, <1>4, CallsLose
      <4>2. QED BY <3>1, <4>1 DEF l
    <3>2. CASE ~(x = d /\ o = on)
      BY <1>6, <3>2 DEF SameCalls
    <3>3. QED BY <3>1, <3>2
  <2>3. SameCalls(ls[<<x, o>>], lists'[<<x, o>>])
    BY <1>5, CallsAhead
  <2>4. SameCalls(lists[<<x, o>>], lists'[<<x, o>>])
    BY <2>2, <2>3 DEF SameCalls
  <2>5. state[x] = Final(o) => lists'[<<x, o>>].memory = lists[<<x, o>>].memory
    BY <1>5, <1>6, OthersOf
  <2>6. QED BY <2>4, <2>5
<1>13. WhenEffect(d, on, m, v)
  <2>1. \A x \in Deferreds, o \in Outcomes :
           ~(x = m /\ o = on) => lists'[<<x, o>>].memory = lists[<<x, o>>].memory
    BY <1>5, <1>6
  <2>2. \A x \in Deferreds, o \in Outcomes : \A g :
           Places(lists'[<<x, o>>], g) = Places(ls[<<x, o>>], g)
    BY <1>5, PlacesAhead
  <2>3. ASSUME NEW x \in Deferreds, NEW o \in Outcomes, NEW g, g # f \/ ~(x = d /\ o = on)
        PROVE  Places(lists'[<<x, o>>], g) = Places(lists[<<x, o>>], g)
    <3>1. CASE ~(x = d /\ o = on)
      BY <1>6, <2>2, <3>1
    <3>2. CASE x = d /\ o = on /\ g # f
      <4>1. Places(ls[l], g) = Places(lists[l], g)
        BY <1>2, <3>2, PlacesLose
      <4>2. QED BY <2>2, <3>2, <4>1 DEF l
    <3>3. QED BY <2>3, <3>1, <3>2
  <2>4. lists'[<<m, on>>].memory \in {v, lists[<<m, on>>].memory}
    BY <1>2, <1>5, <1>6
  <2>5. k0 \in Places(lists[l], f) /\ Places(ls[l], f) = Places(lists[l], f) \ {k0}
    BY <1>2, LosesPlace
  <2>6. Places(lists'[l], f) = Places(lists[l], f) \ {k0}
    BY <2>2, <2>5 DEF l
  <2>7. QED BY <1>9, <2>1, <2>3, <2>4, <2>5, <2>6 DEF WhenEffect, l, k0, f
<1>14. \A x \in Deferreds : Decided(x, lists) => Decided(x, lists')
  BY <1>3, <1>5, <1>6 DEF Decided
<1>15. Fires(ls, <<m, on>>, v, stack) => Decided(m, lists')
  <2>1. CASE state[m] = "pending"
    BY <1>3, <1>5, <2>1 DEF Decided
  <2>2. CASE state[m] # "pending"
    <3>1. Decided(m, lists)
      <4>1. state[m] \notin {"unused", "pending"}
        BY <1>2, <2>2 DEF Made
      <4>2. QED BY <1>1, <1>2, <4>1, MemoryOf
    <3>2. QED BY <1>2, <1>14, <3>1
  <2>3. QED BY <2>1, <2>2
<1>16. QED BY <1>7, <1>10, <1>11, <1>12, <1>13, <1>14, <1>15 DEF DInv

\* For the others nothing is counted.
LEMMA WhenOthers ==
  ASSUME DInv, NEW d \in Deferreds, NEW on \in Outcomes, NEW m \in Deferreds, NEW v,
         WhenEffect(d, on, m, v), UNCHANGED <<state, args>>,
         NEW x \in Deferreds, x # m, args[x] # <<>>
  PROVE  WaitsOf(x, remaining[x], lists', stack', state, args)
<1>1. WaitsOf(x, remaining[x], lists, stack, state, args)
  BY DEF DInv, WaitsInv
<1>2. Given(x, stack, state, args)
  BY GivenAll DEF DInv
<1>3. /\ Update(x) # [kind |-> Counter(on), n |-> m]
      /\ Reject(x) # [kind |-> Counter(on), n |-> m]
  BY DEF Update, Reject, Counter
<1>4. "done" \in Outcomes /\ "fail" \in Outcomes
  BY DEF Outcomes
<1>5. SamePlaces(lists, lists', x)
  BY <1>3, <1>4 DEF WhenEffect, SamePlaces
<1>6. \A o \in Outcomes : lists'[<<x, o>>].memory = lists[<<x, o>>].memory
  BY DEF WhenEffect
<1>7. SameWhen(stack, stack')
  BY DEF WhenEffect
<1>8. QED BY <1>1, <1>2, <1>5, <1>6, <1>7, WaitsKept

LEMMA WhenUpdates ==
  ASSUME DInv, NEW d \in Deferreds, NEW m \in Deferreds, NEW v,
         WhenEffect(d, "done", m, v), UNCHANGED <<state, args>>, args[m] # <<>>, Made(d),
         state[d] = "resolved",
         remaining[m] # 1 => lists'[<<m, "done">>].memory = lists[<<m, "done">>].memory,
         remaining[m] = 1 => Decided(m, lists'),
         Decided(m, lists) => Decided(m, lists')
  PROVE  WaitsOf(m, remaining[m] - 1, lists', stack', state, args)
<1> DEFINE l == <<d, "done">>
           k0 == lists[l].firingIndex + 1
           f == Update(m)
<1>1. WaitsOf(m, remaining[m], lists, stack, state, args) /\ remaining[m] \in Int
  BY DEF DInv, WaitsInv, CoreInv, DeferredTypes
<1>2. f = [kind |-> Counter("done"), n |-> m] /\ f # Reject(m)
  BY DEF Counter, Update, Reject
<1>3. "done" \in Outcomes /\ "fail" \in Outcomes /\ "done" # "fail"
  BY DEF Outcomes
<1> HIDE DEF l, k0, f
<1>4. /\ SameWhen(stack, stack')
      /\ \A x \in Deferreds : x # d =>
            Places(lists'[<<x, "done">>], f) = Places(lists[<<x, "done">>], f)
      /\ \A x \in Deferreds :
            Places(lists'[<<x, "fail">>], Reject(m)) = Places(lists[<<x, "fail">>], Reject(m))
      /\ k0 \in Places(lists[l], f) /\ Places(lists'[l], f) = Places(lists[l], f) \ {k0}
      /\ lists'[<<m, "fail">>].memory = lists[<<m, "fail">>].memory
  BY <1>2, <1>3 DEF WhenEffect, l, k0
<1>5. \A s : Unadopted(m, stack') = Unadopted(m, stack)
  BY <1>4, UnadoptedSame
<1>6. Adopted(m, stack', args) = Adopted(m, stack, args)
  BY <1>5 DEF Adopted
<1>7. k0 \in Nat
  <2>1. OnceList(lists[l])
    BY <1>3 DEF DInv, CoreInv, Sound, OnceLists, l
  <2>2. QED BY <1>4, <2>1, PlacesNat
<1>8. Updates(m, lists') = Updates(m, lists) \ {<<d, k0>>}
  <2>1. ASSUME NEW p \in Deferreds \X Nat
        PROVE  p[2] \in Places(lists'[<<p[1], "done">>], f) <=>
                  p[2] \in Places(lists[<<p[1], "done">>], f) /\ p # <<d, k0>>
    <3>1. p = <<p[1], p[2]>> /\ p[1] \in Deferreds
      OBVIOUS
    <3>2. CASE p[1] = d
      BY <1>4, <3>1, <3>2 DEF l
    <3>3. CASE p[1] # d
      BY <1>4, <3>1, <3>3
    <3>4. QED BY <3>2, <3>3
  <2>2. QED BY <2>1 DEF Updates, f
<1>9. <<d, k0>> \in Updates(m, lists)
  BY <1>4, <1>7 DEF Updates, f, l
<1>10. <<d, k0>> \notin {0} \X Unadopted(m, stack)
  BY DEF Deferreds
<1>11. /\ <<d, k0>> \in Outstanding(m, lists, stack)
       /\ Outstanding(m, lists', stack') = Outstanding(m, lists, stack) \ {<<d, k0>>}
  BY <1>5, <1>8, <1>9, <1>10 DEF Outstanding
<1>12. \A x \in Deferreds : Places(lists'[<<x, "done">>], f) # {} =>
                               Places(lists[<<x, "done">>], f) # {}
  BY <1>4 DEF l
<1>13. \A x \in Deferreds : Places(lists'[<<x, "done">>], f) # {} => x \in Adopted(m, stack, args)
  BY <1>1, <1>12 DEF WaitsOf, f
<1>14. Given(m, stack, state, args)
  BY GivenAll DEF DInv
<1>15. \A x \in Adopted(m, stack, args) :
          /\ state[x] = "pending" => Places(lists'[<<x, "done">>], f) # {}
          /\ Places(lists'[<<x, "fail">>], Reject(m)) = Places(lists[<<x, "fail">>], Reject(m))
  <2>1. SUFFICES ASSUME NEW x \in Adopted(m, stack, args)
                 PROVE  /\ state[x] = "pending" => Places(lists'[<<x, "done">>], f) # {}
                        /\ Places(lists'[<<x, "fail">>], Reject(m))
                              = Places(lists[<<x, "fail">>], Reject(m))
    OBVIOUS
  <2>2. x \in Deferreds
    BY <1>14 DEF Given
  <2>3. state[x] = "pending" => x # d /\ Places(lists[<<x, "done">>], f) # {}
    BY <1>1 DEF WaitsOf, f
  <2>4. QED BY <1>4, <2>2, <2>3
<1>16. QED BY <1>1, <1>4, <1>6, <1>11, <1>13, <1>15, WaitsCount DEF f

\* An argument is resolved.
LEMMA RunUpdateInv ==
  ASSUME DInv, NEW d \in Deferreds, RunUpdate(d)
  PROVE  DInv'
<1> DEFINE l == <<d, "done">>
           m == Reached(l)
           ls == Passed(l)
           v == lists[l].memory
<1>1. /\ Reaches(l, "update") /\ Counted(m, ls, v, stack)
      /\ UNCHANGED <<heard, emptied, ops, state, thens, timers, maxDepth, hooks, args>>
      /\ UNCHANGED historyVars
  BY DEF RunUpdate
<1>2. CoreInv /\ "done" \in Outcomes /\ Counter("done") = "update"
  BY DEF DInv, Outcomes, Counter
<1>3. WhenCalls(d, "done", m, ls)
  BY <1>1, <1>2, WhenCalled
<1>4. m \in Deferreds /\ args[m] # <<>> /\ state[d] = "resolved"
  BY <1>3 DEF WhenCalls, Final
<1> HIDE DEF m, ls
<1>5. /\ remaining \in [Deferreds -> Int] /\ DOMAIN lists = Lists
  BY <1>2 DEF CoreInv, DeferredTypes, Sound
<1>6. remaining' = [remaining EXCEPT ![m] = @ - 1]
  BY <1>1 DEF Counted
<1>7. /\ remaining' \in [Deferreds -> Int] /\ remaining'[m] = remaining[m] - 1
      /\ \A x \in Deferreds : x # m => remaining'[x] = remaining[x]
  BY <1>4, <1>5, <1>6
<1>8. WhenFires("done", m, v, ls)
  BY <1>1 DEF Counted, WhenFires
<1> HIDE DEF v
<1>9. /\ CoreInv' /\ AnswersInv' /\ OrderInv' /\ emptied' = {}
      /\ WhenEffect(d, "done", m, v)
      /\ Fires(ls, <<m, "done">>, v, stack) => Decided(m, lists')
      /\ Decided(m, lists) => Decided(m, lists')
  BY <1>1, <1>2, <1>3, <1>4, <1>7, <1>8, WhenKept DEF v, l
<1>10. WaitsInv'
  <2>1. state' = state /\ args' = args
    BY <1>1
  <2>2. ASSUME NEW x \in Deferreds, x # m, args[x] # <<>>
        PROVE  WaitsOf(x, remaining[x], lists', stack', state, args)
    BY <1>2, <1>4, <1>9, <2>1, <2>2, WhenOthers
  <2>3. WaitsOf(m, remaining[m] - 1, lists', stack', state, args)
    <3>1. remaining[m] = 1 => Decided(m, lists')
      BY <1>1, <1>9 DEF Counted, v
    <3>2. remaining[m] # 1 => lists'[<<m, "done">>].memory = lists[<<m, "done">>].memory
      <4>1. remaining[m] # 1 => lists' = ls
        BY <1>1 DEF Counted
      <4>2. \A x \in Deferreds : ls[<<x, "done">>].memory = lists[<<x, "done">>].memory
        BY <1>2, <1>3 DEF WhenCalls, OthersSame
      <4>3. QED BY <1>4, <4>1, <4>2
    <3>3. Made(d)
      BY <1>4 DEF Made
    <3>4. QED BY <1>4, <1>9, <2>1, <3>1, <3>2, <3>3, WhenUpdates
  <2>4. \A x \in Deferreds :
           IF args[x] = <<>> THEN remaining'[x] = 0
           ELSE WaitsOf(x, remaining'[x], lists', stack', state, args)
    <3>1. SUFFICES ASSUME NEW x \in Deferreds
                   PROVE  IF args[x] = <<>> THEN remaining'[x] = 0
                          ELSE WaitsOf(x, remaining'[x], lists', stack', state, args)
      OBVIOUS
    <3>2. CASE args[x] = <<>>
      <4>1. x # m /\ remaining[x] = 0
        BY <1>4, <3>2 DEF DInv, WaitsInv
      <4>2. QED BY <1>7, <3>2, <4>1
    <3>3. CASE args[x] # <<>> /\ x # m
      BY <1>7, <2>2, <3>3
    <3>4. CASE x = m
      BY <1>4, <1>7, <2>3, <3>4
    <3>5. QED BY <3>2, <3>3, <3>4
  <2>5. QED BY <2>1, <2>4 DEF WaitsInv
<1>11. QED BY <1>9, <1>10 DEF DInv

\* An argument is rejected.
LEMMA RunRejectInv ==
  ASSUME DInv, NEW d \in Deferreds, RunReject(d)
  PROVE  DInv'
<1> DEFINE l == <<d, "fail">>
           m == Reached(l)
           ls == Passed(l)
           v == lists[l].memory
<1>1. /\ Reaches(l, "reject") /\ Fires(ls, <<m, "fail">>, v, stack)
      /\ UNCHANGED <<heard, emptied, ops, state, thens, timers, maxDepth, hooks, args>>
      /\ UNCHANGED historyVars /\ remaining' = remaining
  BY DEF RunReject, deferredVars
<1>2. CoreInv /\ "fail" \in Outcomes /\ Counter("fail") = "reject"
  BY DEF DInv, Outcomes, Counter
<1>3. WhenCalls(d, "fail", m, ls)
  BY <1>1, <1>2, WhenCalled
<1>4. m \in Deferreds /\ args[m] # <<>> /\ state[d] = "rejected" /\ IsGiven(d, m, args)
  BY <1>3 DEF WhenCalls, Final
<1> HIDE DEF m, ls
<1>5. remaining' \in [Deferreds -> Int]
  BY <1>1, <1>2 DEF CoreInv, DeferredTypes
<1>6. WhenFires("fail", m, v, ls)
  BY <1>1 DEF WhenFires
<1> HIDE DEF v
<1>7. /\ CoreInv' /\ AnswersInv' /\ OrderInv' /\ emptied' = {}
      /\ WhenEffect(d, "fail", m, v)
      /\ Fires(ls, <<m, "fail">>, v, stack) => Decided(m, lists')
  BY <1>1, <1>2, <1>3, <1>4, <1>5, <1>6, WhenKept DEF v, l
<1>8. WaitsInv'
  <2>1. state' = state /\ args' = args
    BY <1>1
  <2>2. ASSUME NEW x \in Deferreds, x # m, args[x] # <<>>
        PROVE  WaitsOf(x, remaining[x], lists', stack', state, args)
    BY <1>2, <1>4, <1>7, <2>1, <2>2, WhenOthers
  <2>3. WaitsOf(m, remaining[m], lists', stack', state, args)
    <3>1. WaitsOf(m, remaining[m], lists, stack, state, args) /\ Given(m, stack, state, args)
      BY <1>2, <1>4, GivenAll DEF DInv, WaitsInv
    <3>2. "done" \in Outcomes /\ "done" # "fail"
      BY DEF Outcomes
    <3>3. Update(m) # [kind |-> Counter("fail"), n |-> m]
      BY DEF Update, Counter
    <3>4. SameWhen(stack, stack')
      BY <1>7 DEF WhenEffect
    <3>5. \A x \in Deferreds : Places(lists'[<<x, "done">>], Update(m))
                                  = Places(lists[<<x, "done">>], Update(m))
      BY <1>7, <3>2, <3>3 DEF WhenEffect
    <3>6. lists'[<<m, "done">>].memory = lists[<<m, "done">>].memory
      BY <1>4, <1>7, <3>2 DEF WhenEffect
    <3>7. Decided(m, lists')
      BY <1>1, <1>7 DEF v
    <3>8. QED BY <1>4, <3>1, <3>4, <3>5, <3>6, <3>7, WaitsReject
  <2>4. \A x \in Deferreds :
           IF args[x] = <<>> THEN remaining[x] = 0
           ELSE WaitsOf(x, remaining[x], lists', stack', state, args)
    BY <2>2, <2>3 DEF DInv, WaitsInv
  <2>5. QED BY <1>1, <2>1, <2>4 DEF WaitsInv
<1>9. QED BY <1>7, <1>8 DEF DInv

\* The frame of a `when' matters to what that `when' made only.
LEMMA UnadoptedOther ==
  ASSUME NEW s \in Seq(StackFrame), NEW f \in StackFrame, NEW x, f.to # x
  PROVE  Unadopted(x, Append(s, f)) = Unadopted(x, s)
<1>1. /\ Len(s) \in Nat /\ DOMAIN s = 1 .. Len(s) /\ DOMAIN Append(s, f) = 1 .. Len(s) + 1
      /\ \A k \in 1 .. Len(s) : Append(s, f)[k] = s[k]
      /\ Append(s, f)[Len(s) + 1] = f
  BY Appended
<1>2. ASSUME NEW i, NEW k \in DOMAIN Append(s, f), Append(s, f)[k].frame = "when",
             Append(s, f)[k].to = x, i <= Append(s, f)[k].depth
      PROVE  \E j \in DOMAIN s : s[j].frame = "when" /\ s[j].to = x /\ i <= s[j].depth
  <2>1. k \in 1 .. Len(s)
    BY <1>1, <1>2
  <2>2. QED BY <1>1, <1>2, <2>1
<1>3. ASSUME NEW i, NEW k \in DOMAIN s, s[k].frame = "when", s[k].to = x, i <= s[k].depth
      PROVE  \E j \in DOMAIN Append(s, f) :
                /\ Append(s, f)[j].frame = "when" /\ Append(s, f)[j].to = x
                /\ i <= Append(s, f)[j].depth
  <2>1. k \in DOMAIN Append(s, f) /\ Append(s, f)[k] = s[k]
    BY <1>1, <1>3
  <2>2. QED BY <1>3, <2>1
<1>4. QED BY <1>2, <1>3 DEF Unadopted

LEMMA WaitsSameFrames ==
  ASSUME NEW m, NEW left, NEW ls, NEW s, NEW st, NEW ar, WaitsOf(m, left, ls, s, st, ar),
         NEW s2, Unadopted(m, s2) = Unadopted(m, s)
  PROVE  WaitsOf(m, left, ls, s2, st, ar)
<1>1. Adopted(m, s2, ar) = Adopted(m, s, ar) /\ Outstanding(m, ls, s2) = Outstanding(m, ls, s)
  BY DEF Adopted, Outstanding
<1>2. Counts(m, left, ls, s2, st, ar)
  BY <1>1 DEF WaitsOf, Counts, SomeRejected
<1>3. QED BY <1>1, <1>2 DEF WaitsOf

\* The lists of what was not made yet only settle it.
LEMMA UnmadeLists ==
  ASSUME CoreInv, Quiet(lists), NEW m \in Deferreds, ~Made(m), NEW on \in Outcomes,
         NEW i \in DOMAIN lists[<<m, on>>].list
  PROVE  lists[<<m, on>>].list[i].kind = "prologue"
<1> DEFINE c == lists[<<m, on>>]
<1>1. FreshPhase(m, state, lists)
  BY QuietPhases DEF CoreInv, Sound, Made
<1>2. Starts(m, c) /\ Ahead(c) = {}
  BY <1>1 DEF FreshPhase, FreshList, CoreInv, Sources
<1>3. c.list \in Seq(Callback)
  BY CallbackListFields DEF CoreInv, Sound, OnceLists, OnceList
<1>4. i \in Nat /\ i >= 1
  BY <1>3
<1> HIDE DEF c
<1>5. i \notin Ahead(c) /\ c.firingIndex = 0
  BY <1>2 DEF Starts
<1>6. QED BY <1>4, <1>5 DEF Ahead, c

\* when is called.
LEMMA CallWhenInv ==
  ASSUME DInv, NEW m \in Deferreds, CallWhen(m)
  PROVE  DInv'
<1> DEFINE w == WhenFrame(m, 2)
<1>1. /\ CoreInv /\ AnswersInv /\ OrderInv /\ WaitsInv /\ DeferredTypes
      /\ Running /\ ops < MaxOps /\ ops' = ops + 1
      /\ ~Made(m) /\ state[m] = "unused"
      /\ remaining' = [remaining EXCEPT ![m] = 2]
      /\ state' = [state EXCEPT ![m] = "pending"]
      /\ stack' = Append(stack, w)
      /\ lists' = lists /\ heard' = heard /\ emptied' = {} /\ thens' = thens
      /\ timers' = timers /\ maxDepth' = maxDepth /\ hooks' = hooks
      /\ registered' = registered /\ source' = source /\ answers' = answers
  BY DEF CallWhen, Operation, New, Made, DInv, CoreInv, historyVars
<1>2. PICK a \in [1 .. 2 -> {0} \cup {d \in Deferreds : Made(d)}] :
         a[1] + a[2] > 0 /\ args' = [args EXCEPT ![m] = a]
  BY DEF CallWhen
<1>3. /\ state \in [Deferreds -> {"unused", "pending"} \cup Settled]
      /\ args \in [Deferreds -> Seq(0 .. MaxDeferred)]
      /\ remaining \in [Deferreds -> Int] /\ maxDepth \in [Deferreds -> Nat]
      /\ ops \in 0 .. MaxOps /\ MaxOps \in Nat /\ MaxDeferred \in Nat
  BY <1>1, CallbacksAssumption, DeferredAssumption DEF DeferredTypes
<1>4. a \in Seq(0 .. MaxDeferred) /\ a \in [1 .. 2 -> 0 .. MaxDeferred] /\ a # <<>>
      /\ (a[1] # 0 \/ a[2] # 0)
      /\ \A i \in 1 .. 2 : a[i] # 0 => a[i] \in Deferreds /\ Made(a[i]) /\ a[i] # m
  <2>1. a \in [1 .. 2 -> 0 .. MaxDeferred]
    BY <1>2, <1>3, SMTT(20) DEF Deferreds
  <2>2. a \in Seq(0 .. MaxDeferred)
    BY <2>1, SeqDef
  <2>3. a # <<>>
    BY <2>1
  <2>4. a[1] # 0 \/ a[2] # 0
    BY <1>2
  <2>5. \A i \in 1 .. 2 : a[i] # 0 => a[i] \in Deferreds /\ Made(a[i]) /\ a[i] # m
    BY <1>1, <1>2
  <2>6. QED BY <2>1, <2>2, <2>3, <2>4, <2>5
<1>5. /\ args' \in [Deferreds -> Seq(0 .. MaxDeferred)] /\ args'[m] = a
      /\ \A x \in Deferreds : x # m => args'[x] = args[x]
      /\ state' \in [Deferreds -> {"unused", "pending"} \cup Settled]
      /\ state'[m] = "pending" /\ \A x \in Deferreds : x # m => state'[x] = state[x]
      /\ remaining' \in [Deferreds -> Int] /\ remaining'[m] = 2
      /\ \A x \in Deferreds : x # m => remaining'[x] = remaining[x]
      /\ ops' \in 0 .. MaxOps /\ ops' >= 1
  BY <1>1, <1>2, <1>3, <1>4
<1>6. args[m] = <<>> /\ source[m] = 0
  BY <1>1 DEF CoreInv, Sources
<1>7. \A x \in Deferreds : Made(x) => state'[x] = state[x] /\ Made(x)'
  BY <1>1, <1>5 DEF Made
<1>8. /\ Quiet(lists) /\ NoWhen(stack) /\ stack \in Seq(StackFrame)
      /\ Sound(lists, stack, state, registered, args)
      /\ Frames(stack, hooks, maxDepth, source, args)
  BY <1>1, Calm DEF Running, On, CoreInv
<1>9. w \in StackFrame /\ w.frame = "when" /\ w.to = m /\ w.depth = 2
  BY DEF WhenFrame, StackFrame
<1> HIDE DEF w
<1>10. Sound(lists, stack', state', registered, args')
  <2>1. \A x \in Deferreds : state'[x] = state[x] \/ (state[x] = "unused" /\ state'[x] = "pending")
    BY <1>1, <1>5
  <2>2. \A d, x \in Deferreds : IsGiven(d, x, args) => IsGiven(d, x, args')
    BY <1>5, <1>6 DEF IsGiven
  <2>3. Sound(lists, stack, state', registered, args')
    BY <1>8, <2>1, <2>2, SoundMore
  <2>4. \A on \in Outcomes : \A i \in DOMAIN lists[<<w.to, on>>].list :
           lists[<<w.to, on>>].list[i].kind = "prologue"
    BY <1>1, <1>8, <1>9, UnmadeLists
  <2>5. w.frame # "fire"
    BY <1>9
  <2>6. Sound(lists, Append(stack, w), state', registered, args')
    BY <1>8, <1>9, <2>3, <2>4, <2>5, PushSound
  <2>7. QED BY <1>1, <2>6
<1>11. Frames(stack', hooks, maxDepth, source, args')
  <2>1. \A x \in Deferreds : args[x] # <<>> => args'[x] # <<>>
    BY <1>5, <1>6
  <2>2. \A x \in Deferreds : maxDepth[x] <= maxDepth[x] /\ (source[x] # 0 => source[x] # 0)
    BY <1>3
  <2>3. Frames(stack, hooks, maxDepth, source, args')
    BY <1>3, <1>8, <2>1, <2>2, FramesMore
  <2>4. Append(stack, w)[Len(stack) + 1] = w
    BY <1>8, <1>9, Appended
  <2>5. RestsOn(Append(stack, w), Len(stack) + 1, hooks, maxDepth, source, args')
    <3>1. args'[w.to] # <<>>
      BY <1>4, <1>5, <1>9
    <3>2. QED BY <1>9, <2>4, <3>1 DEF RestsOn
  <2>6. QED BY <1>1, <1>8, <2>3, <2>5, FramesPush
<1>12. Sources'
  <2>1. ASSUME NEW x \in Deferreds, args'[x] # <<>>
        PROVE  ArgsOK(x)' /\ Made(x)'
    <3>1. CASE x = m
      <4>1. \A i \in 1 .. 2 : args'[m][i] # 0 => args'[m][i] # m /\ state'[args'[m][i]] # "unused"
        BY <1>4, <1>5, <1>7 DEF Made
      <4>2. args'[m] \in [1 .. 2 -> 0 .. MaxDeferred] /\ (args'[m][1] # 0 \/ args'[m][2] # 0)
        BY <1>4, <1>5
      <4>3. Made(m)'
        BY <1>5 DEF Made
      <4>4. QED BY <3>1, <4>1, <4>2, <4>3 DEF ArgsOK, Made
    <3>2. CASE x # m
      <4>1. ArgsOK(x) /\ Made(x) /\ args'[x] = args[x]
        BY <1>1, <1>5, <2>1, <3>2 DEF CoreInv, Sources
      <4>2. \A i \in 1 .. 2 : args[x][i] # 0 => args[x][i] \in Deferreds
        BY <4>1 DEF ArgsOK, Deferreds
      <4>3. \A i \in 1 .. 2 : args'[x][i] # 0 => args'[x][i] # x /\ state'[args'[x][i]] # "unused"
        BY <1>7, <4>1, <4>2 DEF ArgsOK, Made
      <4>4. args'[x] \in [1 .. 2 -> 0 .. MaxDeferred] /\ (args'[x][1] # 0 \/ args'[x][2] # 0)
        BY <4>1 DEF ArgsOK
      <4>5. QED BY <1>7, <4>1, <4>3, <4>4 DEF ArgsOK, Made
    <3>3. QED BY <3>1, <3>2
  <2>2. \A x \in Deferreds : source'[x] # 0 => args'[x] = <<>> /\ Made(x)'
    BY <1>1, <1>5, <1>6, <1>7, SMTT(20) DEF CoreInv, Sources
  <2>3. \A x \in Deferreds : Made(x)' \/ \A on \in Outcomes : Ahead(lists'[<<x, on>>]) = {}
    BY <1>1, <1>7 DEF CoreInv, Sources
  <2>4. \A x \in Deferreds : state'[x] # "pending" => thens'[x] = <<>>
    BY <1>1, <1>5 DEF CoreInv, Sources
  <2>5. QED BY <1>5, <2>1, <2>2, <2>3, <2>4 DEF Sources
<1>13. DeferredTypes'
  BY <1>1, <1>5 DEF DeferredTypes
<1>14. Promised'
  BY <1>1 DEF CoreInv, Promised
<1>15. CoreInv'
  BY <1>1, <1>10, <1>11, <1>12, <1>13, <1>14 DEF CoreInv
<1>16. OrderInv'
  <2>1. \A e \in Deferreds, o \in Outcomes :
           /\ SameCalls(lists[<<e, o>>], lists'[<<e, o>>])
           /\ state'[e] = Final(o) <=> state[e] = Final(o)
           /\ state[e] = Final(o) => lists'[<<e, o>>].memory = lists[<<e, o>>].memory
    BY <1>1, <1>5, OthersOf DEF SameCalls
  <2>2. QED BY <1>1, <2>1, OrderKept
<1>17. AnswersInv'
  <2>1. \A x \in Deferreds : maxDepth'[x] \in Nat /\ maxDepth[x] <= maxDepth'[x]
    BY <1>1, <1>3
  <2>2. \A k \in DOMAIN stack' : stack'[k].frame = "handler" => Heedable(stack'[k].v, answers)
    <3>1. \A k \in DOMAIN stack' : (k \in DOMAIN stack /\ stack'[k] = stack[k]) \/ stack'[k] = w
      BY <1>1, <1>8, <1>9, AppendElements
    <3>2. QED BY <1>1, <1>9, <3>1 DEF AnswersInv
  <2>3. \A k \in DOMAIN timers' : timers'[k].how # "progress" => Heedable(timers'[k].v, answers)
    BY <1>1 DEF AnswersInv
  <2>4. QED BY <1>1, <2>1, <2>2, <2>3, AnswersKept
<1>18. WaitsInv'
  <2>1. WaitsOf(m, 2, lists, stack', state', args')
    BY <1>1, <1>6, <1>8, WaitsNew DEF w
  <2>2. ASSUME NEW x \in Deferreds, x # m, args[x] # <<>>
        PROVE  WaitsOf(x, remaining[x], lists, stack', state', args')
    <3>1. WaitsOf(x, remaining[x], lists, stack, state, args) /\ Given(x, stack, state, args)
      BY <1>1, <2>2, GivenAll DEF WaitsInv
    <3>2. SamePlaces(lists, lists, x) /\ SameWhen(stack, stack)
      BY DEF SamePlaces, SameWhen
    <3>3. \A d \in Deferreds : state[d] # "unused" => state'[d] = state[d]
      BY <1>7 DEF Made
    <3>4. args'[x] = args[x]
      BY <1>5, <2>2
    <3>5. \A on \in Outcomes : lists[<<x, on>>].memory = lists[<<x, on>>].memory
      OBVIOUS
    <3>6. WaitsOf(x, remaining[x], lists, stack, state', args')
      BY <3>1, <3>2, <3>3, <3>4, <3>5, WaitsKept
    <3>7. Unadopted(x, stack') = Unadopted(x, stack)
      BY <1>1, <1>8, <1>9, <2>2, UnadoptedOther
    <3>8. QED BY <3>6, <3>7, WaitsSameFrames
  <2>3. SUFFICES ASSUME NEW x \in Deferreds
                 PROVE  IF args'[x] = <<>> THEN remaining'[x] = 0
                        ELSE WaitsOf(x, remaining'[x], lists', stack', state', args')
    BY DEF WaitsInv
  <2>4. CASE x = m
    BY <1>1, <1>4, <1>5, <2>1, <2>4
  <2>5. CASE x # m
    BY <1>1, <1>5, <2>2, <2>5, ZenonT(60) DEF WaitsInv
  <2>6. QED BY <2>4, <2>5
<1>19. QED BY <1>1, <1>15, <1>16, <1>17, <1>18 DEF DInv

-----------------------------------------------------------------------------
(* when looks at its arguments.                                            *)

\* The stack that `when' goes on with.
Back(m, i) == IF i = 1 THEN Front(stack) ELSE Append(Front(stack), WhenFrame(m, i - 1))

\* Nobody but this `when' is under way, in the stack s.
OnlyWhen(m, s) == \A k \in DOMAIN s : s[k].frame = "when" => s[k].to = m

LEMMA UnadoptedNone ==
  ASSUME NEW s, NEW m, NEW x, OnlyWhen(m, s), x # m
  PROVE  Unadopted(x, s) = {}
BY DEF OnlyWhen, Unadopted

LEMMA UnadoptedLast ==
  ASSUME NEW s \in Seq(StackFrame), NoWhen(s), NEW m \in Deferreds, NEW i \in 1 .. 2
  PROVE  Unadopted(m, Append(s, WhenFrame(m, i))) = 1 .. i
<1> DEFINE w == WhenFrame(m, i)
<1>1. w \in StackFrame /\ w.frame = "when" /\ w.to = m /\ w.depth = i
  BY DEF WhenFrame, StackFrame
<1> HIDE DEF w
<1>2. /\ Len(s) \in Nat /\ DOMAIN s = 1 .. Len(s) /\ DOMAIN Append(s, w) = 1 .. Len(s) + 1
      /\ \A k \in 1 .. Len(s) : Append(s, w)[k] = s[k]
      /\ Append(s, w)[Len(s) + 1] = w
  BY <1>1, Appended
<1>3. \A k \in DOMAIN Append(s, w) : Append(s, w)[k].frame = "when" => k = Len(s) + 1
  BY <1>2 DEF NoWhen
<1>4. Len(s) + 1 \in DOMAIN Append(s, w)
  BY <1>2
<1>5. ASSUME NEW j \in 1 .. 2
      PROVE  (\E k \in DOMAIN Append(s, w) :
                  /\ Append(s, w)[k].frame = "when" /\ Append(s, w)[k].to = m
                  /\ j <= Append(s, w)[k].depth) <=> j <= i
  BY <1>1, <1>2, <1>3, <1>4
<1>6. \A j \in 1 .. 2 : j \in Unadopted(m, Append(s, w)) <=> j \in 1 .. i
  BY <1>5 DEF Unadopted
<1>7. Unadopted(m, Append(s, w)) \subseteq 1 .. 2 /\ 1 .. i \subseteq 1 .. 2
  BY DEF Unadopted
<1>8. Unadopted(m, Append(s, w)) = 1 .. i
  BY <1>6, <1>7
<1>9. QED BY <1>8 DEF w

LEMMA WhenTop ==
  ASSUME CoreInv, On("when"), NEW m, m = Top.to, NEW i, i = Top.depth
  PROVE  /\ m \in Deferreds /\ i \in 1 .. 2 /\ args[m] # <<>> /\ Quiet(lists)
         /\ \A on \in Outcomes : \A j \in DOMAIN lists[<<m, on>>].list :
               lists[<<m, on>>].list[j].kind = "prologue"
         /\ Back(m, i) \in Seq(StackFrame)
         /\ Sound(lists, Back(m, i), state, registered, args)
         /\ Frames(Back(m, i), hooks, maxDepth, source, args)
         /\ OnlyWhen(m, Back(m, i)) /\ OnlyWhen(m, stack)
         /\ i \in Unadopted(m, stack)
         /\ Unadopted(m, Back(m, i)) = Unadopted(m, stack) \ {i}
         /\ \A k \in DOMAIN Back(m, i) : Back(m, i)[k].frame = "handler" =>
               k \in DOMAIN stack /\ Back(m, i)[k] = stack[k]
<1>1. /\ stack \in Seq(StackFrame) /\ stack # <<>> /\ Top = stack[Len(stack)]
      /\ Top.frame = "when"
      /\ Sound(lists, stack, state, registered, args)
      /\ Frames(stack, hooks, maxDepth, source, args)
  BY DEF CoreInv, Sound, On, Idle, Top
<1>2. /\ Front(stack) \in Seq(StackFrame) /\ Len(Front(stack)) = Len(stack) - 1
      /\ Len(stack) \in Nat /\ Len(stack) >= 1
      /\ DOMAIN Front(stack) = 1 .. Len(stack) - 1 /\ DOMAIN stack = 1 .. Len(stack)
      /\ \A k \in 1 .. Len(stack) - 1 : Front(stack)[k] = stack[k]
  BY <1>1, FrontFacts
<1>3. m \in Deferreds /\ i \in 1 .. 2 /\ Top = WhenFrame(m, i)
  <2>1. Top \in StackFrame
    BY <1>1, <1>2
  <2>2. QED BY <1>1, <2>1 DEF StackFrame, WhenFrame
<1>4. args[m] # <<>>
  BY <1>1, <1>2 DEF Frames, RestsOn
<1>5. Quiet(lists)
  BY <1>1, QuietTop DEF Sound
<1>6. \A on \in Outcomes : \A j \in DOMAIN lists[<<m, on>>].list :
         lists[<<m, on>>].list[j].kind = "prologue"
  <2>1. WhenAlone(lists, stack) /\ Len(stack) \in DOMAIN stack
    BY <1>1, <1>2 DEF Sound
  <2>2. QED BY <1>1, <2>1 DEF WhenAlone
<1>7. NoWhen(Front(stack))
  <2>1. SUFFICES ASSUME NEW k \in DOMAIN Front(stack), Front(stack)[k].frame = "when"
                 PROVE  FALSE
    BY DEF NoWhen
  <2>2. k \in DOMAIN stack /\ stack[k].frame = "when" /\ Len(stack) \in k + 1 .. Len(stack)
    BY <1>2, <2>1
  <2>3. stack[Len(stack)].frame = "fire"
    BY <1>1, <2>2 DEF Sound, WhenAlone
  <2>4. QED BY <1>1, <2>3
<1>8. stack = Append(Front(stack), WhenFrame(m, i))
  <2>1. WhenFrame(m, i) \in StackFrame
    BY <1>3 DEF WhenFrame, StackFrame
  <2> DEFINE t == Append(Front(stack), WhenFrame(m, i))
  <2>2. /\ t \in Seq(StackFrame) /\ DOMAIN t = 1 .. Len(stack)
        /\ \A k \in 1 .. Len(stack) - 1 : t[k] = stack[k]
        /\ t[Len(stack)] = stack[Len(stack)]
    BY <1>1, <1>2, <1>3, <2>1, Appended
  <2> HIDE DEF t
  <2>3. \A k \in 1 .. Len(stack) : k \in 1 .. Len(stack) - 1 \/ k = Len(stack)
    BY <1>2
  <2>4. \A k \in 1 .. Len(stack) : t[k] = stack[k]
    BY <2>2, <2>3
  <2>5. Len(t) = Len(stack)
    BY <1>2, <2>2
  <2>6. t = stack
    BY <1>1, <1>2, <2>2, <2>4, <2>5, SeqEqual
  <2>7. QED BY <2>6 DEF t
<1>9. /\ Sound(lists, Front(stack), state, registered, args)
      /\ Frames(Front(stack), hooks, maxDepth, source, args)
  <2>1. \A k \in DOMAIN Front(stack) : Front(stack)[k] = stack[k]
    BY <1>2
  <2>2. Len(Front(stack)) <= Len(stack) /\ Len(Front(stack)) \in Nat
    BY <1>2
  <2>3. Sound(lists, Front(stack), state, registered, args)
    BY <1>1, <1>2, <1>5, <2>1, <2>2, PrefixSound
  <2>4. Frames(Front(stack), hooks, maxDepth, source, args)
    BY <1>1, <1>2, <2>1, <2>2, FramesPrefix
  <2>5. QED BY <2>3, <2>4
<1>10. OnlyWhen(m, stack)
  <2>1. \A k \in DOMAIN stack : k \in DOMAIN Front(stack) \/ k = Len(stack)
    BY <1>2
  <2>2. \A k \in DOMAIN Front(stack) : Front(stack)[k] = stack[k]
    BY <1>2
  <2>3. QED BY <1>1, <1>7, <2>1, <2>2 DEF OnlyWhen, NoWhen
<1>11. Unadopted(m, stack) = 1 .. i
  <2>1. Unadopted(m, Append(Front(stack), WhenFrame(m, i))) = 1 .. i
    BY <1>2, <1>3, <1>7, UnadoptedLast
  <2>2. QED BY <1>8, <2>1, Zenon
<1>12. CASE i = 1
  <2>1. Back(m, i) = Front(stack)
    BY <1>12 DEF Back
  <2>2. OnlyWhen(m, Front(stack)) /\ Unadopted(m, Front(stack)) = {}
    BY <1>7 DEF NoWhen, OnlyWhen, Unadopted
  <2>3. 1 .. i = {1} /\ i = 1
    BY <1>12
  <2>4. \A k \in DOMAIN Front(stack) : k \in DOMAIN stack /\ Front(stack)[k] = stack[k]
    BY <1>2
  <2>5. QED BY <1>2, <1>3, <1>4, <1>5, <1>6, <1>9, <1>10, <1>11, <2>1, <2>2, <2>3, <2>4
<1>13. CASE i = 2
  <2> DEFINE w == WhenFrame(m, 1)
  <2>1. Back(m, i) = Append(Front(stack), w)
    BY <1>13 DEF Back
  <2>2. w \in StackFrame /\ w.frame = "when" /\ w.to = m
    BY <1>3 DEF WhenFrame, StackFrame
  <2>3. Unadopted(m, Append(Front(stack), w)) = 1 .. 1
    BY <1>2, <1>3, <1>7, UnadoptedLast
  <2> HIDE DEF w
  <2>4. 1 .. i = {1, 2} /\ 1 .. 1 = {1} /\ i = 2
    BY <1>13
  <2>5. Sound(lists, Append(Front(stack), w), state, registered, args)
    <3>1. \A on \in Outcomes : \A j \in DOMAIN lists[<<w.to, on>>].list :
             lists[<<w.to, on>>].list[j].kind = "prologue"
      BY <1>6, <2>2
    <3>2. w.frame # "fire"
      BY <2>2
    <3>3. QED BY <1>5, <1>7, <1>9, <2>2, <3>1, <3>2, PushSound
  <2>6. /\ Append(Front(stack), w) \in Seq(StackFrame)
        /\ Append(Front(stack), w)[Len(Front(stack)) + 1] = w
        /\ \A k \in DOMAIN Append(Front(stack), w) :
              \/ k \in DOMAIN Front(stack) /\ Append(Front(stack), w)[k] = Front(stack)[k]
              \/ Append(Front(stack), w)[k] = w
    BY <1>2, <2>2, Appended, AppendElements
  <2>7. Frames(Append(Front(stack), w), hooks, maxDepth, source, args)
    <3>1. RestsOn(Append(Front(stack), w), Len(Front(stack)) + 1, hooks, maxDepth, source, args)
      BY <1>4, <2>2, <2>6 DEF RestsOn
    <3>2. QED BY <1>2, <1>9, <3>1, FramesPush
  <2>8. OnlyWhen(m, Append(Front(stack), w))
    BY <1>7, <2>2, <2>6 DEF OnlyWhen, NoWhen
  <2>9. \A k \in DOMAIN Front(stack) : k \in DOMAIN stack /\ Front(stack)[k] = stack[k]
    BY <1>2
  <2>10. \A k \in DOMAIN Append(Front(stack), w) : Append(Front(stack), w)[k].frame = "handler" =>
            k \in DOMAIN stack /\ Append(Front(stack), w)[k] = stack[k]
    BY <2>2, <2>6, <2>9
  <2>11. i \in Unadopted(m, stack)
         /\ Unadopted(m, Append(Front(stack), w)) = Unadopted(m, stack) \ {i}
    BY <1>11, <2>3, <2>4
  <2>12. QED
    BY <1>3, <1>4, <1>5, <1>6, <1>10, <2>1, <2>5, <2>6, <2>7, <2>8, <2>10, <2>11
<1>14. QED BY <1>3, <1>12, <1>13

\* What does not concern the counts.
LEMMA AdoptCore ==
  ASSUME DInv, Sound(lists', stack', state, registered, args),
         Frames(stack', hooks, maxDepth, source, args),
         remaining' \in [Deferreds -> Int], SameUnmade,
         UNCHANGED <<heard, emptied, ops, state, thens, timers, maxDepth, hooks, args>>,
         UNCHANGED historyVars,
         \A x \in Deferreds, o \in Outcomes :
            /\ SameCalls(lists[<<x, o>>], lists'[<<x, o>>])
            /\ \/ lists'[<<x, o>>].memory = lists[<<x, o>>].memory
               \/ /\ state[x] = "pending" /\ lists'[<<x, o>>].memory \in Data
                  /\ Heedable(lists'[<<x, o>>].memory, answers),
         \A k \in DOMAIN stack' :
            stack'[k].frame = "handler" => \E j \in DOMAIN stack : stack'[k] = stack[j]
  PROVE  CoreInv' /\ AnswersInv' /\ OrderInv' /\ emptied' = {}
<1>1. /\ CoreInv /\ AnswersInv /\ OrderInv /\ DeferredTypes /\ emptied' = {}
      /\ heard' = heard /\ state' = state /\ args' = args /\ registered' = registered
      /\ answers' = answers /\ timers' = timers /\ maxDepth' = maxDepth
  BY DEF DInv, CoreInv, historyVars
<1>2. CoreInv'
  <2>1. Steady
    <3>1. /\ ops' \in 0 .. MaxOps /\ ops' >= ops
      BY <1>1 DEF DeferredTypes
    <3>2. QED BY <1>1, <3>1 DEF CoreInv, DeferredTypes, Promised, Steady, historyVars
  <2>2. Sound(lists', stack', state, registered', args) /\ NewAnswers
    BY <1>1 DEF NewAnswers
  <2>3. QED BY <1>1, <2>1, <2>2, CoreSteady
<1>3. AnswersInv'
  <2>1. \A x \in Deferreds : maxDepth'[x] \in Nat /\ maxDepth[x] <= maxDepth'[x]
    BY <1>1 DEF DeferredTypes
  <2>2. \A k \in DOMAIN timers' : timers'[k].how # "progress" => Heedable(timers'[k].v, answers)
    BY <1>1 DEF AnswersInv
  <2>3. \A k \in DOMAIN stack' : stack'[k].frame = "handler" => Heedable(stack'[k].v, answers)
    BY <1>1 DEF AnswersInv
  <2>4. QED BY <1>1, <2>1, <2>2, <2>3, AnswersKept
<1>4. OrderInv'
  <2>1. \A x \in Deferreds, o \in Outcomes :
           state[x] = Final(o) => lists'[<<x, o>>].memory = lists[<<x, o>>].memory
    BY OthersOf
  <2>2. QED BY <1>1, <2>1, OrderKept
<1>5. QED BY <1>1, <1>2, <1>3, <1>4

\* The counts of the others.
LEMMA AdoptOthers ==
  ASSUME DInv, NEW m \in Deferreds, OnlyWhen(m, stack), OnlyWhen(m, stack'),
         UNCHANGED <<state, args>>, NEW x \in Deferreds, x # m, args[x] # <<>>,
         SamePlaces(lists, lists', x),
         \A on \in Outcomes : lists'[<<x, on>>].memory = lists[<<x, on>>].memory
  PROVE  WaitsOf(x, remaining[x], lists', stack', state, args)
<1>1. WaitsOf(x, remaining[x], lists, stack, state, args) /\ Given(x, stack, state, args)
  BY GivenAll DEF DInv, WaitsInv
<1>2. SameWhen(stack, stack)
  BY DEF SameWhen
<1>3. WaitsOf(x, remaining[x], lists', stack, state, args)
  BY <1>1, <1>2, WaitsKept
<1>4. Unadopted(x, stack') = Unadopted(x, stack)
  BY UnadoptedNone
<1>5. QED BY <1>3, <1>4, WaitsSameFrames

\* A value, that is counted: the deferred m may be resolved with it.
LEMMA CountsValue ==
  ASSUME DInv, NEW m \in Deferreds, NEW s0 \in Seq(StackFrame), args[m] # <<>>, Quiet(lists),
         \A on \in Outcomes : \A j \in DOMAIN lists[<<m, on>>].list :
            lists[<<m, on>>].list[j].kind = "prologue",
         OnlyWhen(m, s0), Sound(lists, s0, state, registered, args),
         Frames(s0, hooks, maxDepth, source, args), Counted(m, lists, 1, s0)
  PROVE  /\ Sound(lists', stack', state, registered, args)
         /\ Frames(stack', hooks, maxDepth, source, args)
         /\ OnlyWhen(m, stack') /\ Unadopted(m, stack') = Unadopted(m, s0)
         /\ \A x \in Deferreds, o \in Outcomes :
               /\ SameAhead(lists[<<x, o>>], lists'[<<x, o>>])
               /\ \/ lists'[<<x, o>>].memory = lists[<<x, o>>].memory
                  \/ /\ x = m /\ o = "done" /\ state[x] = "pending"
                     /\ remaining[m] = 1 /\ lists'[<<x, o>>].memory = 1
         /\ remaining[m] = 1 => Decided(m, lists')
         /\ 1 \in Data /\ 1 \in 0 .. MaxOps
         /\ \A k \in DOMAIN stack' :
               stack'[k].frame = "handler" => k \in DOMAIN s0 /\ stack'[k] = s0[k]
<1>1. CoreInv /\ "done" \in Outcomes /\ "done" \in Ons /\ Made(m)
  BY GivenAll DEF DInv, Outcomes, Ons
<1>2. 1 \in Data /\ 1 \in 0 .. MaxOps /\ 1 # NoData
  <2>1. ops >= 1 /\ ops \in 0 .. MaxOps /\ MaxOps \in Nat /\ MaxAnswers \in Nat
    BY <1>1, CallbacksAssumption, DeferredAssumption DEF CoreInv, Sources, DeferredTypes
  <2>2. QED BY <2>1 DEF Data, NoData
<1>3. CASE remaining[m] # 1
  <2>1. lists' = lists /\ stack' = s0
    BY <1>3 DEF Counted
  <2>2. QED BY <1>2, <1>3, <2>1 DEF SameAhead
<1>4. CASE remaining[m] = 1
  <2> DEFINE g == FireFrame(<<m, "done">>)
  <2>1. Fires(lists, <<m, "done">>, 1, s0)
    BY <1>4 DEF Counted
  <2>2. FireStep(m, "done", 1, lists, s0, lists', stack')
    BY <2>1 DEF Fires, FireStep
  <2>3. MayFire(<<m, "done">>, lists, s0)
    <3>1. SUFFICES ASSUME NEW k \in DOMAIN s0, s0[k].frame = "when"
                   PROVE  Spared(lists, <<m, "done">>, s0[k].to)
      BY DEF MayFire
    <3>2. s0[k].to = m
      BY <3>1 DEF OnlyWhen
    <3>3. <<m, "done">>[2] = "done"
      OBVIOUS
    <3>4. QED BY <1>1, <3>3 DEF Spared
  <2>4. Sound(lists', stack', state, registered, args)
        /\ FireEffect(m, "done", 1, lists, lists', state)
    BY <1>1, <1>2, <2>2, <2>3, FireSound DEF Made
  <2>5. <<m, "done">> \in Lists
    BY <1>1 DEF Lists
  <2>6. g \in StackFrame /\ g.frame = "fire"
    BY <2>5, Frame1
  <2>7. Frames(Append(s0, g), hooks, maxDepth, source, args)
    BY <2>5, FramesPushFire
  <2>8. stack' = s0 \/ stack' = Append(s0, g)
    BY <2>2 DEF FireStep
  <2> HIDE DEF g
  <2>9. \A k \in DOMAIN Append(s0, g) :
           (k \in DOMAIN s0 /\ Append(s0, g)[k] = s0[k]) \/ Append(s0, g)[k] = g
    BY <2>6, AppendElements
  <2>10. OnlyWhen(m, Append(s0, g))
    BY <2>6, <2>9 DEF OnlyWhen
  <2>11. Unadopted(m, Append(s0, g)) = Unadopted(m, s0)
    BY <2>6, SameWhenPush, UnadoptedSame
  <2>12. \A x \in Deferreds, o \in Outcomes :
            /\ SameAhead(lists[<<x, o>>], lists'[<<x, o>>])
            /\ lists'[<<x, o>>].memory =
                  IF x = m /\ o = "done" /\ state[m] = "pending" THEN 1
                  ELSE lists[<<x, o>>].memory
    BY <2>4 DEF FireEffect
  <2>13. Decided(m, lists')
    <3>1. CASE state[m] = "pending"
      BY <1>1, <1>2, <2>12, <3>1 DEF Decided
    <3>2. CASE state[m] # "pending"
      <4>1. state[m] \notin {"unused", "pending"}
        BY <1>1, <3>2 DEF Made
      <4>2. Sound(lists, stack, state, registered, args)
        BY <1>1 DEF CoreInv
      <4>3. Decided(m, lists)
        BY <1>1, <4>1, <4>2, MemoryOf
      <4>4. QED BY <2>12, <3>2, <4>3 DEF Decided
    <3>3. QED BY <3>1, <3>2
  <2>14. Frames(stack', hooks, maxDepth, source, args) /\ OnlyWhen(m, stack')
         /\ Unadopted(m, stack') = Unadopted(m, s0)
         /\ \A k \in DOMAIN stack' :
               stack'[k].frame = "handler" => k \in DOMAIN s0 /\ stack'[k] = s0[k]
    BY <2>6, <2>7, <2>8, <2>9, <2>10, <2>11
  <2>15. QED BY <1>2, <1>4, <2>4, <2>12, <2>13, <2>14
<1>5. QED BY <1>3, <1>4

\* The step of `when' that made m, whose i-th argument is a value, ...
AdoptsValue(m, i) ==
    /\ Counted(m, lists, 1, Back(m, i))
    /\ UNCHANGED <<heard, emptied, ops, state, thens, timers, maxDepth, hooks, args>>
    /\ UNCHANGED historyVars

LEMMA AdoptsValueInv ==
  ASSUME DInv, On("when"), NEW m, m = Top.to, NEW i, i = Top.depth, args[m][i] = 0,
         AdoptsValue(m, i)
  PROVE  DInv'
<1> DEFINE s0 == Back(m, i)
<1>1. /\ CoreInv /\ AnswersInv /\ WaitsInv /\ DeferredTypes /\ state' = state /\ args' = args
      /\ Counted(m, lists, 1, s0)
      /\ UNCHANGED <<heard, emptied, ops, state, thens, timers, maxDepth, hooks, args>>
      /\ UNCHANGED historyVars
  BY DEF DInv, CoreInv, AdoptsValue
<1>2. /\ m \in Deferreds /\ i \in 1 .. 2 /\ args[m] # <<>> /\ Quiet(lists)
      /\ \A on \in Outcomes : \A j \in DOMAIN lists[<<m, on>>].list :
            lists[<<m, on>>].list[j].kind = "prologue"
      /\ s0 \in Seq(StackFrame)
      /\ Sound(lists, s0, state, registered, args)
      /\ Frames(s0, hooks, maxDepth, source, args)
      /\ OnlyWhen(m, s0) /\ OnlyWhen(m, stack)
      /\ i \in Unadopted(m, stack)
      /\ Unadopted(m, s0) = Unadopted(m, stack) \ {i}
      /\ \A k \in DOMAIN s0 : s0[k].frame = "handler" =>
            k \in DOMAIN stack /\ s0[k] = stack[k]
  BY <1>1, WhenTop
<1> HIDE DEF s0
<1>3. /\ Sound(lists', stack', state, registered, args)
      /\ Frames(stack', hooks, maxDepth, source, args)
      /\ OnlyWhen(m, stack') /\ Unadopted(m, stack') = Unadopted(m, s0)
      /\ \A x \in Deferreds, o \in Outcomes :
            /\ SameAhead(lists[<<x, o>>], lists'[<<x, o>>])
            /\ \/ lists'[<<x, o>>].memory = lists[<<x, o>>].memory
               \/ /\ x = m /\ o = "done" /\ state[x] = "pending"
                  /\ remaining[m] = 1 /\ lists'[<<x, o>>].memory = 1
      /\ remaining[m] = 1 => Decided(m, lists')
      /\ 1 \in Data /\ 1 \in 0 .. MaxOps
      /\ \A k \in DOMAIN stack' :
            stack'[k].frame = "handler" => k \in DOMAIN s0 /\ stack'[k] = s0[k]
  BY <1>1, <1>2, CountsValue
<1>4. /\ remaining' \in [Deferreds -> Int] /\ remaining'[m] = remaining[m] - 1
      /\ \A x \in Deferreds : x # m => remaining'[x] = remaining[x]
      /\ remaining[m] \in Int
  BY <1>1, <1>2 DEF Counted, DeferredTypes
<1>5. CoreInv' /\ AnswersInv' /\ OrderInv' /\ emptied' = {}
  <2>1. SameUnmade
    BY <1>3 DEF SameUnmade, SameAhead
  <2>2. Heedable(1, answers)
    BY <1>1, <1>3, OldHeedable
  <2>3. \A x \in Deferreds, o \in Outcomes :
            /\ SameCalls(lists[<<x, o>>], lists'[<<x, o>>])
            /\ \/ lists'[<<x, o>>].memory = lists[<<x, o>>].memory
               \/ /\ state[x] = "pending" /\ lists'[<<x, o>>].memory \in Data
                  /\ Heedable(lists'[<<x, o>>].memory, answers)
    <3>1. \A x \in Deferreds, o \in Outcomes : SameCalls(lists[<<x, o>>], lists'[<<x, o>>])
      BY <1>3, CallsAhead
    <3>2. QED BY <1>3, <2>2, <3>1, ZenonT(60)
  <2>4. \A k \in DOMAIN stack' :
            stack'[k].frame = "handler" => \E j \in DOMAIN stack : stack'[k] = stack[j]
    BY <1>2, <1>3
  <2>5. QED BY <1>1, <1>3, <1>4, <2>1, <2>3, <2>4, AdoptCore
<1>6. \A x \in Deferreds : SamePlaces(lists, lists', x)
  <2>1. "done" \in Outcomes /\ "fail" \in Outcomes
    BY DEF Outcomes
  <2>2. QED BY <1>3, <2>1, PlacesAhead DEF SamePlaces
<1>7. ASSUME NEW x \in Deferreds, x # m, args[x] # <<>>
      PROVE  WaitsOf(x, remaining[x], lists', stack', state, args)
  <2>1. \A on \in Outcomes : lists'[<<x, on>>].memory = lists[<<x, on>>].memory
    BY <1>3, <1>7
  <2>2. QED BY <1>1, <1>2, <1>3, <1>6, <1>7, <2>1, AdoptOthers
<1>8. WaitsOf(m, remaining[m] - 1, lists', stack', state, args)
  <2>1. WaitsOf(m, remaining[m], lists, stack, state, args)
    BY <1>1, <1>2 DEF WaitsInv
  <2>2. Unadopted(m, stack') = Unadopted(m, stack) \ {i}
    BY <1>2, <1>3
  <2>3. Adopted(m, stack', args) = Adopted(m, stack, args)
    BY <1>2, <2>2 DEF Adopted
  <2>4. Updates(m, lists') = Updates(m, lists)
    <3>1. \A p \in Deferreds \X Nat :
             Places(lists'[<<p[1], "done">>], Update(m)) = Places(lists[<<p[1], "done">>], Update(m))
      BY <1>2, <1>6 DEF SamePlaces
    <3>2. QED BY <3>1 DEF Updates
  <2>5. <<0, i>> \notin Updates(m, lists)
    BY DEF Updates, Deferreds
  <2>6. /\ <<0, i>> \in Outstanding(m, lists, stack)
        /\ Outstanding(m, lists', stack') = Outstanding(m, lists, stack) \ {<<0, i>>}
    BY <1>2, <2>2, <2>4, <2>5 DEF Outstanding
  <2>7. \A d \in Deferreds :
            Places(lists'[<<d, "done">>], Update(m)) # {} => d \in Adopted(m, stack, args)
    BY <1>2, <1>6, <2>1 DEF WaitsOf, SamePlaces
  <2>8. \A d \in Adopted(m, stack, args) :
            /\ state[d] = "pending" => Places(lists'[<<d, "done">>], Update(m)) # {}
            /\ Places(lists'[<<d, "fail">>], Reject(m)) = Places(lists[<<d, "fail">>], Reject(m))
    <3>1. Given(m, stack, state, args)
      BY <1>1, <1>2, GivenAll
    <3>2. SamePlaces(lists, lists', m)
      BY <1>2, <1>6
    <3>3. QED BY <2>1, <3>1, <3>2 DEF WaitsOf, SamePlaces, Given
  <2>9. /\ lists'[<<m, "fail">>].memory = lists[<<m, "fail">>].memory
        /\ remaining[m] # 1 => lists'[<<m, "done">>].memory = lists[<<m, "done">>].memory
    <3>1. "done" \in Outcomes /\ "fail" \in Outcomes /\ "done" # "fail"
      BY DEF Outcomes
    <3>2. QED BY <1>2, <1>3, <3>1
  <2>10. Decided(m, lists) => Decided(m, lists')
    <3>1. \A on \in Outcomes : lists'[<<m, on>>].memory \in {1, lists[<<m, on>>].memory}
      BY <1>2, <1>3
    <3>2. QED BY <3>1 DEF Decided, NoData
  <2>11. m \in Deferreds /\ remaining[m] \in Int /\ (remaining[m] = 1 => Decided(m, lists'))
    BY <1>2, <1>3, <1>4
  <2>12. QED BY <2>1, <2>3, <2>6, <2>7, <2>8, <2>9, <2>10, <2>11, WaitsCount
<1>9. WaitsInv'
  <2>1. SUFFICES ASSUME NEW x \in Deferreds
                 PROVE  IF args[x] = <<>> THEN remaining'[x] = 0
                        ELSE WaitsOf(x, remaining'[x], lists', stack', state, args)
    BY <1>1 DEF WaitsInv
  <2>2. CASE x = m
    BY <1>2, <1>4, <1>8, <2>2
  <2>3. CASE x # m
    BY <1>1, <1>4, <1>7, <2>3 DEF WaitsInv
  <2>4. QED BY <2>2, <2>3
<1>10. QED BY <1>5, <1>9 DEF DInv

\* ... or the deferred d.
AdoptsDeferred(m, i, d) ==
    /\ lists' = [lists EXCEPT ![<<d, "done">>] = Added(@, Update(m)),
                              ![<<d, "fail">>] = Added(@, Reject(m))]
    /\ stack' = Back(m, i)
         \o (IF Replays(lists[<<d, "done">>]) THEN <<FireFrame(<<d, "done">>)>> ELSE <<>>)
         \o (IF Replays(lists[<<d, "fail">>]) THEN <<FireFrame(<<d, "fail">>)>> ELSE <<>>)
    /\ remaining' = remaining
    /\ UNCHANGED <<heard, emptied, ops, state, thens, timers, maxDepth, hooks, args>>
    /\ UNCHANGED historyVars

LEMMA AdoptsDeferredInv ==
  ASSUME DInv, On("when"), NEW m, m = Top.to, NEW i, i = Top.depth,
         NEW d, d = args[m][i], d # 0, AdoptsDeferred(m, i, d)
  PROVE  DInv'
<1> DEFINE s0 == Back(m, i)
           ls1 == [lists EXCEPT ![<<d, "done">>] = Added(@, Update(m))]
           fd == FireFrame(<<d, "done">>)
           ff == FireFrame(<<d, "fail">>)
           s1 == IF Replays(lists[<<d, "done">>]) THEN Append(s0, fd) ELSE s0
<1>1. /\ CoreInv /\ AnswersInv /\ WaitsInv /\ DeferredTypes /\ state' = state /\ args' = args
      /\ remaining' = remaining /\ DOMAIN lists = Lists
      /\ UNCHANGED <<heard, emptied, ops, state, thens, timers, maxDepth, hooks, args>>
      /\ UNCHANGED historyVars
  BY DEF DInv, CoreInv, AdoptsDeferred, Sound
<1>2. /\ m \in Deferreds /\ i \in 1 .. 2 /\ args[m] # <<>> /\ Quiet(lists)
      /\ \A on \in Outcomes : \A j \in DOMAIN lists[<<m, on>>].list :
            lists[<<m, on>>].list[j].kind = "prologue"
      /\ s0 \in Seq(StackFrame)
      /\ Sound(lists, s0, state, registered, args)
      /\ Frames(s0, hooks, maxDepth, source, args)
      /\ OnlyWhen(m, s0) /\ OnlyWhen(m, stack)
      /\ i \in Unadopted(m, stack)
      /\ Unadopted(m, s0) = Unadopted(m, stack) \ {i}
      /\ \A k \in DOMAIN s0 : s0[k].frame = "handler" =>
            k \in DOMAIN stack /\ s0[k] = stack[k]
  BY <1>1, WhenTop
<1>3. d \in Deferreds /\ d # m /\ Made(d) /\ IsGiven(d, m, args)
  BY <1>1, <1>2, GivenAll DEF IsGiven
<1>4. "done" \in Outcomes /\ "fail" \in Outcomes /\ "done" # "fail"
      /\ Outcomes = {"done", "fail"} /\ Outcomes \subseteq Ons
  BY OthersOf DEF Outcomes
<1>5. <<d, "done">> \in Lists /\ <<d, "fail">> \in Lists
  BY <1>3, <1>4 DEF Lists
<1>6. fd \in StackFrame /\ fd.frame = "fire" /\ ff \in StackFrame /\ ff.frame = "fire"
  BY <1>5, Frame1
<1>7. /\ Update(m) \in Callback /\ Update(m).kind = "update" /\ Update(m).n = m
      /\ Reject(m) \in Callback /\ Reject(m).kind = "reject" /\ Reject(m).n = m
  BY <1>2 DEF Update, Reject, Callback, Deferreds
<1>8. Sound(ls1, s1, state, registered, args) /\ AddEffect(d, "done", Update(m), lists, ls1, state)
  <2>1. AddStep(d, "done", Update(m), lists, s0, ls1, s1)
    BY DEF AddStep
  <2>2. MayAdd(d, "done", Update(m), s0)
    BY <1>2, <1>3, <1>4, <1>7 DEF MayAdd, OnlyWhen
  <2>3. Fits(d, "done", Update(m), registered, args)
    BY <1>3, <1>7 DEF Fits
  <2>4. "done" \in Ons /\ "done" # "progress" /\ Update(m).kind # "prologue"
    BY <1>4, <1>7, SMTT(20)
  <2> HIDE DEF s0, ls1, s1
  <2>5. QED BY <1>2, <1>3, <1>7, <2>1, <2>2, <2>3, <2>4, AddSound
<1>9. lists' = [ls1 EXCEPT ![<<d, "fail">>] = Added(@, Reject(m))]
      /\ ls1[<<d, "fail">>] = lists[<<d, "fail">>]
  BY <1>1, <1>4, <1>5, SMTT(20) DEF AdoptsDeferred
<1>10. stack' = IF Replays(ls1[<<d, "fail">>]) THEN Append(s1, ff) ELSE s1
  <2>1. s0 \o (IF Replays(lists[<<d, "done">>]) THEN <<fd>> ELSE <<>>) = s1
    <3>1. s0 \in Seq(StackFrame) /\ fd \in StackFrame
      BY <1>2, <1>6
    <3> HIDE DEF s0, fd
    <3>2. s0 \o <<fd>> = Append(s0, fd) /\ s0 \o <<>> = s0
      BY <3>1
    <3>3. QED BY <3>2
  <2>2. s1 \in Seq(StackFrame)
    BY <1>2, <1>6
  <2>3. stack' = s1 \o (IF Replays(lists[<<d, "fail">>]) THEN <<ff>> ELSE <<>>)
    BY <2>1, Zenon DEF AdoptsDeferred
  <2> HIDE DEF s1, ff
  <2>4. QED BY <1>6, <1>9, <2>2, <2>3
<1>11. /\ s1 \in Seq(StackFrame) /\ OnlyWhen(m, s1) /\ Unadopted(m, s1) = Unadopted(m, s0)
       /\ Frames(s1, hooks, maxDepth, source, args)
       /\ \A k \in DOMAIN s1 : s1[k].frame = "handler" => k \in DOMAIN s0 /\ s1[k] = s0[k]
  <2>1. /\ Frames(Append(s0, fd), hooks, maxDepth, source, args)
    BY <1>2, <1>5, FramesPushFire
  <2> HIDE DEF s0, fd
  <2>2. /\ Append(s0, fd) \in Seq(StackFrame)
        /\ \A k \in DOMAIN Append(s0, fd) :
              (k \in DOMAIN s0 /\ Append(s0, fd)[k] = s0[k]) \/ Append(s0, fd)[k] = fd
    BY <1>2, <1>6, AppendElements
  <2>3. Unadopted(m, Append(s0, fd)) = Unadopted(m, s0)
    BY <1>2, <1>6, SameWhenPush, UnadoptedSame
  <2>4. OnlyWhen(m, Append(s0, fd))
    BY <1>2, <1>6, <2>2 DEF OnlyWhen
  <2>5. QED BY <1>2, <1>6, <2>1, <2>2, <2>3, <2>4
<1> HIDE DEF s0, s1, ls1, fd
<1>12. /\ OnlyWhen(m, stack') /\ Unadopted(m, stack') = Unadopted(m, s1)
       /\ Frames(stack', hooks, maxDepth, source, args)
       /\ \A k \in DOMAIN stack' : stack'[k].frame = "handler" => k \in DOMAIN s1 /\ stack'[k] = s1[k]
  <2>1. /\ Frames(Append(s1, ff), hooks, maxDepth, source, args)
    BY <1>5, <1>11, FramesPushFire
  <2> HIDE DEF ff
  <2>2. /\ Append(s1, ff) \in Seq(StackFrame)
        /\ \A k \in DOMAIN Append(s1, ff) :
              (k \in DOMAIN s1 /\ Append(s1, ff)[k] = s1[k]) \/ Append(s1, ff)[k] = ff
    BY <1>6, <1>11, AppendElements
  <2>3. Unadopted(m, Append(s1, ff)) = Unadopted(m, s1)
    BY <1>6, <1>11, SameWhenPush, UnadoptedSame
  <2>4. OnlyWhen(m, Append(s1, ff))
    BY <1>6, <1>11, <2>2 DEF OnlyWhen
  <2>5. stack' = s1 \/ stack' = Append(s1, ff)
    BY <1>10
  <2>6. QED BY <1>6, <1>11, <2>1, <2>2, <2>3, <2>4, <2>5
<1>13. Quiet(ls1)
  <2>1. Phases(state, lists, s0) /\ Phases(state, ls1, s1)
    BY <1>2, <1>8 DEF Sound
  <2>2. \A x \in Deferreds, o \in Outcomes : ls1[<<x, o>>].memory = lists[<<x, o>>].memory
    BY <1>8 DEF AddEffect
  <2>3. QED BY <1>2, <2>1, <2>2, QuietKept
<1>14. Sound(lists', stack', state, registered, args)
       /\ AddEffect(d, "fail", Reject(m), ls1, lists', state)
  <2>1. AddStep(d, "fail", Reject(m), ls1, s1, lists', stack')
    BY <1>9, <1>10 DEF AddStep
  <2>2. MayAdd(d, "fail", Reject(m), s1)
    BY <1>3, <1>4, <1>7, <1>11 DEF MayAdd, OnlyWhen
  <2>3. Fits(d, "fail", Reject(m), registered, args)
    BY <1>3, <1>7 DEF Fits
  <2>4. "fail" \in Ons /\ "fail" # "progress" /\ Reject(m).kind # "prologue"
    BY <1>4, <1>7, SMTT(20)
  <2>5. QED BY <1>3, <1>7, <1>8, <1>13, <2>1, <2>2, <2>3, <2>4, AddSound
<1>15. AdoptEffect(d, m, lists, lists', state)
  <2>1. /\ Final(Other("done")) = "rejected" /\ Final(Other("fail")) = "resolved"
    BY DEF Final, Other
  <2>2. /\ \A e \in Deferreds, o \in Outcomes :
              /\ ~(e = d /\ o = "done") => ls1[<<e, o>>] = lists[<<e, o>>]
              /\ ls1[<<e, o>>].memory = lists[<<e, o>>].memory
        /\ IF state[d] = "rejected" THEN ls1[<<d, "done">>] = lists[<<d, "done">>]
           ELSE Gains(lists[<<d, "done">>], ls1[<<d, "done">>], Update(m))
    BY <1>4, <1>8, <2>1 DEF AddEffect
  <2>3. /\ \A e \in Deferreds, o \in Outcomes :
              /\ ~(e = d /\ o = "fail") => lists'[<<e, o>>] = ls1[<<e, o>>]
              /\ lists'[<<e, o>>].memory = ls1[<<e, o>>].memory
        /\ IF state[d] = "resolved" THEN lists'[<<d, "fail">>] = ls1[<<d, "fail">>]
           ELSE Gains(ls1[<<d, "fail">>], lists'[<<d, "fail">>], Reject(m))
    BY <1>4, <1>14, <2>1 DEF AddEffect
  <2>4. ls1[<<d, "fail">>] = lists[<<d, "fail">>] /\ lists'[<<d, "done">>] = ls1[<<d, "done">>]
    BY <1>3, <1>4, <2>2, <2>3
  <2>5. \A e \in Deferreds, o \in Outcomes : e # d => lists'[<<e, o>>] = lists[<<e, o>>]
    BY <2>2, <2>3
  <2>6. \A o \in Outcomes : lists'[<<d, o>>].memory = lists[<<d, o>>].memory
    BY <1>3, <2>2, <2>3
  <2>7. QED BY <2>2, <2>3, <2>4, <2>5, <2>6 DEF AdoptEffect
<1>16. \A x \in Deferreds, o \in Outcomes :
          /\ lists'[<<x, o>>].memory = lists[<<x, o>>].memory
          /\ SameCalls(lists[<<x, o>>], lists'[<<x, o>>])
  <2>1. SUFFICES ASSUME NEW x \in Deferreds, NEW o \in Outcomes
                 PROVE  /\ lists'[<<x, o>>].memory = lists[<<x, o>>].memory
                        /\ SameCalls(lists[<<x, o>>], lists'[<<x, o>>])
    OBVIOUS
  <2>2. lists'[<<x, o>>].memory = lists[<<x, o>>].memory
    BY <1>15 DEF AdoptEffect
  <2>3. \/ lists'[<<x, o>>] = lists[<<x, o>>]
        \/ Gains(lists[<<x, o>>], lists'[<<x, o>>], Update(m))
        \/ Gains(lists[<<x, o>>], lists'[<<x, o>>], Reject(m))
    BY <1>4, <1>15 DEF AdoptEffect
  <2>4. Update(m).kind # "call" /\ Reject(m).kind # "call"
    BY <1>7
  <2>5. SameCalls(lists[<<x, o>>], lists'[<<x, o>>])
    <3>1. CASE lists'[<<x, o>>] = lists[<<x, o>>]
      BY <3>1 DEF SameCalls
    <3>2. QED BY <2>3, <2>4, <3>1, CallsGain
  <2>6. QED BY <2>2, <2>5
<1>17. CoreInv' /\ AnswersInv' /\ OrderInv' /\ emptied' = {}
  <2>1. SameUnmade
    BY <1>3, <1>15 DEF SameUnmade, AdoptEffect
  <2>2. \A k \in DOMAIN stack' :
            stack'[k].frame = "handler" => \E j \in DOMAIN stack : stack'[k] = stack[j]
    BY <1>2, <1>11, <1>12
  <2>3. remaining' \in [Deferreds -> Int]
    BY <1>1 DEF DeferredTypes
  <2>4. QED BY <1>1, <1>12, <1>14, <1>16, <2>1, <2>2, <2>3, AdoptCore
<1>18. ASSUME NEW x \in Deferreds, x # m, args[x] # <<>>
       PROVE  WaitsOf(x, remaining[x], lists', stack', state, args)
  <2>1. Update(x) # Update(m) /\ Reject(x) # Reject(m)
    BY <1>18 DEF Update, Reject
  <2>2. SamePlaces(lists, lists', x)
    <3>1. SUFFICES ASSUME NEW e \in Deferreds
                   PROVE  /\ Places(lists'[<<e, "done">>], Update(x)) = Places(lists[<<e, "done">>], Update(x))
                          /\ Places(lists'[<<e, "fail">>], Reject(x)) = Places(lists[<<e, "fail">>], Reject(x))
      BY DEF SamePlaces
    <3>2. CASE e # d
      BY <1>4, <1>15, <3>2 DEF AdoptEffect
    <3>3. CASE e = d
      <4>1. \/ lists'[<<d, "done">>] = lists[<<d, "done">>]
            \/ Gains(lists[<<d, "done">>], lists'[<<d, "done">>], Update(m))
        BY <1>15 DEF AdoptEffect
      <4>2. \/ lists'[<<d, "fail">>] = lists[<<d, "fail">>]
            \/ Gains(lists[<<d, "fail">>], lists'[<<d, "fail">>], Reject(m))
        BY <1>15 DEF AdoptEffect
      <4>3. Places(lists'[<<d, "done">>], Update(x)) = Places(lists[<<d, "done">>], Update(x))
        BY <2>1, <4>1, PlacesGain
      <4>4. Places(lists'[<<d, "fail">>], Reject(x)) = Places(lists[<<d, "fail">>], Reject(x))
        BY <2>1, <4>2, PlacesGain
      <4>5. QED BY <3>3, <4>3, <4>4
    <3>4. QED BY <3>2, <3>3
  <2>3. \A on \in Outcomes : lists'[<<x, on>>].memory = lists[<<x, on>>].memory
    BY <1>16
  <2>4. OnlyWhen(m, stack) /\ OnlyWhen(m, stack') /\ state' = state /\ args' = args
    BY <1>1, <1>2, <1>12
  <2>5. QED BY <1>2, <1>18, <2>2, <2>3, <2>4, AdoptOthers
<1>19. WaitsOf(m, remaining[m], lists', stack', state, args)
  <2>1. WaitsOf(m, remaining[m], lists, stack, state, args) /\ Given(m, stack, state, args)
    BY <1>1, <1>2, GivenAll DEF WaitsInv
  <2>2. Unadopted(m, stack') = Unadopted(m, stack) \ {i} /\ i \in Unadopted(m, stack)
    BY <1>2, <1>11, <1>12
  <2>3. remaining[m] \in Int /\ m \in Deferreds /\ i \in 1 .. 2
    BY <1>1, <1>2 DEF DeferredTypes
  <2>4. QED BY <1>3, <1>15, <2>1, <2>2, <2>3, WaitsAdopt
<1>20. WaitsInv'
  BY <1>1, <1>18, <1>19 DEF WaitsInv
<1>21. QED BY <1>17, <1>20, SMTT(20) DEF DInv

LEMMA WhenAdoptsInv ==
  ASSUME DInv, WhenAdopts
  PROVE  DInv'
<1> DEFINE m == Top.to
           i == Top.depth
           d == args[m][i]
<1>1. On("when")
  BY DEF WhenAdopts
<1>2. CASE d = 0
  <2>1. AdoptsValue(m, i)
    BY <1>2 DEF WhenAdopts, AdoptsValue, Back
  <2> HIDE DEF m, i
  <2>2. QED BY <1>1, <1>2, <2>1, AdoptsValueInv DEF m, i
<1>3. CASE d # 0
  <2>1. AdoptsDeferred(m, i, d)
    BY <1>3, Zenon DEF WhenAdopts, AdoptsDeferred, Back, Update, Reject
  <2> HIDE DEF m, i, d
  <2>2. QED BY <1>1, <1>3, <2>1, AdoptsDeferredInv DEF m, i, d
<1>4. QED BY <1>2, <1>3

-----------------------------------------------------------------------------
(* Deferreds: the invariant is inductive.                                  *)

LEMMA NoFreeLists ==
  ASSUME CoreInv
  PROVE  DOMAIN lists = Lists /\ FreeLists \cap DOMAIN lists = {}
BY DeferredAssumption DEF CoreInv, Sound, Lists, Deferreds, Ons

LEMMA DInvNext ==
  ASSUME DInv, Next
  PROVE  DInv'
<1>1. DOMAIN lists = Lists /\ FreeLists \cap DOMAIN lists = {}
  BY NoFreeLists DEF DInv
<1>2. CASE Application
  <2>1. CASE \E d \in Deferreds, on \in Ons : Answer(d, on) \/ Register(d, on)
    BY <2>1, AnswerInv, RegisterInv
  <2>2. CASE \E d, nd \in Deferreds : CallThen(d, nd)
    BY <2>2, CallThenInv
  <2>3. CASE \E m \in Deferreds : CallWhen(m)
    BY <2>3, CallWhenInv
  <2>4. CASE \E e \in Deferreds : HandlerReturnsPromise(e)
    BY <2>4, HandlerReturnsPromiseInv
  <2>5. CASE HandlerReturnsForeign
    BY <2>5, HandlerReturnsForeignInv
  <2>6. CASE \E h \in hooks : HookIgnored(h) \/ HookSettles(h) \/ HookFollows(h)
    BY <2>6, HookIgnoredInv, HookSettlesInv, HookFollowsInv
  <2>7. CASE Throws
    BY <2>7, ThrowsInv
  <2>8. QED BY <1>1, <1>2, <2>1, <2>2, <2>3, <2>4, <2>5, <2>6, <2>7 DEF Application
<1>3. CASE Engine
  <2>1. CASE \E l \in DOMAIN lists : RunCallback(l) /\ UNCHANGED <<deferredVars, historyVars>>
    <3>1. PICK l \in DOMAIN lists : RunCallback(l) /\ UNCHANGED <<deferredVars, historyVars>>
      BY <2>1
    <3>2. PICK d \in Deferreds, on \in Ons : l = <<d, on>>
      BY <1>1 DEF Lists
    <3>3. RunCallback(<<d, on>>)
      BY <3>1, <3>2
    <3>4. QED BY <3>1, <3>3, RunCallbackInv
  <2>2. CASE \E l \in DOMAIN lists : RoundEnds(l) /\ UNCHANGED <<deferredVars, historyVars>>
    <3>1. PICK l \in DOMAIN lists : RoundEnds(l) /\ UNCHANGED <<deferredVars, historyVars>>
      BY <2>2
    <3>2. PICK d \in Deferreds, on \in Ons : l = <<d, on>>
      BY <1>1 DEF Lists
    <3>3. RoundEnds(<<d, on>>)
      BY <3>1, <3>2
    <3>4. QED BY <3>1, <3>3, RoundEndsInv
  <2>3. CASE BodyReturns /\ UNCHANGED <<deferredVars, historyVars>>
    BY <2>3, BodyReturnsInv
  <2>4. CASE \E d \in Deferreds, on \in Ons : RunPrologue(d, on)
    BY <2>4, RunPrologueInv
  <2>5. CASE \E d \in Deferreds : RunUpdate(d) \/ RunReject(d)
    BY <2>5, RunUpdateInv, RunRejectInv
  <2>6. CASE HandlerReturns \/ Returns \/ WhenAdopts \/ FireTimer
    BY <2>6, HandlerReturnsInv, ReturnsInv, WhenAdoptsInv, FireTimerInv
  <2>7. QED BY <1>3, <2>1, <2>2, <2>3, <2>4, <2>5, <2>6 DEF Engine
<1>4. QED BY <1>2, <1>3 DEF Next

LEMMA DInvStutters ==
  ASSUME DInv, UNCHANGED allVars
  PROVE  DInv'
<1>1. /\ lists' = lists /\ stack' = stack /\ heard' = heard /\ emptied' = emptied /\ ops' = ops
      /\ UNCHANGED <<deferredVars, historyVars>>
  BY DEF allVars, callbackVars
<1>2. CoreInv /\ AnswersInv /\ Steady /\ NewAnswers /\ SameWhen(stack, stack')
  BY <1>1, SteadyNow DEF DInv, CoreInv, DeferredTypes, historyVars, NewAnswers, SameWhen
<1>3. /\ registered' = registered /\ remaining' = remaining /\ timers' = timers
      /\ answers' = answers
  BY <1>1 DEF deferredVars, historyVars
<1>4. /\ Sound(lists, stack', state, registered, args)
      /\ Frames(stack', hooks, maxDepth, source, args)
  BY <1>1, <1>2 DEF CoreInv
<1>5. /\ \A k \in DOMAIN timers' : timers'[k].how # "progress" => Heedable(timers'[k].v, answers)
      /\ \A k \in DOMAIN stack' : stack'[k].frame = "handler" => Heedable(stack'[k].v, answers)
  BY <1>1, <1>2, <1>3 DEF AnswersInv
<1>6. QED BY <1>1, <1>2, <1>3, <1>4, <1>5, StackKept

\* The initial states, of deferreds and of lists of the application.
InitDeferreds ==
    /\ lists = [l \in Deferreds \X Ons |-> ListsOf(l[1])[l]]
    /\ \E r \in 1 .. Roots :
          state = [d \in Deferreds |-> IF d <= r THEN "pending" ELSE "unused"]

InitFree ==
    \E o \in [FreeLists -> Options] :
        /\ lists = [l \in FreeLists |-> NewList(o[l], <<>>)]
        /\ state = [d \in Deferreds |-> "unused"]

InitRest ==
    /\ stack = <<>> /\ heard = <<>> /\ emptied = {} /\ ops = 0
    /\ thens = [d \in Deferreds |-> <<>>] /\ timers = <<>>
    /\ maxDepth = [d \in Deferreds |-> 0] /\ hooks = {}
    /\ args = [d \in Deferreds |-> <<>>] /\ remaining = [d \in Deferreds |-> 0]
    /\ registered = <<>> /\ source = [d \in Deferreds |-> 0] /\ answers = <<>>

LEMMA InitCases == Init <=> (InitFree \/ InitDeferreds) /\ InitRest
BY DEF Init, InitFree, InitDeferreds, InitRest

\* A list that was made just now.
LEMMA NewFresh ==
  ASSUME NEW d \in Deferreds, NEW c, c = NewList({"once", "memory"}, <<Prologue(d)>>)
  PROVE  OnceList(c) /\ FreshList(d, c) /\ Ahead(c) = {} /\ c.memory = NoData
<1>1. Prologue(d) \in Callback /\ Prologue(d).kind = "prologue"
  BY DEF Prologue, Callback, Deferreds
<1> DEFINE p == Prologue(d)
<1> HIDE DEF p
<1>2. <<p>> \in Seq(Callback) /\ Len(<<p>>) = 1 /\ DOMAIN <<p>> = {1} /\ <<p>>[1] = p
  BY <1>1 DEF p
<1>3. /\ c.options = {"once", "memory"} /\ c.list = <<p>> /\ ~c.spent
      /\ c.queue = <<>> /\ c.firingIndex = 0 /\ ~c.firing /\ ~c.locked
      /\ c.memory = NoData
      /\ c.spent \in BOOLEAN /\ c.firing \in BOOLEAN /\ c.locked \in BOOLEAN
  BY DEF NewList, p
<1>4. c \in CallbackList
  <2>1. c = [options |-> c.options, list |-> c.list, spent |-> c.spent,
             queue |-> c.queue, firingIndex |-> c.firingIndex,
             firing |-> c.firing, locked |-> c.locked, memory |-> c.memory]
    BY DEF NewList
  <2>2. c.options \in SUBSET Flags
    BY <1>3 DEF Flags
  <2>3. c.list \in Seq(Callback) /\ c.queue \in Seq(Datum)
    BY <1>2, <1>3, NoCallbacks
  <2>4. /\ c.spent \in BOOLEAN /\ c.firingIndex \in Nat /\ c.firing \in BOOLEAN
        /\ c.locked \in BOOLEAN /\ c.memory \in Datum \cup {NoData}
    BY <1>3
  <2>5. QED BY <2>1, <2>2, <2>3, <2>4, CallbackListFields
<1>5. FreshList(d, c)
  <2>1. Starts(d, c)
    <3>1. c.list[1] = Prologue(d) /\ Len(c.list) >= 1 /\ c.firingIndex = 0
      BY <1>2, <1>3 DEF p
    <3>2. DOMAIN c.list = {1}
      BY <1>2, <1>3
    <3>3. \A k \in DOMAIN c.list : ~(k > 1)
      BY <3>2
    <3>4. QED BY <3>1, <3>3 DEF Starts
  <2>2. Still(c)
    BY <1>3 DEF Still
  <2>3. QED BY <1>3, <2>1, <2>2 DEF FreshList
<1>6. Ahead(c) = {}
  BY <1>1, <1>2, <1>3 DEF Ahead, p
<1>7. QED BY <1>3, <1>4, <1>5, <1>6 DEF OnceList

LEMMA NewProgress ==
  ASSUME NEW d \in Deferreds, NEW c, c = NewList({"memory"}, <<Prologue(d)>>)
  PROVE  ProgressList(c) /\ \A k \in DOMAIN c.list : c.list[k] = Prologue(d)
<1>1. Prologue(d) \in Callback
  BY DEF Prologue, Callback, Deferreds
<1> DEFINE p == Prologue(d)
<1> HIDE DEF p
<1>2. <<p>> \in Seq(Callback) /\ DOMAIN <<p>> = {1} /\ <<p>>[1] = p
  BY <1>1 DEF p
<1>3. /\ c.options = {"memory"} /\ c.list = <<p>> /\ ~c.spent
      /\ c.queue = <<>> /\ c.firingIndex = 0 /\ ~c.firing /\ ~c.locked
      /\ c.memory = NoData
      /\ c.spent \in BOOLEAN /\ c.firing \in BOOLEAN /\ c.locked \in BOOLEAN
  BY DEF NewList, p
<1>4. c \in CallbackList
  <2>1. c = [options |-> c.options, list |-> c.list, spent |-> c.spent,
             queue |-> c.queue, firingIndex |-> c.firingIndex,
             firing |-> c.firing, locked |-> c.locked, memory |-> c.memory]
    BY DEF NewList
  <2>2. c.options \in SUBSET Flags
    BY <1>3 DEF Flags
  <2>3. c.list \in Seq(Callback) /\ c.queue \in Seq(Datum)
    BY <1>2, <1>3, NoCallbacks
  <2>4. /\ c.spent \in BOOLEAN /\ c.firingIndex \in Nat /\ c.firing \in BOOLEAN
        /\ c.locked \in BOOLEAN /\ c.memory \in Datum \cup {NoData}
    BY <1>3
  <2>5. QED BY <2>1, <2>2, <2>3, <2>4, CallbackListFields
<1>5. c.queue \in Seq(Data)
  <2>1. <<>> \in Seq(Data) /\ c.queue = <<>>
    BY <1>3
  <2>2. QED BY <2>1, Zenon
<1>6. QED BY <1>2, <1>3, <1>4, <1>5 DEF ProgressList, Still, p

LEMMA DInvInit ==
  ASSUME InitDeferreds, InitRest
  PROVE  DInv
<1>1. PICK r \in 1 .. Roots :
         state = [d \in Deferreds |-> IF d <= r THEN "pending" ELSE "unused"]
  BY DEF InitDeferreds
<1>2. /\ DOMAIN lists = Lists
      /\ \A d \in Deferreds : lists[<<d, "progress">>] = NewList({"memory"}, <<Prologue(d)>>)
      /\ \A d \in Deferreds, on \in Outcomes :
            lists[<<d, on>>] = NewList({"once", "memory"}, <<Prologue(d)>>)
  <2>1. lists = [l \in Deferreds \X Ons |-> ListsOf(l[1])[l]]
    BY DEF InitDeferreds
  <2>2. ASSUME NEW d \in Deferreds, NEW on \in Ons
        PROVE  lists[<<d, on>>] =
                  NewList(IF on = "progress" THEN {"memory"} ELSE {"once", "memory"},
                          <<Prologue(d)>>)
    <3>1. <<d, on>> \in Deferreds \X Ons /\ <<d, on>>[1] = d /\ <<d, on>>[2] = on
      OBVIOUS
    <3>2. lists[<<d, on>>] = ListsOf(d)[<<d, on>>]
      BY <2>1, <3>1
    <3>3. <<d, on>> \in {d} \X Ons
      OBVIOUS
    <3>4. QED BY <3>1, <3>2, <3>3 DEF ListsOf
  <2>3. QED BY <2>1, <2>2, OthersOf DEF Lists
<1>3. \A d \in Deferreds, on \in Outcomes :
         /\ OnceList(lists[<<d, on>>]) /\ FreshList(d, lists[<<d, on>>])
         /\ Ahead(lists[<<d, on>>]) = {} /\ lists[<<d, on>>].memory = NoData
  BY <1>2, NewFresh
<1>4. \A d \in Deferreds : state[d] \in {"unused", "pending"}
  BY <1>1
<1>5. /\ stack = <<>> /\ heard = <<>> /\ emptied = {} /\ ops = 0
      /\ thens = [d \in Deferreds |-> <<>>] /\ timers = <<>>
      /\ maxDepth = [d \in Deferreds |-> 0] /\ hooks = {}
      /\ args = [d \in Deferreds |-> <<>>] /\ remaining = [d \in Deferreds |-> 0]
      /\ registered = <<>> /\ source = [d \in Deferreds |-> 0] /\ answers = <<>>
  BY DEF InitRest
<1>6. DeferredTypes
  <2>1. state \in [Deferreds -> {"unused", "pending"} \cup Settled]
    BY <1>1
  <2>2. ops \in 0 .. MaxOps /\ 0 \in 0 .. MaxDeferred /\ MaxAnswers \in Nat
    BY <1>5, CallbacksAssumption, DeferredAssumption
  <2>3. /\ args \in [Deferreds -> Seq(0 .. MaxDeferred)]
        /\ thens \in [Deferreds -> Seq(Then)]
    BY <1>5
  <2>4. /\ timers \in Seq(Timer) /\ registered \in Seq([of : Deferreds, on : Ons])
        /\ answers \in Seq([hook : [to : Deferreds, depth : Nat \ {0}], v : Nat])
        /\ heard \in Seq([of : Lists, n : Nat, v : Data]) /\ Len(answers) = 0
    BY <1>5
  <2>5. /\ maxDepth \in [Deferreds -> Nat] /\ remaining \in [Deferreds -> Int]
        /\ source \in [Deferreds -> 0 .. MaxDeferred] /\ hooks = {}
    BY <1>5, <2>2
  <2>6. QED BY <2>1, <2>2, <2>3, <2>4, <2>5 DEF DeferredTypes
<1>7. Sound(lists, stack, state, registered, args)
  <2>1. ProgressLists(lists, registered)
    BY <1>2, NewProgress DEF ProgressLists
  <2>2. Phases(state, lists, stack)
    BY <1>3, <1>4 DEF Phases, Phase, FreshPhase
  <2>3. AllFit(lists, registered, args)
    BY <1>3 DEF AllFit
  <2>4. OneLoop(lists, stack) /\ WhenAlone(lists, stack) /\ stack \in Seq(StackFrame)
    BY <1>5 DEF OneLoop, WhenAlone
  <2>5. QED BY <1>2, <1>3, <2>1, <2>2, <2>3, <2>4 DEF Sound, OnceLists
<1>8. CoreInv
  <2>1. Frames(stack, hooks, maxDepth, source, args)
    BY <1>5 DEF Frames
  <2>2. Sources
    BY <1>3, <1>5 DEF Sources
  <2>3. Promised
    BY <1>5 DEF Promised
  <2>4. QED BY <1>6, <1>7, <2>1, <2>2, <2>3 DEF CoreInv
<1>9. AnswersInv
  <2>1. Heedable(NoData, answers)
    BY <1>5, CallbacksAssumption DEF Heedable, NoData
  <2>2. QED BY <1>3, <1>5, <2>1 DEF AnswersInv
<1>10. OrderInv
  <2>1. HeardRegistered
    BY <1>5 DEF HeardRegistered
  <2>2. \A d \in Deferreds, on \in Outcomes :
           CallsOf(d, on) = {} /\ RegisteredFor(d, on) = {} /\ AheadCalls(lists[<<d, on>>]) = {}
    <3>1. \A d \in Deferreds, on \in Outcomes : AheadCalls(lists[<<d, on>>]) = {}
      BY <1>3 DEF AheadCalls
    <3>2. DOMAIN heard = {} /\ DOMAIN registered = {}
      BY <1>5
    <3>3. \A d, on : CallsOf(d, on) = {} /\ RegisteredFor(d, on) = {}
      BY <3>2 DEF CallsOf, RegisteredFor
    <3>4. QED BY <3>1, <3>3
  <2>3. QED BY <2>1, <2>2 DEF OrderInv, OrderOf, Ordered
<1>11. WaitsInv
  BY <1>5 DEF WaitsInv
<1>12. QED BY <1>5, <1>8, <1>9, <1>10, <1>11 DEF DInv

-----------------------------------------------------------------------------
(* The operations on a list of the application.                            *)

\* A call of the application is put at the end, and is called at once if the
\* list remembers something and is not firing.
LEMMA FreeAdded ==
  ASSUME NEW l, NEW c \in CallbackList, NEW hd, NEW em, FreeList(l, c, hd, em),
         NEW n \in Nat
  PROVE  /\ Added(c, Call(n)) \in CallbackList /\ FreeList(l, Added(c, Call(n)), hd, em)
         /\ Replays(c) => ~c.firing /\ Added(c, Call(n)).firing
         /\ c.firing => Added(c, Call(n)).firing
<1> DEFINE f == Call(n)
<1>1. /\ f \in Callback /\ f.kind = "call"
  BY DEF Call, Callback
<1>2. /\ c.list \in Seq(Callback) /\ c.memory \in Datum \cup {NoData} /\ c.queue \in Seq(Datum)
      /\ c.firing \in BOOLEAN /\ c.spent \in BOOLEAN /\ c.firingIndex \in Nat
      /\ c.locked \in BOOLEAN
  BY DEF CallbackList
<1> HIDE DEF f
<1>3. CASE c.spent
  BY <1>3 DEF Added, Replays
<1>4. CASE ~c.spent
  <2>1. PICK x : /\ x = IF "unique" \in c.options /\ f \in ToSet(c.list)
                        THEN c.list ELSE Append(c.list, f)
    OBVIOUS
  <2>2. /\ x \in Seq(Callback) /\ Len(x) \in Nat /\ Len(c.list) <= Len(x)
        /\ \A k \in DOMAIN x : (k \in DOMAIN c.list /\ x[k] = c.list[k]) \/ x[k] = f
        /\ \A k \in DOMAIN x : k <= Len(c.list) => k \in DOMAIN c.list /\ x[k] = c.list[k]
    BY <1>1, <1>2, <2>1
  <2>3. \A k \in DOMAIN x : x[k].kind = "call"
    BY <1>1, <2>2 DEF FreeList
  <2> DEFINE with == [c EXCEPT !.list = x]
  <2>4. /\ with \in CallbackList /\ with.options = c.options /\ with.list = x
        /\ with.queue = c.queue /\ with.firing = c.firing /\ with.memory = c.memory
        /\ with.firingIndex = c.firingIndex /\ with.spent = c.spent
    BY <2>2 DEF CallbackList
  <2>5. CASE ~Replays(c)
    <3>1. Added(c, f) = with
      BY <1>4, <2>1, <2>5 DEF Added
    <3> HIDE DEF with
    <3>2. l \notin em => Told(l, with, hd)
      <4>1. SUFFICES ASSUME l \notin em, "memory" \in c.options, c.memory # NoData,
                            NEW k \in DOMAIN x, c.firing => k <= c.firingIndex
                     PROVE  [of |-> l, n |-> x[k].n, v |-> c.memory] \in ToSet(hd)
        BY <2>4 DEF Told
      <4>2. c.firing /\ c.firingIndex <= Len(c.list)
        BY <1>4, <2>5, <4>1 DEF Replays, FreeList
      <4>3. k \in DOMAIN c.list /\ x[k] = c.list[k]
        BY <1>2, <2>2, <4>1, <4>2
      <4>4. QED BY <4>1, <4>2, <4>3 DEF FreeList, Told
    <3>3. FreeList(l, with, hd, em)
      BY <1>2, <1>4, <2>2, <2>3, <2>4, <3>2 DEF FreeList
    <3>4. QED BY <2>4, <2>5, <3>1, <3>3 DEF f
  <2>6. CASE Replays(c)
    <3>1. ~c.firing /\ c.queue = <<>> /\ c.memory \in Datum /\ c.memory # NoData
      BY <1>2, <2>6 DEF Replays, FreeList
    <3>2. PICK q, z, n0, b : /\ q = Append(c.queue, c.memory) /\ Head(q) = c.memory /\ Tail(q) = z
                         /\ z = <<>> /\ z \in Seq(Datum)
                         /\ n0 = Len(c.list) /\ n0 \in Nat
                         /\ b \in BOOLEAN /\ b = (c.locked \/ "once" \in c.options)
      <4>1. Append(c.queue, c.memory) = <<c.memory>> /\ Head(<<c.memory>>) = c.memory
            /\ Tail(<<c.memory>>) = <<>>
        BY <3>1
      <4>2. <<>> \in Seq(Datum) /\ Len(c.list) \in Nat
        BY <1>2
      <4>3. (c.locked \/ "once" \in c.options) \in BOOLEAN
        OBVIOUS
      <4>4. QED BY <4>1, <4>2, <4>3, Zenon
    <3>3. Added(c, f) = Entered([with EXCEPT !.firingIndex = n0, !.queue = q])
      BY <1>4, <2>1, <2>6, <3>2 DEF Added
    <3>4. Added(c, f) = [c EXCEPT !.list = x, !.firingIndex = n0, !.firing = TRUE, !.queue = z,
                                  !.locked = b]
      BY <1>2, <3>2, <3>3 DEF Entered, CallbackList
    <3> DEFINE e == [c EXCEPT !.list = x, !.firingIndex = n0, !.firing = TRUE, !.queue = z,
                              !.locked = b]
    <3>5. /\ e \in CallbackList /\ e.options = c.options /\ e.list = x /\ e.queue = z
          /\ e.firing /\ e.memory = c.memory /\ e.firingIndex = n0 /\ e.spent = c.spent
      BY <2>2, <3>2 DEF CallbackList
    <3> HIDE DEF e
    <3>6. l \notin em => Told(l, e, hd)
      <4>1. SUFFICES ASSUME l \notin em, "memory" \in c.options, NEW k \in DOMAIN x, k <= n0
                     PROVE  [of |-> l, n |-> x[k].n, v |-> c.memory] \in ToSet(hd)
        BY <3>5 DEF Told
      <4>2. k \in DOMAIN c.list /\ x[k] = c.list[k]
        BY <2>2, <3>2, <4>1
      <4>3. QED BY <3>1, <4>1, <4>2 DEF FreeList, Told
    <3>7. FreeList(l, e, hd, em)
      BY <1>4, <2>2, <2>3, <3>2, <3>5, <3>6 DEF FreeList
    <3>8. QED BY <3>1, <3>4, <3>5, <3>7 DEF e, f
  <2>7. QED BY <2>5, <2>6
<1>5. QED BY <1>2, <1>3, <1>4

\* fireWith calls from the first callback on, or queues what it was given.
LEMMA FreeFired ==
  ASSUME NEW l, NEW c \in CallbackList, NEW hd, NEW em, FreeList(l, c, hd, em),
         NEW v \in Datum
  PROVE  /\ FiredWith(c, v) \in CallbackList /\ FreeList(l, FiredWith(c, v), hd, em)
         /\ StartsFiring(c) => ~c.firing /\ FiredWith(c, v).firing
         /\ c.firing => FiredWith(c, v).firing
<1>1. /\ c.list \in Seq(Callback) /\ c.memory \in Datum \cup {NoData} /\ c.queue \in Seq(Datum)
      /\ c.firing \in BOOLEAN /\ c.spent \in BOOLEAN /\ c.firingIndex \in Nat
      /\ c.locked \in BOOLEAN
  BY DEF CallbackList
<1>2. CASE c.locked
  BY <1>2, FireLocked
<1>3. CASE ~c.locked /\ c.firing
  <2>0. Append(c.queue, v) \in Seq(Datum)
    BY <1>1, AppendElements
  <2>1. PICK q : q = Append(c.queue, v) /\ q \in Seq(Datum)
    BY <2>0
  <2>2. FiredWith(c, v) = [c EXCEPT !.queue = q]
    BY <1>3, <2>1 DEF FiredWith
  <2> DEFINE e == [c EXCEPT !.queue = q]
  <2>3. /\ e \in CallbackList /\ e.options = c.options /\ e.list = c.list /\ e.queue = q
        /\ e.firing = c.firing /\ e.memory = c.memory /\ e.firingIndex = c.firingIndex
        /\ e.spent = c.spent /\ e.locked = c.locked
    BY <2>1 DEF CallbackList
  <2> HIDE DEF e
  <2>4. Told(l, c, hd) => Told(l, e, hd)
    BY <2>3 DEF Told
  <2>5. FreeList(l, e, hd, em)
    BY <1>3, <2>3, <2>4 DEF FreeList
  <2>6. QED BY <1>3, <2>2, <2>3, <2>5 DEF e, StartsFiring
<1>4. CASE ~c.locked /\ ~c.firing
  <2>1. c.queue = <<>> /\ c.firingIndex = 0 /\ ~c.spent
    BY <1>4 DEF FreeList
  <2>2. PICK q, z, b : /\ q = Append(c.queue, v) /\ Head(q) = v /\ Tail(q) = z /\ z = <<>>
                       /\ z \in Seq(Datum)
                       /\ b \in BOOLEAN /\ b = (c.locked \/ "once" \in c.options)
    <3>1. Append(c.queue, v) = <<v>> /\ Head(<<v>>) = v /\ Tail(<<v>>) = <<>>
      BY <2>1
    <3>2. <<>> \in Seq(Datum) /\ (c.locked \/ "once" \in c.options) \in BOOLEAN
      OBVIOUS
    <3>3. QED BY <3>1, <3>2, Zenon
  <2>3. FiredWith(c, v) = Entered([c EXCEPT !.queue = q])
    BY <1>4, <2>2 DEF FiredWith
  <2>4. FiredWith(c, v) = [c EXCEPT !.firing = TRUE, !.memory = v, !.queue = z, !.locked = b]
    BY <1>1, <2>2, <2>3 DEF Entered, CallbackList
  <2> DEFINE e == [c EXCEPT !.firing = TRUE, !.memory = v, !.queue = z, !.locked = b]
  <2>5. /\ e \in CallbackList /\ e.options = c.options /\ e.list = c.list /\ e.queue = z
        /\ e.firing /\ e.memory = v /\ e.firingIndex = 0 /\ e.spent = c.spent
    BY <2>1, <2>2 DEF CallbackList
  <2> HIDE DEF e
  <2>6. Told(l, e, hd)
    BY <1>1, <2>5 DEF Told
  <2>7. FreeList(l, e, hd, em)
    BY <1>1, <2>1, <2>5, <2>6 DEF FreeList
  <2>8. QED BY <1>4, <2>4, <2>5, <2>7 DEF e
<1>5. QED BY <1>1, <1>2, <1>3, <1>4

LEMMA FreeDisabled ==
  ASSUME NEW l, NEW c \in CallbackList, NEW hd, NEW em, FreeList(l, c, hd, em)
  PROVE  /\ Disabled(c) \in CallbackList /\ FreeList(l, Disabled(c), hd, em)
         /\ Disabled(c).firing = c.firing
<1> DEFINE e == Disabled(c)
<1>1. PICK x, z : x = <<>> /\ x \in Seq(Callback) /\ z = <<>> /\ z \in Seq(Datum)
  BY NoCallbacks, Zenon
<1>2. e = [c EXCEPT !.locked = TRUE, !.queue = z, !.list = x, !.spent = TRUE, !.memory = NoData]
  BY <1>1 DEF Disabled
<1>3. /\ e \in CallbackList /\ e.options = c.options /\ e.list = x /\ e.queue = z
      /\ e.firing = c.firing /\ e.memory = NoData /\ e.firingIndex = c.firingIndex
      /\ e.spent /\ e.locked
  <2> HIDE DEF e
  <2> QED BY <1>1, <1>2 DEF CallbackList
<1> HIDE DEF e
<1>4. Told(l, e, hd)
  BY <1>3 DEF Told
<1>5. DOMAIN x = {}
  BY <1>1
<1>6. FreeList(l, e, hd, em)
  BY <1>1, <1>3, <1>4, <1>5 DEF FreeList
<1>7. QED BY <1>3, <1>6 DEF e

LEMMA FreeLocked ==
  ASSUME NEW l, NEW c \in CallbackList, NEW hd, NEW em, FreeList(l, c, hd, em)
  PROVE  /\ Locked(c) \in CallbackList /\ FreeList(l, Locked(c), hd, em)
         /\ Locked(c).firing = c.firing
<1>1. CASE c.memory = NoData /\ ~c.firing
  BY <1>1, FreeDisabled DEF Locked
<1>2. CASE ~(c.memory = NoData /\ ~c.firing)
  <2>1. PICK z : z = <<>> /\ z \in Seq(Datum)
    BY NoCallbacks, Zenon
  <2> DEFINE e == [c EXCEPT !.locked = TRUE, !.queue = z]
  <2>2. Locked(c) = e
    BY <1>2, <2>1 DEF Locked
  <2>3. /\ e \in CallbackList /\ e.options = c.options /\ e.list = c.list /\ e.queue = z
        /\ e.firing = c.firing /\ e.memory = c.memory /\ e.firingIndex = c.firingIndex
        /\ e.spent = c.spent /\ e.locked
    BY <2>1 DEF CallbackList
  <2> HIDE DEF e
  <2>4. Told(l, c, hd) => Told(l, e, hd)
    BY <2>3 DEF Told
  <2>5. FreeList(l, e, hd, em)
    BY <2>1, <2>3, <2>4 DEF FreeList
  <2>6. QED BY <2>2, <2>3, <2>5
<1>3. QED BY <1>1, <1>2

\* remove: the firing index moves back as far as what was reached shrinks.
LEMMA FreeRemoved ==
  ASSUME NEW l, NEW c \in CallbackList, NEW hd, NEW em, FreeList(l, c, hd, em), NEW f
  PROVE  /\ Removed(c, f) \in CallbackList /\ FreeList(l, Removed(c, f), hd, em)
         /\ Removed(c, f).firing = c.firing
<1> DEFINE S == ToSet(c.list) \ {f}
           reached == {k \in DOMAIN c.list : k <= c.firingIndex /\ c.list[k] = f}
<1>1. /\ c.list \in Seq(Callback) /\ c.firing \in BOOLEAN /\ c.spent \in BOOLEAN
      /\ c.firingIndex \in Nat /\ Len(c.list) \in Nat /\ DOMAIN c.list = 1 .. Len(c.list)
  BY DEF CallbackList
<1>2. /\ IsFiniteSet(reached) /\ Cardinality(reached) \in Nat
      /\ Cardinality(reached) <= c.firingIndex
      /\ c.firingIndex = 0 => Cardinality(reached) = 0
  <2>1. reached \subseteq 1 .. c.firingIndex
    BY <1>1
  <2>2. IsFiniteSet(1 .. c.firingIndex) /\ Cardinality(1 .. c.firingIndex) = c.firingIndex
    <3>1. 1 \in Int /\ c.firingIndex \in Int
      BY <1>1
    <3>2. IsFiniteSet(1 .. c.firingIndex)
      BY <3>1, FS_Interval
    <3>3. Cardinality(1 .. c.firingIndex) =
             IF 1 > c.firingIndex THEN 0 ELSE c.firingIndex - 1 + 1
      BY <3>1, FS_Interval
    <3>4. QED BY <1>1, <3>2, <3>3
  <2> HIDE DEF reached
  <2>3. /\ IsFiniteSet(reached) /\ Cardinality(reached) <= c.firingIndex
    BY <2>1, <2>2, FS_Subset
  <2>4. Cardinality(reached) \in Nat
    BY <2>3, FS_CardinalityType
  <2>5. QED BY <1>1, <2>3, <2>4
<1>3. \A j \in 1 .. Len(c.list) : c.list[j] \in S <=> c.list[j] # f
  <2>1. \A j \in 1 .. Len(c.list) : c.list[j] \in ToSet(c.list)
    BY <1>1 DEF ToSet
  <2>2. QED BY <2>1
<1> HIDE DEF S
<1>4. PICK x : x = Filter(c.list, S)
  OBVIOUS
<1>5. /\ x \in Seq(Callback) /\ Len(x) <= Len(c.list) /\ Len(x) \in Nat /\ DOMAIN x = 1 .. Len(x)
      /\ \A i \in 1 .. Len(x) : \E j \in 1 .. Len(c.list) : c.list[j] \in S /\ x[i] = c.list[j]
  <2>1. /\ x \in Seq(Callback) /\ Len(x) <= Len(c.list)
        /\ \A i \in 1 .. Len(x) : \E j \in 1 .. Len(c.list) : c.list[j] \in S /\ x[i] = c.list[j]
    BY <1>1, <1>4, FilterElements
  <2>2. Len(x) \in Nat /\ DOMAIN x = 1 .. Len(x)
    BY <2>1
  <2>3. QED BY <2>1, <2>2
<1>6. PICK n : n = c.firingIndex - Cardinality(reached)
  OBVIOUS
<1>7. n \in Nat /\ (c.firingIndex = 0 => n = 0)
  BY <1>1, <1>2, <1>6
<1>8. c.firingIndex <= Len(c.list) =>
        /\ n <= Len(x)
        /\ \A i \in 1 .. n : \E j \in 1 .. c.firingIndex : x[i] = c.list[j]
  <2> SUFFICES ASSUME c.firingIndex <= Len(c.list)
               PROVE  /\ n <= Len(x)
                      /\ \A i \in 1 .. n : \E j \in 1 .. c.firingIndex : x[i] = c.list[j]
    OBVIOUS
  <2>1. PICK k : k = c.firingIndex
    OBVIOUS
  <2>2. k \in 0 .. Len(c.list)
    BY <1>1, <2>1
  <2>3. LeftOut(c.list, S, k) = reached
    BY <1>1, <1>3, <2>1, <2>2 DEF LeftOut
  <2> HIDE DEF reached
  <2>4. PICK y : y = Filtered(c.list, S)[k]
    OBVIOUS
  <2>5. /\ Len(y) = k - Cardinality(LeftOut(c.list, S, k))
        /\ \A i \in 1 .. Len(y) : \E j \in 1 .. k : c.list[j] \in S /\ y[i] = c.list[j]
    <3>1. PICK s : s = c.list /\ s \in Seq(Callback)
      BY <1>1
    <3>2. k \in 0 .. Len(s)
      BY <2>2, <3>1
    <3>3. /\ Len(Filtered(s, S)[k]) = k - Cardinality(LeftOut(s, S, k))
          /\ \A i \in 1 .. Len(Filtered(s, S)[k]) :
                \E j \in 1 .. k : s[j] \in S /\ Filtered(s, S)[k][i] = s[j]
      BY <3>1, <3>2, FilteredTo
    <3>4. QED BY <2>4, <3>1, <3>3
  <2>6. Len(y) <= Len(x) /\ \A i \in 1 .. Len(y) : x[i] = y[i]
    BY <1>1, <1>4, <2>2, <2>4, FilteredPrefix
  <2>7. Len(y) = n
    BY <1>6, <2>1, <2>3, <2>5
  <2>8. QED BY <2>1, <2>5, <2>6, <2>7
<1> DEFINE e == [c EXCEPT !.list = x, !.firingIndex = n]
<1>9. Removed(c, f) = e
  <2>1. Removed(c, f) = [c EXCEPT !.list = Filter(c.list, S),
                                  !.firingIndex = c.firingIndex - Cardinality(reached)]
    BY DEF Removed, S, CallbackList
  <2> HIDE DEF reached
  <2>2. QED BY <1>4, <1>6, <2>1, Zenon
<1> HIDE DEF reached
<1>10. /\ e \in CallbackList /\ e.options = c.options /\ e.list = x /\ e.queue = c.queue
       /\ e.firing = c.firing /\ e.memory = c.memory /\ e.firingIndex = n
       /\ e.spent = c.spent /\ e.locked = c.locked
  BY <1>5, <1>7 DEF CallbackList
<1> HIDE DEF e
<1>11. \A k \in DOMAIN x : x[k].kind = "call"
  BY <1>1, <1>5 DEF FreeList
<1>12. c.spent => x = <<>>
  <2>1. c.spent => Len(x) = 0
    BY <1>1, <1>5 DEF FreeList
  <2>2. QED BY <1>5, <2>1
<1>13. l \notin em => Told(l, e, hd)
  <2>1. SUFFICES ASSUME l \notin em, "memory" \in c.options, c.memory # NoData,
                        NEW i \in 1 .. Len(x), c.firing => i <= n
                 PROVE  [of |-> l, n |-> x[i].n, v |-> c.memory] \in ToSet(hd)
    BY <1>5, <1>10 DEF Told
  <2>2. c.firingIndex <= Len(c.list) /\ Told(l, c, hd)
    BY <1>1, <2>1 DEF FreeList
  <2>3. PICK j \in 1 .. Len(c.list) : x[i] = c.list[j] /\ (c.firing => j <= c.firingIndex)
    <3>1. CASE c.firing
      <4>1. i \in 1 .. n
        BY <1>7, <2>1, <3>1
      <4>2. QED BY <1>1, <1>8, <2>2, <4>1
    <3>2. CASE ~c.firing
      BY <1>5, <3>2
    <3>3. QED BY <3>1, <3>2
  <2>4. QED BY <1>1, <2>1, <2>2, <2>3 DEF Told
<1>14. ~c.spent /\ l \notin em => n <= Len(x)
  BY <1>8 DEF FreeList
<1>15. FreeList(l, e, hd, em)
  BY <1>7, <1>10, <1>11, <1>12, <1>13, <1>14 DEF FreeList
<1>16. QED BY <1>9, <1>10, <1>15

\* empty: a list that is firing is one that a callback emptied.
LEMMA FreeEmptied ==
  ASSUME NEW l, NEW c \in CallbackList, NEW hd, NEW em, FreeList(l, c, hd, em),
         NEW em2, em \subseteq em2, c.firing => l \in em2
  PROVE  /\ Emptied(c) \in CallbackList /\ FreeList(l, Emptied(c), hd, em2)
         /\ Emptied(c).firing = c.firing
<1>1. PICK x : x = <<>> /\ x \in Seq(Callback) /\ DOMAIN x = {} /\ Len(x) = 0
  <2>1. <<>> \in Seq(Callback) /\ DOMAIN <<>> = {} /\ Len(<<>>) = 0
    OBVIOUS
  <2>2. QED BY <2>1, Zenon
<1> DEFINE e == [c EXCEPT !.list = x]
<1>2. Emptied(c) = e
  BY <1>1 DEF Emptied
<1>3. /\ e \in CallbackList /\ e.options = c.options /\ e.list = x /\ e.queue = c.queue
      /\ e.firing = c.firing /\ e.memory = c.memory /\ e.firingIndex = c.firingIndex
      /\ e.spent = c.spent /\ e.locked = c.locked
  BY <1>1 DEF CallbackList
<1> HIDE DEF e
<1>4. Told(l, e, hd)
  BY <1>1, <1>3 DEF Told
<1>5. FreeList(l, e, hd, em2)
  BY <1>1, <1>3, <1>4 DEF FreeList
<1>6. QED BY <1>2, <1>3, <1>5

\* A firing that is over, ...
LEMMA FreeFinished ==
  ASSUME NEW l, NEW c \in CallbackList, NEW hd, NEW em, FreeList(l, c, hd, em),
         c.firing, c.queue = <<>>, c.firingIndex >= Len(c.list)
  PROVE  /\ Finished(c) \in CallbackList /\ FreeList(l, Finished(c), hd, em)
<1>1. /\ c.list \in Seq(Callback) /\ c.firing \in BOOLEAN /\ c.spent \in BOOLEAN
      /\ c.firingIndex \in Nat /\ Len(c.list) \in Nat /\ DOMAIN c.list = 1 .. Len(c.list)
      /\ c.memory \in Datum \cup {NoData} /\ c.locked \in BOOLEAN
  BY DEF CallbackList
<1>2. PICK kept : /\ kept = IF "memory" \in c.options THEN c.memory ELSE NoData
                  /\ kept \in Datum \cup {NoData}
  <2>1. (IF "memory" \in c.options THEN c.memory ELSE NoData) \in Datum \cup {NoData}
    BY <1>1
  <2>2. QED BY <2>1
<1>3. PICK x : /\ x = IF c.locked THEN <<>> ELSE c.list
               /\ x \in Seq(Callback) /\ DOMAIN x \subseteq DOMAIN c.list
               /\ \A k \in DOMAIN x : x[k] = c.list[k]
               /\ c.locked => x = <<>>
               /\ c.list = <<>> => x = <<>>
               /\ Len(x) \in Nat
  <2>0. <<>> \in Seq(Callback) /\ DOMAIN <<>> = {} /\ Len(<<>>) = 0
    OBVIOUS
  <2>1. CASE c.locked
    <3>1. PICK x : x = <<>>
      OBVIOUS
    <3>2. x = IF c.locked THEN <<>> ELSE c.list
      BY <2>1, <3>1
    <3>3. x \in Seq(Callback) /\ DOMAIN x = {} /\ Len(x) \in Nat
      BY <2>0, <3>1
    <3>4. QED BY <3>1, <3>2, <3>3
  <2>2. CASE ~c.locked
    BY <1>1, <2>2
  <2>3. QED BY <2>1, <2>2
<1>4. PICK b : b = (c.spent \/ (c.locked /\ kept = NoData)) /\ b \in BOOLEAN
  BY Zenon
<1> DEFINE e == [c EXCEPT !.firingIndex = 0, !.memory = kept, !.firing = FALSE,
                          !.list = x, !.spent = b]
<1>5. Finished(c) = e
  BY <1>2, <1>3, <1>4, Zenon DEF Finished
<1>6. /\ e \in CallbackList /\ e.options = c.options /\ e.list = x /\ e.queue = c.queue
      /\ ~e.firing /\ e.memory = kept /\ e.firingIndex = 0
      /\ e.spent = b /\ e.locked = c.locked
  BY <1>2, <1>3, <1>4 DEF CallbackList
<1> HIDE DEF e
<1>7. b => x = <<>> /\ c.locked /\ kept = NoData
  BY <1>2, <1>3, <1>4 DEF FreeList
<1>8. l \notin em => Told(l, e, hd)
  <2>1. SUFFICES ASSUME l \notin em, "memory" \in c.options, kept # NoData,
                        NEW k \in DOMAIN x
                 PROVE  [of |-> l, n |-> x[k].n, v |-> kept] \in ToSet(hd)
    BY <1>6 DEF Told
  <2>2. kept = c.memory
    BY <1>2, <2>1
  <2>3. k \in DOMAIN c.list /\ x[k] = c.list[k] /\ k <= c.firingIndex
    BY <1>1, <1>3, <2>1
  <2>4. Told(l, c, hd)
    BY <2>1 DEF FreeList
  <2>5. QED BY <2>1, <2>2, <2>3, <2>4 DEF Told
<1>9. FreeList(l, e, hd, em)
  BY <1>3, <1>6, <1>7, <1>8 DEF FreeList
<1>10. QED BY <1>5, <1>6, <1>9

\* ... or begins again with what was queued, ...
LEMMA FreeRewound ==
  ASSUME NEW l, NEW c \in CallbackList, NEW hd, NEW em, FreeList(l, c, hd, em),
         c.firing, c.queue # <<>>
  PROVE  /\ Rewound(c) \in CallbackList /\ FreeList(l, Rewound(c), hd, em)
         /\ Rewound(c).firing
<1>1. c.queue \in Seq(Datum) /\ c.list \in Seq(Callback) /\ Len(c.list) \in Nat
  BY DEF CallbackList
<1>2. PICK v, z : v = Head(c.queue) /\ z = Tail(c.queue) /\ v \in Datum /\ z \in Seq(Datum)
  <2>1. Head(c.queue) \in Datum /\ Tail(c.queue) \in Seq(Datum)
    BY <1>1
  <2>2. QED BY <2>1
<1> DEFINE e == [c EXCEPT !.firingIndex = 0, !.memory = v, !.queue = z]
<1>3. Rewound(c) = e
  BY <1>2 DEF Rewound
<1>4. /\ e \in CallbackList /\ e.options = c.options /\ e.list = c.list /\ e.queue = z
      /\ e.firing /\ e.memory = v /\ e.firingIndex = 0
      /\ e.spent = c.spent /\ e.locked = c.locked
  BY <1>2 DEF CallbackList
<1> HIDE DEF e
<1>5. ~c.spent
  BY DEF FreeList
<1>6. Told(l, e, hd)
  BY <1>1, <1>4 DEF Told
<1>7. FreeList(l, e, hd, em)
  BY <1>1, <1>4, <1>5, <1>6 DEF FreeList
<1>8. QED BY <1>3, <1>4, <1>7

\* ... or was stopped by a callback.
LEMMA FreeStopped ==
  ASSUME NEW l, NEW c \in CallbackList, NEW hd, NEW em, FreeList(l, c, hd, em), c.firing
  PROVE  /\ Stopped(c) \in CallbackList /\ FreeList(l, Stopped(c), hd, em)
         /\ Stopped(c).firing
<1>1. PICK n : n = Len(c.list) /\ n \in Nat
  BY DEF CallbackList
<1> DEFINE e == [c EXCEPT !.firingIndex = n, !.memory = NoData]
<1>2. Stopped(c) = e
  BY <1>1 DEF Stopped
<1>3. /\ e \in CallbackList /\ e.options = c.options /\ e.list = c.list /\ e.queue = c.queue
      /\ e.firing /\ e.memory = NoData /\ e.firingIndex = n
      /\ e.spent = c.spent /\ e.locked = c.locked
  BY <1>1 DEF CallbackList
<1> HIDE DEF e
<1>4. Told(l, e, hd)
  BY <1>3 DEF Told
<1>5. FreeList(l, e, hd, em)
  BY <1>1, <1>3, <1>4 DEF FreeList
<1>6. QED BY <1>2, <1>3, <1>5

\* More was heard, or more lists were emptied by callbacks.
LEMMA FreeMore ==
  ASSUME NEW l, NEW c, NEW hd, NEW em, FreeList(l, c, hd, em), NEW hd2, NEW em2,
         ToSet(hd) \subseteq ToSet(hd2), em \subseteq em2
  PROVE  FreeList(l, c, hd2, em2)
<1>1. l \notin em2 => l \notin em
  OBVIOUS
<1>2. Told(l, c, hd) => Told(l, c, hd2)
  BY DEF Told
<1>3. QED BY <1>1, <1>2 DEF FreeList

\* A callback is called, and that is heard.
LEMMA FreePassed ==
  ASSUME NEW l, NEW c \in CallbackList, NEW hd, NEW em, FreeList(l, c, hd, em), c.firing,
         c.firingIndex < Len(c.list), NEW hd2, ToSet(hd) \subseteq ToSet(hd2),
         [of |-> l, n |-> c.list[c.firingIndex + 1].n, v |-> c.memory] \in ToSet(hd2)
  PROVE  /\ [c EXCEPT !.firingIndex = @ + 1] \in CallbackList
         /\ FreeList(l, [c EXCEPT !.firingIndex = @ + 1], hd2, em)
         /\ [c EXCEPT !.firingIndex = @ + 1].firing
<1>1. /\ c.list \in Seq(Callback) /\ c.firingIndex \in Nat
      /\ Len(c.list) \in Nat /\ DOMAIN c.list = 1 .. Len(c.list)
  BY DEF CallbackList
<1>2. PICK n : n = c.firingIndex + 1 /\ n \in Nat
  BY <1>1
<1> DEFINE e == [c EXCEPT !.firingIndex = n]
<1>3. [c EXCEPT !.firingIndex = @ + 1] = e
  BY <1>2 DEF CallbackList
<1>4. /\ e \in CallbackList /\ e.options = c.options /\ e.list = c.list /\ e.queue = c.queue
      /\ e.firing /\ e.memory = c.memory /\ e.firingIndex = n
      /\ e.spent = c.spent /\ e.locked = c.locked
  BY <1>2 DEF CallbackList
<1> HIDE DEF e
<1>5. l \notin em => Told(l, e, hd2)
  <2>1. SUFFICES ASSUME l \notin em, "memory" \in c.options, c.memory # NoData,
                        NEW k \in DOMAIN c.list, k <= n
                 PROVE  [of |-> l, n |-> c.list[k].n, v |-> c.memory] \in ToSet(hd2)
    BY <1>4 DEF Told
  <2>2. CASE k = n
    BY <1>2, <2>2
  <2>3. CASE k # n
    <3>1. k <= c.firingIndex
      BY <1>1, <1>2, <2>1, <2>3
    <3>2. Told(l, c, hd)
      BY <2>1 DEF FreeList
    <3>3. QED BY <2>1, <3>1, <3>2 DEF Told
  <2>4. QED BY <2>2, <2>3
<1>6. FreeList(l, e, hd2, em)
  BY <1>1, <1>2, <1>4, <1>5 DEF FreeList
<1>7. QED BY <1>3, <1>4, <1>6

\* The part of FreeInv that changes: the lists, the stack and the histories.
FreeShape(ls, s, hd, em) ==
    /\ ls \in [FreeLists -> CallbackList]
    /\ s \in Seq(FreeFrame)
    /\ hd \in Seq([of : FreeLists, n : Nat, v : Nat])
    /\ em \subseteq FreeLists
    /\ \A k \in DOMAIN s : s[k].frame = "body" => k > 1 /\ s[k - 1].frame = "fire"
    /\ OneLoop(ls, s)
    /\ \A l \in FreeLists : FreeList(l, ls[l], hd, em)

LEMMA FreeParts ==
  FreeInv <=> FreeShape(lists, stack, heard, emptied) /\ ops \in 0 .. MaxOps /\ NoDeferreds
BY DEF FreeInv, FreeTypes, FreeShape

LEMMA FreeFrames ==
  /\ \A l \in FreeLists : /\ FireFrame(l) \in FreeFrame
                          /\ FireFrame(l).frame = "fire" /\ FireFrame(l).of = l
  /\ \A n \in Nat : BodyFrame(n) \in FreeFrame /\ BodyFrame(n).frame = "body"
  /\ \A f \in FreeFrame : /\ f.frame \in {"fire", "body"}
                          /\ f.frame = "fire" => f.of \in FreeLists
BY DEF FreeFrame, FireFrame, BodyFrame

\* One list changes, and is not left by its loop.
LEMMA FreeChange ==
  ASSUME NEW ls, NEW s, NEW hd, NEW em, FreeShape(ls, s, hd, em),
         NEW l \in FreeLists, NEW e \in CallbackList, ls[l].firing => e.firing,
         NEW hd2, hd2 \in Seq([of : FreeLists, n : Nat, v : Nat]), ToSet(hd) \subseteq ToSet(hd2),
         NEW em2, em \subseteq em2, em2 \subseteq FreeLists, FreeList(l, e, hd2, em2)
  PROVE  FreeShape([ls EXCEPT ![l] = e], s, hd2, em2)
<1> DEFINE ls2 == [ls EXCEPT ![l] = e]
<1>1. ls2 \in [FreeLists -> CallbackList] /\ ls2[l] = e /\ \A m \in FreeLists : m # l => ls2[m] = ls[m]
  BY DEF FreeShape
<1> HIDE DEF ls2
<1>2. \A m \in FreeLists : FreeList(m, ls2[m], hd2, em2)
  <2>1. SUFFICES ASSUME NEW m \in FreeLists, m # l PROVE FreeList(m, ls[m], hd2, em2)
    BY <1>1
  <2>2. FreeList(m, ls[m], hd, em)
    BY DEF FreeShape
  <2>3. QED BY <2>2, FreeMore
<1>3. \A k \in DOMAIN s : s[k].frame = "fire" => s[k].of \in FreeLists
  <2>1. \A k \in DOMAIN s : s[k] \in FreeFrame
    BY InSeq DEF FreeShape
  <2>2. QED BY <2>1, FreeFrames
<1>4. \A k \in DOMAIN s : s[k].frame = "fire" /\ ls[s[k].of].firing => ls2[s[k].of].firing
  BY <1>1, <1>3
<1>5. OneLoop(ls2, s)
  BY <1>4, LoopSame DEF FreeShape
<1>6. QED BY <1>1, <1>2, <1>5 DEF FreeShape, ls2

\* A list comes to be fired: its loop is the innermost.
LEMMA FreePush ==
  ASSUME NEW ls, NEW s, NEW hd, NEW em, FreeShape(ls, s, hd, em),
         NEW l \in FreeLists, NEW e \in CallbackList, ~ls[l].firing, e.firing,
         FreeList(l, e, hd, em)
  PROVE  FreeShape([ls EXCEPT ![l] = e], Append(s, FireFrame(l)), hd, em)
<1> DEFINE s2 == Append(s, FireFrame(l))
<1>0. PICK ls2 : ls2 = [ls EXCEPT ![l] = e]
  OBVIOUS
<1>1. FreeShape(ls2, s, hd, em) /\ ls2[l].firing
  <2>1. hd \in Seq([of : FreeLists, n : Nat, v : Nat]) /\ em \subseteq FreeLists
    BY DEF FreeShape
  <2>2. FreeShape([ls EXCEPT ![l] = e], s, hd, em)
    BY <2>1, FreeChange
  <2>3. ls2[l] = e
    BY <1>0 DEF FreeShape
  <2>4. QED BY <1>0, <2>2, <2>3
<1>2. FireFrame(l) \in FreeFrame /\ FireFrame(l).frame = "fire" /\ FireFrame(l).of = l
  BY FreeFrames
<1>3. /\ s2 \in Seq(FreeFrame) /\ Len(s) \in Nat /\ DOMAIN s = 1 .. Len(s)
      /\ DOMAIN s2 = 1 .. Len(s) + 1
      /\ \A k \in 1 .. Len(s) : s2[k] = s[k]
      /\ s2[Len(s) + 1].frame = "fire" /\ s2[Len(s) + 1].of = l
  BY <1>2, Appended DEF FreeShape
<1> HIDE DEF s2
<1>4. \A k \in DOMAIN s : s[k].frame = "fire" => s[k].of # l
  BY DEF OneLoop, FreeShape
<1>5. OneLoop(ls2, s2)
  <2>1. SUFFICES ASSUME NEW k \in DOMAIN s2, s2[k].frame = "fire"
                 PROVE  /\ ls2[s2[k].of].firing
                        /\ \A j \in DOMAIN s2 :
                              s2[j].frame = "fire" /\ s2[j].of = s2[k].of => j = k
    BY DEF OneLoop
  <2>2. CASE k = Len(s) + 1
    <3>1. s2[k].of = l
      BY <1>3, <2>2
    <3>2. ASSUME NEW j \in DOMAIN s2, s2[j].frame = "fire", s2[j].of = l, j # k PROVE FALSE
      <4>1. j \in DOMAIN s /\ s2[j] = s[j]
        BY <1>3, <2>2, <3>2
      <4>2. QED BY <1>4, <3>2, <4>1
    <3>3. QED BY <1>1, <3>1, <3>2
  <2>3. CASE k # Len(s) + 1
    <3>1. k \in DOMAIN s /\ s2[k] = s[k]
      BY <1>3, <2>3
    <3>2. ls2[s[k].of].firing
      BY <1>1, <2>1, <3>1 DEF FreeShape, OneLoop
    <3>3. ASSUME NEW j \in DOMAIN s2, s2[j].frame = "fire", s2[j].of = s2[k].of PROVE j = k
      <4>1. j # Len(s) + 1
        BY <1>3, <1>4, <2>1, <3>1, <3>3
      <4>2. j \in DOMAIN s /\ s2[j] = s[j]
        BY <1>3, <4>1
      <4>3. QED BY <1>1, <2>1, <3>1, <3>3, <4>2 DEF FreeShape, OneLoop
    <3>4. QED BY <3>1, <3>2, <3>3
  <2>4. QED BY <2>2, <2>3
<1>6. \A k \in DOMAIN s2 : s2[k].frame = "body" => k > 1 /\ s2[k - 1].frame = "fire"
  <2>1. SUFFICES ASSUME NEW k \in DOMAIN s2, s2[k].frame = "body"
                 PROVE  k > 1 /\ s2[k - 1].frame = "fire"
    OBVIOUS
  <2>2. k # Len(s) + 1
    BY <1>3, <2>1
  <2>3. k \in DOMAIN s /\ s2[k] = s[k]
    BY <1>3, <2>2
  <2>4. k > 1 /\ s[k - 1].frame = "fire"
    BY <2>1, <2>3 DEF FreeShape
  <2>5. k - 1 \in 1 .. Len(s)
    BY <1>3, <2>3, <2>4
  <2>6. QED BY <1>3, <2>4, <2>5
<1>7. FreeShape(ls2, s2, hd, em)
  BY <1>1, <1>3, <1>5, <1>6 DEF FreeShape
<1>8. QED BY <1>0, <1>7 DEF s2

\* Frames are taken off the stack.
LEMMA FreePrefix ==
  ASSUME NEW ls, NEW s, NEW hd, NEW em, FreeShape(ls, s, hd, em),
         NEW s2, s2 = <<>> \/ (s # <<>> /\ s2 = Front(s))
  PROVE  FreeShape(ls, s2, hd, em)
<1>1. s \in Seq(FreeFrame) /\ Len(s) \in Nat /\ DOMAIN s = 1 .. Len(s)
  BY DEF FreeShape
<1>2. /\ s2 \in Seq(FreeFrame) /\ DOMAIN s2 \subseteq DOMAIN s
      /\ \A k \in DOMAIN s2 : s2[k] = s[k] /\ \A j \in 1 .. k : j \in DOMAIN s2
  <2>1. CASE s2 = <<>>
    <3>1. s2 \in Seq(FreeFrame) /\ DOMAIN s2 = {}
      BY <2>1
    <3>2. QED BY <3>1
  <2>2. CASE s # <<>> /\ s2 = Front(s)
    BY <1>1, <2>2, FrontFacts
  <2>3. QED BY <2>1, <2>2
<1>3. OneLoop(ls, s2)
  BY <1>2, LoopPrefix DEF FreeShape
<1>4. \A k \in DOMAIN s2 : s2[k].frame = "body" => k > 1 /\ s2[k - 1].frame = "fire"
  <2>1. SUFFICES ASSUME NEW k \in DOMAIN s2, s2[k].frame = "body"
                 PROVE  k > 1 /\ s2[k - 1].frame = "fire"
    OBVIOUS
  <2>2. k > 1 /\ s[k - 1].frame = "fire" /\ k \in 1 .. Len(s)
    BY <1>1, <1>2, <2>1 DEF FreeShape
  <2>3. k - 1 \in DOMAIN s2
    BY <1>2, <2>1, <2>2
  <2>4. QED BY <1>2, <2>2, <2>3
<1>5. QED BY <1>2, <1>3, <1>4 DEF FreeShape

\* The body of a callback, on top of the loop that calls it.
LEMMA FreePushBody ==
  ASSUME NEW ls, NEW s, NEW hd, NEW em, FreeShape(ls, s, hd, em),
         s # <<>>, s[Len(s)].frame = "fire", NEW n \in Nat
  PROVE  FreeShape(ls, Append(s, BodyFrame(n)), hd, em)
<1> DEFINE s2 == Append(s, BodyFrame(n))
<1>1. BodyFrame(n) \in FreeFrame /\ BodyFrame(n).frame = "body"
  BY FreeFrames
<1>2. /\ s2 \in Seq(FreeFrame) /\ Len(s) \in Nat /\ DOMAIN s = 1 .. Len(s)
      /\ DOMAIN s2 = 1 .. Len(s) + 1
      /\ \A k \in 1 .. Len(s) : s2[k] = s[k]
      /\ s2[Len(s) + 1].frame = "body"
  BY <1>1, Appended DEF FreeShape
<1>3. Len(s) >= 1
  <2>1. s \in Seq(FreeFrame)
    BY DEF FreeShape
  <2>2. QED BY <2>1
<1> HIDE DEF s2
<1>4. OneLoop(ls, s2)
  <2>1. \A k \in DOMAIN s2 : s2[k].frame = "fire" => k \in DOMAIN s /\ s2[k] = s[k]
    BY <1>2
  <2>2. QED BY <2>1 DEF OneLoop, FreeShape
<1>5. \A k \in DOMAIN s2 : s2[k].frame = "body" => k > 1 /\ s2[k - 1].frame = "fire"
  <2>1. SUFFICES ASSUME NEW k \in DOMAIN s2, s2[k].frame = "body"
                 PROVE  k > 1 /\ s2[k - 1].frame = "fire"
    OBVIOUS
  <2>2. CASE k = Len(s) + 1
    <3>1. k - 1 = Len(s) /\ Len(s) \in 1 .. Len(s) /\ k > 1
      BY <1>2, <1>3, <2>2
    <3>2. QED BY <1>2, <3>1
  <2>3. CASE k # Len(s) + 1
    <3>1. k \in DOMAIN s /\ s2[k] = s[k]
      BY <1>2, <2>3
    <3>2. k > 1 /\ s[k - 1].frame = "fire"
      BY <2>1, <3>1 DEF FreeShape
    <3>3. k - 1 \in 1 .. Len(s)
      BY <1>2, <3>1, <3>2
    <3>4. QED BY <1>2, <3>2, <3>3
  <2>4. QED BY <2>2, <2>3
<1>6. QED BY <1>2, <1>4, <1>5 DEF FreeShape, s2

\* A loop that is left: no other one calls the callbacks of its list.
LEMMA FreePop ==
  ASSUME NEW ls, NEW s, NEW hd, NEW em, FreeShape(ls, s, hd, em),
         NEW l \in FreeLists, s # <<>>, s[Len(s)].frame = "fire", s[Len(s)].of = l,
         NEW e \in CallbackList, FreeList(l, e, hd, em)
  PROVE  FreeShape([ls EXCEPT ![l] = e], Front(s), hd, em)
<1>0. PICK ls2 : ls2 = [ls EXCEPT ![l] = e]
  OBVIOUS
<1>1. PICK s2 : s2 = Front(s)
  OBVIOUS
<1>2. FreeShape(ls, s2, hd, em)
  BY <1>1, FreePrefix
<1>3. /\ Len(s) \in Nat /\ Len(s) >= 1 /\ DOMAIN s = 1 .. Len(s) /\ DOMAIN s2 = 1 .. Len(s) - 1
      /\ \A k \in 1 .. Len(s) - 1 : s2[k] = s[k]
  <2>1. s \in Seq(FreeFrame)
    BY DEF FreeShape
  <2>2. QED BY <1>1, <2>1, FrontFacts
<1>4. /\ ls2 \in [FreeLists -> CallbackList] /\ ls2[l] = e
      /\ \A m \in FreeLists : m # l => ls2[m] = ls[m]
  BY <1>0 DEF FreeShape
<1>5. \A m \in FreeLists : FreeList(m, ls2[m], hd, em)
  BY <1>4 DEF FreeShape
<1>6. \A k \in DOMAIN s2 : s2[k].frame = "fire" => s2[k].of \in FreeLists /\ s2[k].of # l
  <2>1. SUFFICES ASSUME NEW k \in DOMAIN s2, s2[k].frame = "fire"
                 PROVE  s2[k].of \in FreeLists /\ s2[k].of # l
    OBVIOUS
  <2>2. s2[k] \in FreeFrame
    BY <1>2, InSeq DEF FreeShape
  <2>3. k \in DOMAIN s /\ s2[k] = s[k] /\ k # Len(s) /\ Len(s) \in DOMAIN s
    BY <1>3
  <2>4. s[k].of # l
    BY <2>1, <2>3 DEF FreeShape, OneLoop
  <2>5. QED BY <2>1, <2>2, <2>3, <2>4, FreeFrames
<1>7. OneLoop(ls2, s2)
  <2>1. \A k \in DOMAIN s2 : s2[k].frame = "fire" /\ ls[s2[k].of].firing => ls2[s2[k].of].firing
    BY <1>4, <1>6
  <2>2. OneLoop(ls, s2)
    BY <1>2 DEF FreeShape
  <2>3. QED BY <2>1, <2>2, LoopSame
<1>8. FreeShape(ls2, s2, hd, em)
  BY <1>2, <1>4, <1>5, <1>7 DEF FreeShape
<1>9. QED BY <1>0, <1>1, <1>8

-----------------------------------------------------------------------------
(* The steps, with lists of the application.                               *)

LEMMA FreeStep ==
  ASSUME FreeInv, FreeShape(lists', stack', heard', emptied'), ops' \in 0 .. MaxOps,
         UNCHANGED <<deferredVars, historyVars>>
  PROVE  FreeInv'
<1>1. NoDeferreds'
  BY DEF FreeInv, NoDeferreds, deferredVars, historyVars
<1>2. (FreeShape(lists, stack, heard, emptied))'
  OBVIOUS
<1>3. (ops \in 0 .. MaxOps)'
  OBVIOUS
<1>4. QED BY <1>1, <1>2, <1>3 DEF FreeInv, FreeTypes, FreeShape

\* A call of the application counts.
LEMMA FreeOps ==
  ASSUME FreeInv, Operation
  PROVE  ops' \in 0 .. MaxOps /\ ops + 1 \in Datum
BY CallbacksAssumption DEF FreeInv, FreeTypes, Operation, Datum

LEMMA FreeNow ==
  ASSUME FreeInv
  PROVE  /\ FreeShape(lists, stack, heard, emptied)
         /\ \A l \in FreeLists : lists[l] \in CallbackList /\ FreeList(l, lists[l], heard, emptied)
         /\ DOMAIN lists = FreeLists
         /\ heard \in Seq([of : FreeLists, n : Nat, v : Nat]) /\ emptied \subseteq FreeLists
BY FreeParts DEF FreeShape

LEMMA ListAddInv ==
  ASSUME FreeInv, NEW l \in FreeLists, ListAdd(l), UNCHANGED <<deferredVars, historyVars>>
  PROVE  FreeInv'
<1>1. PICK n \in FreeFns : Adds(l, Call(n), stack)
  BY DEF ListAdd
<1>2. n \in Nat
  BY CallbacksAssumption
<1>3. lists[l] \in CallbackList /\ FreeList(l, lists[l], heard, emptied)
  BY FreeNow
<1>4. PICK e : e = Added(lists[l], Call(n))
  OBVIOUS
<1>5. /\ e \in CallbackList /\ FreeList(l, e, heard, emptied)
      /\ Replays(lists[l]) => ~lists[l].firing /\ e.firing
      /\ lists[l].firing => e.firing
  <2>1. PICK c : c = lists[l]
    OBVIOUS
  <2>2. c \in CallbackList /\ FreeList(l, c, heard, emptied)
    BY <1>3, <2>1
  <2>3. /\ Added(c, Call(n)) \in CallbackList /\ FreeList(l, Added(c, Call(n)), heard, emptied)
        /\ Replays(c) => ~c.firing /\ Added(c, Call(n)).firing
        /\ c.firing => Added(c, Call(n)).firing
    BY <1>2, <2>2, FreeAdded
  <2>4. e = Added(c, Call(n))
    BY <1>4, <2>1
  <2>5. QED BY <2>1, <2>3, <2>4, Zenon
<1>6. lists' = [lists EXCEPT ![l] = e] /\ heard' = heard /\ emptied' = emptied
  BY <1>1, <1>4 DEF ListAdd, Adds
<1>7. stack' = IF Replays(lists[l]) THEN Append(stack, FireFrame(l)) ELSE stack
  BY <1>1 DEF Adds
<1>8. FreeShape(lists', stack', heard', emptied')
  <2>1. CASE Replays(lists[l])
    <3>1. FreeShape([lists EXCEPT ![l] = e], Append(stack, FireFrame(l)), heard, emptied)
      BY <1>5, <2>1, FreeNow, FreePush
    <3>2. QED BY <1>6, <1>7, <2>1, <3>1
  <2>2. CASE ~Replays(lists[l])
    <3>1. FreeShape([lists EXCEPT ![l] = e], stack, heard, emptied)
      BY <1>5, FreeNow, FreeChange
    <3>2. QED BY <1>6, <1>7, <2>2, <3>1
  <2>3. QED BY <2>1, <2>2
<1>9. ops' \in 0 .. MaxOps
  BY FreeOps DEF ListAdd
<1>10. QED BY <1>8, <1>9, FreeStep

LEMMA ListFireInv ==
  ASSUME FreeInv, NEW l \in FreeLists, ListFire(l), UNCHANGED <<deferredVars, historyVars>>
  PROVE  FreeInv'
<1>1. PICK v : v = ops + 1 /\ v \in Datum
  BY FreeOps DEF ListFire
<1>2. PICK c : c = lists[l] /\ c \in CallbackList /\ FreeList(l, c, heard, emptied)
  BY FreeNow
<1>3. PICK e : e = FiredWith(c, v)
  OBVIOUS
<1>4. /\ e \in CallbackList /\ FreeList(l, e, heard, emptied)
      /\ StartsFiring(c) => ~c.firing /\ e.firing
      /\ c.firing => e.firing
  <2>1. /\ FiredWith(c, v) \in CallbackList /\ FreeList(l, FiredWith(c, v), heard, emptied)
        /\ StartsFiring(c) => ~c.firing /\ FiredWith(c, v).firing
        /\ c.firing => FiredWith(c, v).firing
    BY <1>1, <1>2, FreeFired
  <2>2. QED BY <1>3, <2>1, Zenon
<1>5. lists' = [lists EXCEPT ![l] = e] /\ heard' = heard /\ emptied' = emptied
  BY <1>1, <1>2, <1>3 DEF ListFire, Fires
<1>6. stack' = IF StartsFiring(c) THEN Append(stack, FireFrame(l)) ELSE stack
  BY <1>2 DEF ListFire, Fires
<1>7. FreeShape(lists', stack', heard', emptied')
  <2>1. CASE StartsFiring(c)
    <3>1. FreeShape([lists EXCEPT ![l] = e], Append(stack, FireFrame(l)), heard, emptied)
      BY <1>2, <1>4, <2>1, FreeNow, FreePush
    <3>2. QED BY <1>5, <1>6, <2>1, <3>1
  <2>2. CASE ~StartsFiring(c)
    <3>1. FreeShape([lists EXCEPT ![l] = e], stack, heard, emptied)
      BY <1>2, <1>4, FreeNow, FreeChange
    <3>2. QED BY <1>5, <1>6, <2>2, <3>1
  <2>3. QED BY <2>1, <2>2
<1>8. ops' \in 0 .. MaxOps
  BY FreeOps DEF ListFire
<1>9. QED BY <1>7, <1>8, FreeStep

LEMMA ListChangeInv ==
  ASSUME FreeInv, NEW l \in FreeLists, UNCHANGED <<deferredVars, historyVars>>,
         ListRemove(l) \/ ListEmpty(l) \/ ListDisable(l) \/ ListLock(l)
  PROVE  FreeInv'
<1>1. PICK c : c = lists[l] /\ c \in CallbackList /\ FreeList(l, c, heard, emptied)
  BY FreeNow
<1>2. PICK em : em = IF c.firing THEN emptied \cup {l} ELSE emptied
  OBVIOUS
<1>3. PICK e, em2 : /\ lists' = [lists EXCEPT ![l] = e] /\ e \in CallbackList
                    /\ e.firing = c.firing /\ emptied' = em2 /\ FreeList(l, e, heard, em2)
                    /\ em2 \in {emptied, em}
  <2>1. CASE ListRemove(l)
    <3>1. PICK n \in FreeFns : lists' = [lists EXCEPT ![l] = Removed(lists[l], Call(n))]
      BY <2>1 DEF ListRemove
    <3>2. PICK e : e = Removed(c, Call(n))
      OBVIOUS
    <3>3. e \in CallbackList /\ FreeList(l, e, heard, emptied) /\ e.firing = c.firing
      BY <1>1, <3>2, FreeRemoved
    <3>4. lists' = [lists EXCEPT ![l] = e] /\ emptied' = emptied
      BY <1>1, <2>1, <3>1, <3>2 DEF ListRemove
    <3>5. QED BY <3>3, <3>4
  <2>2. CASE ListEmpty(l)
    <3>1. PICK e : e = Emptied(c)
      OBVIOUS
    <3>2. emptied \subseteq em /\ (c.firing => l \in em)
      BY <1>2
    <3>3. e \in CallbackList /\ FreeList(l, e, heard, em) /\ e.firing = c.firing
      BY <1>1, <3>1, <3>2, FreeEmptied
    <3>4. lists' = [lists EXCEPT ![l] = e] /\ emptied' = em
      BY <1>1, <1>2, <2>2, <3>1 DEF ListEmpty
    <3>5. QED BY <3>3, <3>4
  <2>3. CASE ListDisable(l)
    <3>1. PICK e : e = Disabled(c)
      OBVIOUS
    <3>2. e \in CallbackList /\ FreeList(l, e, heard, emptied) /\ e.firing = c.firing
      BY <1>1, <3>1, FreeDisabled
    <3>3. lists' = [lists EXCEPT ![l] = e] /\ emptied' = emptied
      BY <1>1, <2>3, <3>1 DEF ListDisable
    <3>4. QED BY <3>2, <3>3
  <2>4. CASE ListLock(l)
    <3>1. PICK e : e = Locked(c)
      OBVIOUS
    <3>2. e \in CallbackList /\ FreeList(l, e, heard, emptied) /\ e.firing = c.firing
      BY <1>1, <3>1, FreeLocked
    <3>3. lists' = [lists EXCEPT ![l] = e] /\ emptied' = emptied
      BY <1>1, <2>4, <3>1 DEF ListLock
    <3>4. QED BY <3>2, <3>3
  <2>5. QED BY <2>1, <2>2, <2>3, <2>4
<1>4. emptied \subseteq em2 /\ em2 \subseteq FreeLists
  BY <1>2, <1>3, FreeNow
<1>5. heard' = heard /\ stack' = stack /\ Operation
  BY DEF ListRemove, ListEmpty, ListDisable, ListLock
<1>6. lists[l].firing => e.firing
  BY <1>1, <1>3
<1>7. FreeShape([lists EXCEPT ![l] = e], stack, heard, em2)
  BY <1>3, <1>4, <1>6, FreeNow, FreeChange
<1>8. FreeShape(lists', stack', heard', emptied')
  BY <1>3, <1>5, <1>7
<1>9. QED BY <1>5, <1>8, FreeOps, FreeStep

LEMMA FreeTop ==
  ASSUME FreeInv, NEW l, On("fire"), Top.of = l
  PROVE  /\ l \in FreeLists /\ lists[l].firing /\ stack # <<>>
         /\ stack[Len(stack)].frame = "fire" /\ stack[Len(stack)].of = l
<1>1. stack \in Seq(FreeFrame) /\ OneLoop(lists, stack)
  BY DEF FreeInv, FreeTypes
<1>2. stack # <<>> /\ stack[Len(stack)].frame = "fire" /\ stack[Len(stack)].of = l
  BY DEF On, Idle, Top
<1>3. Len(stack) \in DOMAIN stack
  BY <1>1, <1>2
<1>4. stack[Len(stack)] \in FreeFrame
  BY <1>1, <1>3, InSeq
<1>5. QED BY <1>1, <1>2, <1>3, <1>4, FreeFrames DEF OneLoop

LEMMA FreeRunCallback ==
  ASSUME FreeInv, NEW l, RunCallback(l), UNCHANGED <<deferredVars, historyVars>>
  PROVE  FreeInv'
<1>1. /\ l \in FreeLists /\ lists[l].firing /\ stack # <<>>
      /\ stack[Len(stack)].frame = "fire"
  BY FreeTop DEF RunCallback, Reaches
<1>2. PICK c : c = lists[l] /\ c \in CallbackList /\ FreeList(l, c, heard, emptied) /\ c.firing
  BY <1>1, FreeNow
<1>3. c.firingIndex < Len(c.list)
  BY <1>2 DEF RunCallback, Reaches
<1>4. /\ c.list \in Seq(Callback) /\ c.firingIndex \in Nat /\ Len(c.list) \in Nat
      /\ DOMAIN c.list = 1 .. Len(c.list) /\ c.memory \in Nat
  BY <1>2 DEF CallbackList, Datum, NoData
<1>5. PICK n, v : /\ n = c.list[c.firingIndex + 1].n /\ v = c.memory /\ n \in Nat /\ v \in Nat
  <2>1. c.firingIndex + 1 \in DOMAIN c.list
    BY <1>3, <1>4
  <2>2. c.list[c.firingIndex + 1] \in Callback
    BY <1>4, <2>1, InSeq
  <2>3. c.list[c.firingIndex + 1].n \in Nat
    BY <2>2 DEF Callback
  <2>4. QED BY <1>4, <2>3
<1>6. PICK x : x = [of |-> l, n |-> n, v |-> v] /\ x \in [of : FreeLists, n : Nat, v : Nat]
  <2>1. [of |-> l, n |-> n, v |-> v] \in [of : FreeLists, n : Nat, v : Nat]
    BY <1>1, <1>5
  <2>2. QED BY <2>1
<1>7. /\ lists' = [lists EXCEPT ![l].firingIndex = @ + 1]
      /\ stack' = Append(stack, BodyFrame(n)) /\ heard' = Append(heard, x)
      /\ emptied' = emptied /\ ops' = ops
  BY <1>2, <1>5, <1>6 DEF RunCallback, Passed, Reached
<1>8. PICK hd2 : hd2 = Append(heard, x)
  OBVIOUS
<1>9. /\ hd2 \in Seq([of : FreeLists, n : Nat, v : Nat]) /\ ToSet(heard) \subseteq ToSet(hd2)
      /\ x \in ToSet(hd2)
  <2>1. heard \in Seq([of : FreeLists, n : Nat, v : Nat])
    BY FreeNow
  <2>2. /\ hd2 \in Seq([of : FreeLists, n : Nat, v : Nat])
        /\ Len(heard) \in Nat /\ DOMAIN heard = 1 .. Len(heard)
        /\ DOMAIN hd2 = 1 .. Len(heard) + 1
        /\ \A k \in 1 .. Len(heard) : hd2[k] = heard[k]
        /\ hd2[Len(heard) + 1] = x
    BY <1>6, <1>8, <2>1, Appended
  <2>3. ToSet(heard) \subseteq ToSet(hd2)
    BY <2>2 DEF ToSet
  <2>4. Len(heard) + 1 \in DOMAIN hd2
    BY <2>2
  <2>5. x \in ToSet(hd2)
    BY <2>2, <2>4 DEF ToSet
  <2>6. QED BY <2>2, <2>3, <2>5
<1>10. PICK e : e = [c EXCEPT !.firingIndex = @ + 1]
  OBVIOUS
<1>11. e \in CallbackList /\ FreeList(l, e, hd2, emptied) /\ e.firing
  <2>1. [of |-> l, n |-> c.list[c.firingIndex + 1].n, v |-> c.memory] \in ToSet(hd2)
    BY <1>5, <1>6, <1>9
  <2>2. /\ [c EXCEPT !.firingIndex = @ + 1] \in CallbackList
        /\ FreeList(l, [c EXCEPT !.firingIndex = @ + 1], hd2, emptied)
        /\ [c EXCEPT !.firingIndex = @ + 1].firing
    BY <1>2, <1>3, <1>9, <2>1, FreePassed
  <2>3. QED BY <1>10, <2>2, Zenon
<1>12. lists' = [lists EXCEPT ![l] = e]
  BY <1>2, <1>7, <1>10
<1>13. FreeShape([lists EXCEPT ![l] = e], stack, hd2, emptied)
  <2>1. lists[l].firing => e.firing
    BY <1>11
  <2>2. emptied \subseteq FreeLists
    BY FreeNow
  <2>3. QED BY <1>1, <1>9, <1>11, <2>1, <2>2, FreeNow, FreeChange
<1>14. FreeShape([lists EXCEPT ![l] = e], Append(stack, BodyFrame(n)), hd2, emptied)
  BY <1>1, <1>5, <1>13, FreePushBody
<1>15. FreeShape(lists', stack', heard', emptied')
  BY <1>7, <1>8, <1>12, <1>14
<1>16. ops' \in 0 .. MaxOps
  BY <1>7 DEF FreeInv, FreeTypes
<1>17. QED BY <1>15, <1>16, FreeStep

LEMMA FreeRoundEnds ==
  ASSUME FreeInv, NEW l, RoundEnds(l), UNCHANGED <<deferredVars, historyVars>>
  PROVE  FreeInv'
<1>1. /\ l \in FreeLists /\ lists[l].firing /\ stack # <<>>
      /\ stack[Len(stack)].frame = "fire" /\ stack[Len(stack)].of = l
  BY FreeTop DEF RoundEnds
<1>2. PICK c : c = lists[l] /\ c \in CallbackList /\ FreeList(l, c, heard, emptied) /\ c.firing
  BY <1>1, FreeNow
<1>3. c.firingIndex >= Len(c.list) /\ heard' = heard /\ emptied' = emptied /\ ops' = ops
  BY <1>2 DEF RoundEnds
<1>4. FreeShape(lists', stack', heard', emptied')
  <2>1. CASE c.queue # <<>>
    <3>1. PICK e : e = Rewound(c)
      OBVIOUS
    <3>2. e \in CallbackList /\ FreeList(l, e, heard, emptied) /\ e.firing
      BY <1>2, <2>1, <3>1, FreeRewound
    <3>3. lists' = [lists EXCEPT ![l] = e] /\ stack' = stack
      BY <1>2, <2>1, <3>1 DEF RoundEnds
    <3>4. lists[l].firing => e.firing
      BY <3>2
    <3>5. FreeShape([lists EXCEPT ![l] = e], stack, heard, emptied)
      BY <1>1, <3>2, <3>4, FreeNow, FreeChange
    <3>6. QED BY <1>3, <3>3, <3>5
  <2>2. CASE c.queue = <<>>
    <3>1. PICK e : e = Finished(c)
      OBVIOUS
    <3>2. e \in CallbackList /\ FreeList(l, e, heard, emptied)
      BY <1>2, <1>3, <2>2, <3>1, FreeFinished
    <3>3. lists' = [lists EXCEPT ![l] = e] /\ stack' = Front(stack)
      BY <1>2, <2>2, <3>1 DEF RoundEnds
    <3>4. FreeShape([lists EXCEPT ![l] = e], Front(stack), heard, emptied)
      BY <1>1, <3>2, FreeNow, FreePop
    <3>5. QED BY <1>3, <3>3, <3>4
  <2>3. QED BY <2>1, <2>2
<1>5. ops' \in 0 .. MaxOps
  BY <1>3 DEF FreeInv, FreeTypes
<1>6. QED BY <1>4, <1>5, FreeStep

LEMMA FreeBodyReturns ==
  ASSUME FreeInv, BodyReturns, UNCHANGED <<deferredVars, historyVars>>
  PROVE  FreeInv'
<1>1. stack # <<>> /\ stack[Len(stack)].frame = "body" /\ stack' = Front(stack)
  BY DEF BodyReturns, On, Idle, Top
<1>2. /\ stack \in Seq(FreeFrame) /\ Len(stack) \in DOMAIN stack /\ Len(stack) \in Nat
      /\ DOMAIN stack = 1 .. Len(stack)
  BY <1>1 DEF FreeInv, FreeTypes
<1>3. Len(stack) > 1 /\ stack[Len(stack) - 1].frame = "fire"
  BY <1>1, <1>2 DEF FreeInv, FreeTypes
<1>4. PICK l : l = stack[Len(stack) - 1].of /\ l \in FreeLists /\ lists[l].firing
  <2>1. Len(stack) - 1 \in DOMAIN stack
    BY <1>2, <1>3
  <2>2. stack[Len(stack) - 1] \in FreeFrame
    BY <1>2, <2>1, InSeq
  <2>3. stack[Len(stack) - 1].of \in FreeLists
    BY <1>3, <2>2, FreeFrames
  <2>4. lists[stack[Len(stack) - 1].of].firing
    BY <1>3, <2>1 DEF FreeInv, OneLoop
  <2>5. QED BY <2>3, <2>4
<1>5. FreeShape(lists, stack', heard, emptied)
  BY <1>1, FreeNow, FreePrefix
<1>6. heard' = heard /\ emptied' = emptied /\ ops' = ops
  BY DEF BodyReturns
<1>7. FreeShape(lists', stack', heard', emptied')
  <2>1. CASE lists' = lists
    BY <1>5, <1>6, <2>1
  <2>2. CASE lists' = [lists EXCEPT ![l] = Stopped(@)]
    <3>1. PICK c : c = lists[l] /\ c \in CallbackList /\ FreeList(l, c, heard, emptied)
                   /\ c.firing
      BY <1>4, FreeNow
    <3>2. PICK e : e = Stopped(c)
      OBVIOUS
    <3>3. e \in CallbackList /\ FreeList(l, e, heard, emptied) /\ e.firing
      BY <3>1, <3>2, FreeStopped
    <3>4. lists[l].firing => e.firing
      BY <3>3
    <3>5. FreeShape([lists EXCEPT ![l] = e], stack', heard, emptied)
      BY <1>4, <1>5, <3>3, <3>4, FreeNow, FreeChange
    <3>6. lists' = [lists EXCEPT ![l] = e]
      BY <2>2, <3>1, <3>2
    <3>7. QED BY <1>6, <3>5, <3>6
  <2>3. QED BY <1>4, <2>1, <2>2 DEF BodyReturns
<1>8. ops' \in 0 .. MaxOps
  BY <1>6 DEF FreeInv, FreeTypes
<1>9. QED BY <1>7, <1>8, FreeStep

\* An exception takes every frame: no process is there to catch it.
LEMMA FreeThrows ==
  ASSUME FreeInv, Throws
  PROVE  FreeInv'
<1>1. /\ stack \in Seq(FreeFrame)
      /\ \A k \in DOMAIN stack : stack[k].frame \in {"fire", "body"}
  <2>1. stack \in Seq(FreeFrame)
    BY DEF FreeInv, FreeTypes
  <2>2. \A k \in DOMAIN stack : stack[k] \in FreeFrame
    BY <2>1, InSeq
  <2>3. QED BY <2>1, <2>2, FreeFrames
<1>2. ~On("foreign")
  <2>1. stack # <<>> => Len(stack) \in DOMAIN stack
    BY <1>1
  <2>2. stack # <<>> => stack[Len(stack)].frame \in {"fire", "body"}
    BY <1>1, <2>1
  <2>3. QED BY <2>2 DEF On, Idle, Top
<1>3. Operation /\ answers' = answers
  BY <1>2 DEF Throws
<1>4. {k \in DOMAIN stack : stack[k].frame = "process"} = {}
  BY <1>1
<1>5. stack' = <<>> /\ lists' = lists
  BY <1>4 DEF Throws
<1>6. heard' = heard /\ emptied' = emptied /\ UNCHANGED <<deferredVars, historyVars>>
  BY <1>3 DEF Throws, historyVars
<1>7. FreeShape(lists, stack', heard, emptied)
  BY <1>5, FreeNow, FreePrefix
<1>8. FreeShape(lists', stack', heard', emptied')
  BY <1>5, <1>6, <1>7
<1>9. QED BY <1>3, <1>6, <1>8, FreeOps, FreeStep

\* Without deferreds, nothing of what is done with them can happen.
LEMMA FreeQuiet ==
  ASSUME FreeInv
  PROVE  /\ \A d \in Deferreds : ~Made(d)
         /\ ~On("handler") /\ ~On("process") /\ ~On("foreign") /\ ~On("when")
         /\ timers = <<>> /\ hooks = {}
         /\ \A l, kind : kind # "call" => ~Reaches(l, kind)
<1>1. (\A d \in Deferreds : ~Made(d)) /\ timers = <<>> /\ hooks = {}
  BY DEF FreeInv, NoDeferreds, Made
<1>2. stack # <<>> => stack[Len(stack)].frame \in {"fire", "body"}
  <2>1. stack \in Seq(FreeFrame)
    BY DEF FreeInv, FreeTypes
  <2>2. SUFFICES ASSUME stack # <<>> PROVE stack[Len(stack)] \in FreeFrame
    BY FreeFrames
  <2>3. Len(stack) \in DOMAIN stack
    BY <2>1, <2>2
  <2>4. QED BY <2>1, <2>3, InSeq
<1>3. ~On("handler") /\ ~On("process") /\ ~On("foreign") /\ ~On("when")
  BY <1>2 DEF On, Idle, Top
<1>4. ASSUME NEW l, NEW kind, kind # "call", Reaches(l, kind) PROVE FALSE
  <2>1. l \in FreeLists
    BY <1>4, FreeTop DEF Reaches
  <2>2. lists[l] \in CallbackList /\ FreeList(l, lists[l], heard, emptied)
    BY <2>1, FreeNow
  <2>3. lists[l].firingIndex + 1 \in DOMAIN lists[l].list
    BY <1>4, <2>2 DEF Reaches, CallbackList
  <2>4. QED BY <1>4, <2>2, <2>3 DEF Reaches, FreeList
<1>5. QED BY <1>1, <1>3, <1>4

LEMMA FreeApplication ==
  ASSUME FreeInv, Application
  PROVE  FreeInv'
<1>1. CASE \E l \in FreeLists \cap DOMAIN lists :
              ListStep(l) /\ UNCHANGED <<deferredVars, historyVars>>
  <2>1. PICK l \in FreeLists : ListStep(l) /\ UNCHANGED <<deferredVars, historyVars>>
    BY <1>1
  <2>2. QED BY <2>1, ListAddInv, ListFireInv, ListChangeInv DEF ListStep
<1>2. CASE \E d \in Deferreds, on \in Ons : Answer(d, on) \/ Register(d, on)
  BY <1>2, FreeQuiet DEF Answer, Register
<1>3. CASE \E d, nd \in Deferreds : CallThen(d, nd)
  BY <1>3, FreeQuiet DEF CallThen
<1>4. CASE \E m \in Deferreds : CallWhen(m)
  <2>1. PICK m \in Deferreds : CallWhen(m)
    BY <1>4
  <2>2. PICK a \in [1 .. 2 -> {0} \cup {d \in Deferreds : Made(d)}] : a[1] + a[2] > 0
    BY <2>1 DEF CallWhen
  <2>3. {d \in Deferreds : Made(d)} = {}
    BY FreeQuiet
  <2>4. a[1] = 0 /\ a[2] = 0
    BY <2>2, <2>3
  <2>5. QED BY <2>2, <2>4
<1>5. CASE \E e \in Deferreds : HandlerReturnsPromise(e)
  BY <1>5, FreeQuiet DEF HandlerReturnsPromise
<1>6. CASE HandlerReturnsForeign
  BY <1>6, FreeQuiet DEF HandlerReturnsForeign
<1>7. CASE \E h \in hooks : HookIgnored(h) \/ HookSettles(h) \/ HookFollows(h)
  BY <1>7, FreeQuiet
<1>8. CASE Throws
  BY <1>8, FreeThrows
<1>9. QED BY <1>1, <1>2, <1>3, <1>4, <1>5, <1>6, <1>7, <1>8 DEF Application

LEMMA FreeEngine ==
  ASSUME FreeInv, Engine
  PROVE  FreeInv'
<1>1. CASE \E l \in DOMAIN lists : /\ RunCallback(l) \/ RoundEnds(l)
                                   /\ UNCHANGED <<deferredVars, historyVars>>
  BY <1>1, FreeRunCallback, FreeRoundEnds
<1>2. CASE BodyReturns /\ UNCHANGED <<deferredVars, historyVars>>
  BY <1>2, FreeBodyReturns
<1>3. CASE \E d \in Deferreds, on \in Ons : RunPrologue(d, on)
  BY <1>3, FreeQuiet DEF RunPrologue
<1>4. CASE \E d \in Deferreds : RunUpdate(d) \/ RunReject(d)
  BY <1>4, FreeQuiet DEF RunUpdate, RunReject
<1>5. CASE HandlerReturns \/ Returns \/ WhenAdopts \/ FireTimer
  BY <1>5, FreeQuiet, Zenon DEF HandlerReturns, Returns, WhenAdopts, FireTimer
<1>6. QED BY <1>1, <1>2, <1>3, <1>4, <1>5 DEF Engine

LEMMA FreeInvNext ==
  ASSUME FreeInv, [Next]_allVars
  PROVE  FreeInv'
<1>1. CASE Next
  BY <1>1, FreeApplication, FreeEngine DEF Next
<1>2. CASE UNCHANGED allVars
  <2>1. /\ lists' = lists /\ stack' = stack /\ heard' = heard /\ emptied' = emptied
        /\ ops' = ops /\ UNCHANGED <<deferredVars, historyVars>>
    BY <1>2 DEF allVars, callbackVars
  <2>2. FreeShape(lists', stack', heard', emptied') /\ ops' \in 0 .. MaxOps
    BY <2>1, FreeNow DEF FreeInv, FreeTypes
  <2>3. QED BY <2>1, <2>2, FreeStep
<1>3. QED BY <1>1, <1>2

LEMMA FreeInvInit ==
  ASSUME InitFree, InitRest
  PROVE  FreeInv
<1>1. PICK o \in [FreeLists -> Options] :
          /\ lists = [l \in FreeLists |-> NewList(o[l], <<>>)]
          /\ state = [d \in Deferreds |-> "unused"]
  BY DEF InitFree
<1>2. NoDeferreds
  BY <1>1 DEF InitRest, NoDeferreds
<1>3. /\ stack = <<>> /\ heard = <<>> /\ emptied = {} /\ ops = 0
      /\ DOMAIN stack = {} /\ MaxOps \in Nat
  BY CallbacksAssumption DEF InitRest
<1>4. \A l \in FreeLists : lists[l] \in CallbackList /\ FreeList(l, lists[l], heard, emptied)
  <2>1. SUFFICES ASSUME NEW l \in FreeLists
                 PROVE  lists[l] \in CallbackList /\ FreeList(l, lists[l], heard, emptied)
    OBVIOUS
  <2>2. PICK c : c = NewList(o[l], <<>>)
    OBVIOUS
  <2>3. o[l] \in SUBSET Flags
    BY DeferredAssumption
  <2>4. /\ c.options = o[l] /\ c.list = <<>> /\ ~c.spent
        /\ c.queue = <<>> /\ c.firingIndex = 0 /\ ~c.firing /\ ~c.locked
        /\ c.memory = NoData
        /\ c.spent \in BOOLEAN /\ c.firing \in BOOLEAN /\ c.locked \in BOOLEAN
    BY <2>2 DEF NewList
  <2>5. c \in CallbackList
    <3>1. c = [options |-> c.options, list |-> c.list, spent |-> c.spent,
               queue |-> c.queue, firingIndex |-> c.firingIndex,
               firing |-> c.firing, locked |-> c.locked, memory |-> c.memory]
      BY <2>2 DEF NewList
    <3>2. c.options \in SUBSET Flags
      BY <2>3, <2>4
    <3>3. c.list \in Seq(Callback) /\ c.queue \in Seq(Datum)
      BY <2>4, NoCallbacks
    <3>4. /\ c.spent \in BOOLEAN /\ c.firingIndex \in Nat /\ c.firing \in BOOLEAN
          /\ c.locked \in BOOLEAN /\ c.memory \in Datum \cup {NoData}
      BY <2>4
    <3>5. QED BY <3>1, <3>2, <3>3, <3>4, CallbackListFields
  <2>6. DOMAIN c.list = {} /\ Len(c.list) = 0
    BY <2>4
  <2>7. Told(l, c, heard)
    BY <2>4 DEF Told
  <2>8. FreeList(l, c, heard, emptied)
    BY <2>4, <2>6, <2>7 DEF FreeList
  <2>9. lists[l] = c
    BY <1>1, <2>2
  <2>10. QED BY <2>5, <2>8, <2>9
<1>5. lists \in [FreeLists -> CallbackList]
  BY <1>1, <1>4
<1>6. FreeTypes
  BY <1>3, <1>5 DEF FreeTypes
<1>7. OneLoop(lists, stack)
  BY <1>3 DEF OneLoop
<1>8. QED BY <1>2, <1>4, <1>6, <1>7 DEF FreeInv

\* The inductive invariant: deferreds, or lists of the application.
THEOREM DeferredInductive == Spec => []DeferredIInv
<1>1. Init => DeferredIInv
  BY InitCases, FreeInvInit, DInvInit DEF DeferredIInv
<1>2. DeferredIInv /\ [Next]_allVars => DeferredIInv'
  <2> SUFFICES ASSUME DeferredIInv, [Next]_allVars PROVE DeferredIInv'
    OBVIOUS
  <2>1. CASE FreeInv
    BY <2>1, FreeInvNext DEF DeferredIInv
  <2>2. CASE DInv
    BY <2>2, DInvNext, DInvStutters DEF DeferredIInv
  <2>3. QED BY <2>1, <2>2 DEF DeferredIInv
<1>3. QED BY <1>1, <1>2, PTL DEF Spec

-----------------------------------------------------------------------------
(* What the invariant says.                                                *)

LEMMA FreeTypeOK ==
  ASSUME FreeInv
  PROVE  DeferredInv
<1>1. /\ DOMAIN lists = FreeLists /\ \A l \in DOMAIN lists : lists[l] \in CallbackList
  BY FreeNow
<1>2. DeferredTypeOK
  <2>1. state \in [Deferreds -> {"unused", "pending"} \cup Settled]
    BY DEF FreeInv, NoDeferreds
  <2>2. <<>> \in Seq(Then) /\ <<>> \in Seq(Timer) /\ <<>> \in Seq(0 .. MaxDeferred)
    OBVIOUS
  <2>3. /\ thens \in [Deferreds -> Seq(Then)] /\ timers \in Seq(Timer)
        /\ args \in [Deferreds -> Seq(0 .. MaxDeferred)]
        /\ \A d \in Deferreds : thens[d] = <<>>
    BY <2>2 DEF FreeInv, NoDeferreds
  <2>4. /\ maxDepth \in [Deferreds -> Nat] /\ remaining \in [Deferreds -> Nat]
        /\ hooks \subseteq [to : Deferreds, depth : Nat \ {0}]
    BY DEF FreeInv, NoDeferreds
  <2>5. QED BY <1>1, <2>1, <2>3, <2>4 DEF DeferredTypeOK
<1>3. CaughtUp
  <2>1. SUFFICES ASSUME NEW l \in FreeLists, l \notin emptied, "memory" \in lists[l].options,
                        ~lists[l].firing, lists[l].memory # NoData,
                        NEW f \in ToSet(lists[l].list)
                 PROVE  [of |-> l, n |-> f.n, v |-> lists[l].memory] \in ToSet(heard)
    BY DEF CaughtUp
  <2>2. PICK k \in DOMAIN lists[l].list : f = lists[l].list[k]
    BY DEF ToSet
  <2>3. Told(l, lists[l], heard)
    BY <2>1, FreeNow DEF FreeList
  <2>4. QED BY <2>1, <2>2, <2>3 DEF Told
<1>4. QED BY <1>2, <1>3 DEF DeferredInv

LEMMA DInvTypeOK ==
  ASSUME DInv
  PROVE  DeferredInv
<1>1. CoreInv /\ WaitsInv
  BY DEF DInv
<1>2. DOMAIN lists = Lists /\ FreeLists \cap DOMAIN lists = {}
  BY <1>1, NoFreeLists
<1>3. \A l \in DOMAIN lists : lists[l] \in CallbackList
  <2>1. Sound(lists, stack, state, registered, args)
    BY <1>1 DEF CoreInv
  <2>2. QED BY <1>2, <2>1, SoundTypes
<1>4. remaining \in [Deferreds -> Nat]
  <2>1. remaining \in [Deferreds -> Int]
    BY <1>1 DEF CoreInv, DeferredTypes
  <2>2. ASSUME NEW m \in Deferreds PROVE remaining[m] \in Nat
    <3>1. CASE args[m] = <<>>
      BY <1>1, <3>1 DEF WaitsInv
    <3>2. CASE args[m] # <<>>
      <4>1. Counts(m, remaining[m], lists, stack, state, args)
        BY <1>1, <3>2 DEF WaitsInv, WaitsOf
      <4>2. PICK x : x = Outstanding(m, lists, stack)
        OBVIOUS
      <4>3. IsFiniteSet(x) /\ remaining[m] >= Cardinality(x)
        BY <4>1, <4>2 DEF Counts
      <4>4. Cardinality(x) \in Nat
        BY <4>3, FS_CardinalityType
      <4>5. QED BY <2>1, <4>3, <4>4
    <3>3. QED BY <3>1, <3>2
  <2>3. QED BY <2>1, <2>2
<1>5. DeferredTypeOK
  <2>1. /\ state \in [Deferreds -> {"unused", "pending"} \cup Settled]
        /\ thens \in [Deferreds -> Seq(Then)] /\ timers \in Seq(Timer)
        /\ maxDepth \in [Deferreds -> Nat] /\ hooks \subseteq [to : Deferreds, depth : Nat \ {0}]
        /\ args \in [Deferreds -> Seq(0 .. MaxDeferred)]
    BY <1>1 DEF CoreInv, DeferredTypes
  <2>2. \A d \in Deferreds : state[d] # "pending" => thens[d] = <<>>
    BY <1>1 DEF CoreInv, Sources
  <2>3. DOMAIN lists \subseteq FreeLists \cup (Deferreds \X Ons)
    BY <1>2 DEF Lists
  <2>4. QED BY <1>3, <1>4, <2>1, <2>2, <2>3 DEF DeferredTypeOK
<1>6. CaughtUp
  BY <1>2 DEF CaughtUp
<1>7. QED BY <1>5, <1>6 DEF DeferredInv

\* A list that settled its deferred and is not being fired was fired.
LEMMA IdleFired ==
  ASSUME CoreInv, Idle, NEW d \in Deferreds, NEW on \in Outcomes, state[d] = Final(on),
         ~Abandoned(<<d, on>>)
  PROVE  FiredList(lists[<<d, on>>]) /\ Ahead(lists[<<d, on>>]) = {}
<1>1. Sound(lists, stack, state, registered, args) /\ Quiet(lists)
  BY Calm DEF CoreInv
<1>2. SettledPhase(d, on, state, lists)
  BY <1>1, QuietPhases DEF Sound
<1>3. ~lists[<<d, on>>].firing
  <2>1. DOMAIN stack = {}
    BY DEF Idle
  <2>2. QED BY <2>1 DEF Abandoned
<1>4. FiredList(lists[<<d, on>>])
  BY <1>2, <1>3 DEF SettledPhase, GoingList
<1>5. lists[<<d, on>>].list = <<>>
  BY <1>4 DEF FiredList
<1>6. QED BY <1>4, <1>5 DEF Ahead

LEMMA FinalOther ==
  \A on \in Outcomes : /\ Final(on) # Final(Other(on)) /\ Other(on) \in Outcomes
                       /\ Final(on) \in Settled
BY DEF Outcomes, Final, Other, Settled

LEMMA InOrder ==
  ASSUME DInv, NEW d \in Deferreds, NEW on \in Outcomes
  PROVE  /\ \A j, k \in CallsOf(d, on) : j < k => heard[j].n < heard[k].n
         /\ \A k \in CallsOf(d, on) :
               /\ heard[k].n \in RegisteredFor(d, on)
               /\ \A n \in RegisteredFor(d, on) :
                     n < heard[k].n => \E j \in CallsOf(d, on) : heard[j].n = n
         /\ Idle /\ state[d] = Final(on) /\ ~Abandoned(<<d, on>>)
            => \A n \in RegisteredFor(d, on) : \E j \in CallsOf(d, on) : heard[j].n = n
<1>1. OrderOf(d, on) /\ HeardRegistered /\ CoreInv
  BY DEF DInv, OrderInv
<1>2. registered \in Seq([of : Deferreds, on : Ons])
  BY <1>1 DEF CoreInv, DeferredTypes
<1> DEFINE c == lists[<<d, on>>]
<1>3. /\ \A j, k \in CallsOf(d, on) : j < k => heard[j].n < heard[k].n
      /\ \A j \in CallsOf(d, on) : \A k \in AheadCalls(c) : heard[j].n < c.list[k].n
      /\ \A n \in RegisteredFor(d, on) :
            \/ \E k \in CallsOf(d, on) : heard[k].n = n
            \/ \E k \in AheadCalls(c) : c.list[k].n = n
            \/ state[d] = Final(Other(on))
      /\ \A k \in CallsOf(d, on) : state[d] = Final(on)
  BY <1>1 DEF OrderOf, Ordered
<1> HIDE DEF c
<1>4. ASSUME NEW k \in CallsOf(d, on)
      PROVE  /\ heard[k].n \in RegisteredFor(d, on) /\ heard[k].n \in Nat
             /\ \A n \in RegisteredFor(d, on) :
                   n < heard[k].n => \E j \in CallsOf(d, on) : heard[j].n = n
  <2>1. PICK n : n = heard[k].n
    OBVIOUS
  <2>2. n \in DOMAIN registered /\ <<registered[n].of, registered[n].on>> = <<d, on>>
    BY <1>1, <1>4, <2>1 DEF HeardRegistered, CallsOf
  <2>3. registered[n] \in [of : Deferreds, on : Ons] /\ n \in Nat
    <3>1. registered[n] \in [of : Deferreds, on : Ons]
      BY <1>2, <2>2, InSeq
    <3>2. n \in Nat
      BY <1>2, <2>2
    <3>3. QED BY <3>1, <3>2
  <2>4. registered[n] = [of |-> d, on |-> on]
    BY <2>2, <2>3
  <2>5. n \in RegisteredFor(d, on)
    BY <2>2, <2>4 DEF RegisteredFor
  <2>6. ASSUME NEW x \in RegisteredFor(d, on), x < n, ~\E j \in CallsOf(d, on) : heard[j].n = x
        PROVE  FALSE
    <3>1. state[d] # Final(Other(on))
      BY <1>3, FinalOther
    <3>2. PICK i \in AheadCalls(c) : c.list[i].n = x
      BY <1>3, <2>6, <3>1
    <3>3. n < x
      BY <1>3, <2>1, <3>2
    <3>4. x \in Nat
      BY <1>2 DEF RegisteredFor
    <3>5. QED BY <2>3, <2>6, <3>3, <3>4
  <2>7. QED BY <2>1, <2>3, <2>5, <2>6
<1>5. ASSUME Idle, state[d] = Final(on), ~Abandoned(<<d, on>>), NEW n \in RegisteredFor(d, on)
      PROVE  \E j \in CallsOf(d, on) : heard[j].n = n
  <2>1. Ahead(c) = {}
    BY <1>1, <1>5, IdleFired DEF c
  <2>2. AheadCalls(c) = {}
    BY <2>1 DEF AheadCalls
  <2>3. QED BY <1>3, <1>5, <2>2, FinalOther
<1>6. QED BY <1>3, <1>4, <1>5

LEMMA FreeInOrder ==
  ASSUME FreeInv
  PROVE  HeardInOrder
<1>1. registered = <<>> /\ heard \in Seq([of : FreeLists, n : Nat, v : Nat])
  BY DEF FreeInv, FreeTypes, NoDeferreds
<1>2. ASSUME NEW d \in Deferreds, NEW on \in {"done", "fail"}
      PROVE  CallsOf(d, on) = {} /\ RegisteredFor(d, on) = {}
  <2>1. RegisteredFor(d, on) = {}
    BY <1>1 DEF RegisteredFor
  <2>2. <<d, on>> \notin FreeLists
    BY DeferredAssumption DEF Deferreds
  <2>3. ASSUME NEW k \in CallsOf(d, on) PROVE FALSE
    <3>1. heard[k] \in [of : FreeLists, n : Nat, v : Nat]
      BY <1>1, InSeq DEF CallsOf
    <3>2. QED BY <2>2, <3>1 DEF CallsOf
  <2>4. QED BY <2>1, <2>3
<1>3. QED BY <1>2 DEF HeardInOrder

LEMMA DecidesOnce ==
  ASSUME DInv
  PROVE  FirstAnswerDecides
<1>1. SUFFICES ASSUME NEW d \in Deferreds, NEW k \in DOMAIN answers,
                      \/ lists[<<d, "done">>].memory = answers[k].v
                      \/ lists[<<d, "fail">>].memory = answers[k].v,
                      NEW j \in 1 .. k - 1
               PROVE  answers[j].hook # answers[k].hook
  BY DEF FirstAnswerDecides
<1>2. PICK on \in Outcomes : lists[<<d, on>>].memory = answers[k].v
  BY <1>1 DEF Outcomes
<1>3. Heedable(lists[<<d, on>>].memory, answers)
  BY DEF DInv, AnswersInv
<1>4. ~Late(k, answers)
  BY <1>1, <1>2, <1>3 DEF Heedable
<1>5. QED BY <1>4 DEF Late

\* The deferreds that m was made from.
ArgsOf(m) == {args[m][i] : i \in DOMAIN args[m]} \ {0}

\* The arguments of m, all of which `when' has looked at.
LEMMA AllAdopted ==
  ASSUME CoreInv, NEW m \in Deferreds, args[m] # <<>>, Unadopted(m, stack) = {}
  PROVE  Adopted(m, stack, args) = ArgsOf(m)
<1>1. DOMAIN args[m] = 1 .. 2
  BY GivenAll
<1>2. QED BY <1>1 DEF Adopted, ArgsOf

\* Where nothing is outstanding, all arguments were looked at, none is to be
\* counted.
LEMMA NothingOutstanding ==
  ASSUME NEW m \in Deferreds, NEW ls, NEW s, Outstanding(m, ls, s) = {}, OnceLists(ls)
  PROVE  /\ Unadopted(m, s) = {}
         /\ \A d \in Deferreds : Places(ls[<<d, "done">>], Update(m)) = {}
<1>1. Unadopted(m, s) = {}
  <2>1. \A i \in Unadopted(m, s) : <<0, i>> \in {0} \X Unadopted(m, s)
    OBVIOUS
  <2>2. QED BY <2>1 DEF Outstanding
<1>2. ASSUME NEW d \in Deferreds, NEW k \in Places(ls[<<d, "done">>], Update(m)) PROVE FALSE
  <2>1. k \in Nat
    BY <1>2, PlacesNat DEF OnceLists, Outcomes
  <2>2. <<d, k>> \in Updates(m, ls)
    BY <1>2, <2>1 DEF Updates
  <2>3. QED BY <2>2 DEF Outstanding
<1>3. QED BY <1>1, <1>2

LEMMA NoOutstanding ==
  ASSUME NEW m \in Deferreds, NEW ls, NEW s, Unadopted(m, s) = {},
         \A d \in Deferreds : Places(ls[<<d, "done">>], Update(m)) = {}
  PROVE  Outstanding(m, ls, s) = {}
BY DEF Outstanding, Updates

\* What WhenWaits says of m, made from the deferreds given.
WhenRight(m, given) ==
    /\ state[m] = "resolved" => \A d \in given : state[d] = "resolved"
    /\ state[m] = "rejected" => \E d \in given : state[d] = "rejected"
    /\ /\ Idle /\ state[m] = "pending"
       /\ \A d \in given, on \in Ons : ~Abandoned(<<d, on>>)
       => /\ \E d \in given : state[d] = "pending"
          /\ \A d \in given : state[d] # "rejected"

LEMMA WhenParts ==
  (\A m \in Deferreds : ArgsOf(m) # {} => WhenRight(m, ArgsOf(m))) => WhenWaits
BY DEF WhenWaits, WhenRight, ArgsOf

\* Of the arguments, pending means that both callbacks are to come.
LEMMA WaitsFor ==
  ASSUME DInv, NEW m \in Deferreds, args[m] # <<>>,
         NEW given, given = ArgsOf(m)
  PROVE  WhenRight(m, given)
<1>1. /\ CoreInv /\ WaitsOf(m, remaining[m], lists, stack, state, args)
      /\ Sound(lists, stack, state, registered, args) /\ OnceLists(lists)
      /\ remaining[m] \in Int
  BY DEF DInv, WaitsInv, CoreInv, DeferredTypes, Sound
<1>2. /\ DOMAIN args[m] = 1 .. 2
      /\ \A d \in given : d \in Deferreds /\ state[d] \in {"pending", "resolved", "rejected"}
  <2>1. /\ DOMAIN args[m] = 1 .. 2
        /\ \A i \in 1 .. 2 : args[m][i] # 0 => args[m][i] \in Deferreds /\ Made(args[m][i])
    BY <1>1, GivenAll
  <2>2. \A d \in Deferreds : state[d] \in {"unused", "pending"} \cup Settled
    BY <1>1 DEF CoreInv, DeferredTypes
  <2>3. QED BY <2>1, <2>2 DEF Made, Settled, ArgsOf
<1>3. PICK x : x = Outstanding(m, lists, stack)
  OBVIOUS
<1>4. /\ IsFiniteSet(x) /\ remaining[m] >= Cardinality(x) /\ Cardinality(x) \in Nat
      /\ SomeRejected(m, state, stack, args) => remaining[m] > Cardinality(x)
      /\ ~SomeRejected(m, state, stack, args) => remaining[m] = Cardinality(x)
  <2>1. Counts(m, remaining[m], lists, stack, state, args)
    BY <1>1 DEF WaitsOf
  <2>2. IsFiniteSet(x)
    BY <1>3, <2>1 DEF Counts
  <2>3. QED BY <1>3, <2>1, <2>2, FS_CardinalityType DEF Counts
<1>5. ASSUME state[m] = "resolved" PROVE \A d \in given : state[d] = "resolved"
  <2>1. SettledPhase(m, "done", state, lists)
    <3>1. Phase(m, state, lists, stack)
      BY <1>1 DEF Sound, Phases
    <3>2. QED BY <1>5, <3>1 DEF Phase, FreshPhase, StartingPhase, SettledPhase, Outcomes, Final
  <2>2. lists[<<m, "done">>].memory # NoData
    BY <2>1, DataDatum DEF SettledPhase, GoingList, FiredList
  <2>3. remaining[m] = 0
    BY <1>1, <2>2 DEF WaitsOf
  <2>4. ~SomeRejected(m, state, stack, args) /\ Cardinality(x) = 0
    BY <1>4, <2>3
  <2>5. x = {}
    BY <1>4, <2>4, FS_EmptySet
  <2>6. /\ Unadopted(m, stack) = {}
        /\ \A d \in Deferreds : Places(lists[<<d, "done">>], Update(m)) = {}
    BY <1>1, <1>3, <2>5, NothingOutstanding
  <2>7. Adopted(m, stack, args) = given
    BY <1>1, <2>6, AllAdopted
  <2>8. \A d \in given : state[d] # "pending"
    BY <1>1, <1>2, <2>6, <2>7 DEF WaitsOf
  <2>9. \A d \in given : state[d] # "rejected"
    BY <2>4, <2>7 DEF SomeRejected
  <2>10. QED BY <1>2, <2>8, <2>9
<1>6. ASSUME state[m] = "rejected" PROVE \E d \in given : state[d] = "rejected"
  <2>1. SettledPhase(m, "fail", state, lists)
    <3>1. Phase(m, state, lists, stack)
      BY <1>1 DEF Sound, Phases
    <3>2. QED BY <1>6, <3>1 DEF Phase, FreshPhase, StartingPhase, SettledPhase, Outcomes, Final
  <2>2. lists[<<m, "fail">>].memory # NoData
    BY <2>1, DataDatum DEF SettledPhase, GoingList, FiredList
  <2>3. PICK d \in Deferreds : IsGiven(d, m, args) /\ state[d] = "rejected"
    BY <1>1, <2>2 DEF WaitsOf
  <2>4. d \in given
    BY <1>2, <2>3 DEF IsGiven, Deferreds, ArgsOf
  <2>5. QED BY <2>3, <2>4
<1>7. ASSUME Idle, state[m] = "pending", \A d \in given, on \in Ons : ~Abandoned(<<d, on>>)
      PROVE  /\ \E d \in given : state[d] = "pending"
             /\ \A d \in given : state[d] # "rejected"
  <2>1. Unadopted(m, stack) = {}
    <3>1. DOMAIN stack = {}
      BY <1>7 DEF Idle
    <3>2. QED BY <3>1 DEF Unadopted
  <2>2. Adopted(m, stack, args) = given
    BY <1>1, <2>1, AllAdopted
  <2>3. ~Decided(m, lists)
    <3>1. Quiet(lists)
      BY <1>1, <1>7, Calm
    <3>2. \A on \in Outcomes : Decided(m, lists) <=> state[m] \notin {"unused", "pending"}
      BY <1>1, <3>1, MemoryOf
    <3>3. QED BY <1>7, <3>2 DEF Outcomes
  <2>4. ASSUME NEW d \in given, NEW on \in Outcomes, state[d] = Final(on)
        PROVE  Ahead(lists[<<d, on>>]) = {}
    <3>1. ~Abandoned(<<d, on>>)
      BY <1>7, <2>4 DEF Outcomes, Ons
    <3>2. QED BY <1>1, <1>2, <1>7, <2>4, <3>1, IdleFired
  <2>5. \A d \in given : state[d] # "rejected"
    <3>1. SUFFICES ASSUME NEW d \in given, state[d] = "rejected" PROVE FALSE
      OBVIOUS
    <3>2. Ahead(lists[<<d, "fail">>]) = {}
      BY <2>4, <3>1 DEF Outcomes, Final
    <3>3. Places(lists[<<d, "fail">>], Reject(m)) = {}
      BY <3>2 DEF Places
    <3>4. QED BY <1>1, <2>2, <2>3, <3>1, <3>3 DEF WaitsOf
  <2>6. \E d \in given : state[d] = "pending"
    <3>1. SUFFICES ASSUME \A d \in given : state[d] # "pending" PROVE FALSE
      OBVIOUS
    <3>2. \A d \in given : state[d] = "resolved"
      BY <1>2, <2>5, <3>1
    <3>3. \A d \in given : Places(lists[<<d, "done">>], Update(m)) = {}
      BY <2>4, <3>2 DEF Places, Outcomes, Final
    <3>4. \A d \in Deferreds : Places(lists[<<d, "done">>], Update(m)) = {}
      BY <1>1, <2>2, <3>3 DEF WaitsOf
    <3>5. x = {}
      BY <1>3, <2>1, <3>4, NoOutstanding
    <3>6. ~SomeRejected(m, state, stack, args)
      BY <2>2, <2>5 DEF SomeRejected
    <3>7. Cardinality(x) = 0
      BY <3>5, FS_EmptySet
    <3>8. remaining[m] = 0
      BY <1>4, <3>6, <3>7
    <3>9. QED BY <1>1, <2>3, <3>8 DEF WaitsOf
  <2>7. QED BY <2>5, <2>6
<1>8. QED BY <1>5, <1>6, <1>7 DEF WhenRight

-----------------------------------------------------------------------------
(* The theorems.                                                           *)

\* The variables have their types; and a list of the application that has
\* memory is caught up, whatever its callbacks do to it while it is firing.
THEOREM DeferredSafe == Spec => []DeferredInv
<1>1. DeferredIInv => DeferredInv
  BY FreeTypeOK, DInvTypeOK DEF DeferredIInv
<1>2. QED BY <1>1, DeferredInductive, PTL

\* done and fail: callbacks are called in the order they were registered in,
\* each once, also those that callbacks register.
THEOREM CalledInOrder == Spec => []HeardInOrder
<1>1. DInv => HeardInOrder
  BY InOrder DEF HeardInOrder, Outcomes
<1>2. DeferredIInv => HeardInOrder
  BY <1>1, FreeInOrder DEF DeferredIInv
<1>3. QED BY <1>2, DeferredInductive, PTL

\* then: what a deferred is settled with is not the second answer of a
\* thenable, however late or often that calls its hooks, or throws.
THEOREM DecidedByFirstAnswer == Spec => []FirstAnswerDecides
<1>1. FreeInv => FirstAnswerDecides
  BY DEF FreeInv, NoDeferreds, FirstAnswerDecides
<1>2. DeferredIInv => FirstAnswerDecides
  BY <1>1, DecidesOnce DEF DeferredIInv
<1>3. QED BY <1>2, DeferredInductive, PTL

\* when: it is resolved only after all its arguments and rejected only after
\* one, and at rest it is not pending if they decide.
THEOREM WhenWaitsForAll == Spec => []WhenWaits
<1>1. FreeInv => WhenWaits
  <2> SUFFICES ASSUME FreeInv PROVE WhenWaits
    OBVIOUS
  <2>1. \A m \in Deferreds : args[m] = <<>>
    BY DEF FreeInv, NoDeferreds
  <2>2. \A m \in Deferreds : {args[m][i] : i \in DOMAIN args[m]} \ {0} = {}
    BY <2>1
  <2>3. QED BY <2>2 DEF WhenWaits
<1>2. DInv => WhenWaits
  <2> SUFFICES ASSUME DInv PROVE WhenWaits
    OBVIOUS
  <2>1. ASSUME NEW m \in Deferreds, ArgsOf(m) # {} PROVE WhenRight(m, ArgsOf(m))
    <3>1. args[m] # <<>>
      BY <2>1 DEF ArgsOf
    <3>2. QED BY <3>1, WaitsFor
  <2>2. QED BY <2>1, WhenParts
<1>3. DeferredIInv => WhenWaits
  BY <1>1, <1>2 DEF DeferredIInv
<1>4. QED BY <1>3, DeferredInductive, PTL

-----------------------------------------------------------------------------
(* Deferreds are promises.  What a deferred was settled with is what the   *)
(* list that settled it remembers: no step changes that.                   *)

SettledList(c) == OnceList(c) /\ (GoingList(c) \/ FiredList(c))

LEMMA MemoryKept ==
  ASSUME NEW c, SettledList(c)
  PROVE  /\ c.locked /\ c.queue = <<>>
         /\ \A v : FiredWith(c, v) = c
         /\ \A f \in Callback : f.kind # "prologue" => Added(c, f).memory = c.memory
         /\ Finished(c).memory = c.memory
<1>1. c.locked /\ c.queue = <<>>
  BY DEF SettledList, GoingList, FiredList, Still
<1>2. \A v : FiredWith(c, v) = c
  BY <1>1, FireLocked
<1>3. \A f \in Callback : f.kind # "prologue" => Added(c, f).memory = c.memory
  BY AddOnce DEF SettledList
<1>4. Finished(c).memory = c.memory
  <2>1. "memory" \in c.options /\ c \in CallbackList
    BY DEF SettledList, OnceList
  <2>2. QED BY <2>1 DEF Finished, CallbackList
<1>5. QED BY <1>1, <1>2, <1>3, <1>4

LEMMA SettledLists ==
  ASSUME CoreInv, NEW d \in Deferreds, NEW on \in Outcomes, state[d] = Final(on)
  PROVE  SettledList(lists[<<d, on>>]) /\ <<d, on>> \in DOMAIN lists
<1>1. Phase(d, state, lists, stack) /\ OnceList(lists[<<d, on>>]) /\ DOMAIN lists = Lists
  BY DEF CoreInv, Sound, Phases, OnceLists
<1>2. \A o \in Outcomes : state[d] = Final(o) => o = on
  BY DEF Final, Outcomes
<1>3. state[d] \notin {"unused", "pending"}
  BY FinalOther DEF Settled
<1>4. SettledPhase(d, on, state, lists)
  BY <1>1, <1>2, <1>3 DEF Phase, FreshPhase, StartingPhase, SettledPhase
<1>5. <<d, on>> \in Lists
  BY DEF Lists, Outcomes, Ons
<1>6. QED BY <1>1, <1>4, <1>5 DEF SettledPhase, SettledList

Keeps(ls) ==
    \A d \in Deferreds, on \in Outcomes :
        state[d] = Final(on) => ls[<<d, on>>].memory = lists[<<d, on>>].memory

\* The list l of the lists ls, which keep what lists keep, becomes e.
LEMMA KeepOne ==
  ASSUME NEW ls, Keeps(ls), DOMAIN ls = DOMAIN lists, NEW l, NEW e, CoreInv,
         ASSUME NEW d \in Deferreds, NEW on \in Outcomes, l = <<d, on>>, state[d] = Final(on)
         PROVE  e.memory = ls[l].memory
  PROVE  Keeps([ls EXCEPT ![l] = e])
<1>1. SUFFICES ASSUME NEW d \in Deferreds, NEW on \in Outcomes, state[d] = Final(on)
               PROVE  [ls EXCEPT ![l] = e][<<d, on>>].memory = lists[<<d, on>>].memory
  BY DEF Keeps
<1>2. ls[<<d, on>>].memory = lists[<<d, on>>].memory /\ <<d, on>> \in DOMAIN ls
  BY <1>1, SettledLists DEF Keeps
<1>3. CASE l = <<d, on>>
  <2>1. e.memory = ls[l].memory
    BY <1>1, <1>3
  <2>2. [ls EXCEPT ![l] = e][<<d, on>>] = e
    BY <1>2, <1>3
  <2>3. QED BY <1>2, <1>3, <2>1, <2>2
<1>4. CASE l # <<d, on>>
  <2>1. [ls EXCEPT ![l] = e][<<d, on>>] = ls[<<d, on>>]
    BY <1>2, <1>4
  <2>2. QED BY <1>2, <2>1
<1>5. QED BY <1>3, <1>4

LEMMA KeepSame == Keeps(lists)
BY DEF Keeps

\* fireWith does nothing to a list that settled its deferred.
LEMMA KeepFires ==
  ASSUME CoreInv, NEW ls, Keeps(ls), DOMAIN ls = DOMAIN lists,
         \A l \in DOMAIN lists : ls[l].locked = lists[l].locked,
         NEW l, NEW v, NEW s, Fires(ls, l, v, s)
  PROVE  Keeps(lists')
<1>1. lists' = [ls EXCEPT ![l] = FiredWith(ls[l], v)]
  BY DEF Fires
<1>2. ASSUME NEW d \in Deferreds, NEW on \in Outcomes, l = <<d, on>>, state[d] = Final(on)
      PROVE  FiredWith(ls[l], v).memory = ls[l].memory
  <2>1. lists[l].locked /\ l \in DOMAIN lists
    BY <1>2, SettledLists, MemoryKept
  <2>2. ls[l].locked
    BY <2>1
  <2>3. QED BY <2>2, FireLocked
<1>3. PICK e : e = FiredWith(ls[l], v)
  OBVIOUS
<1>4. Keeps([ls EXCEPT ![l] = e])
  BY <1>2, <1>3, KeepOne
<1>5. QED BY <1>1, <1>3, <1>4

LEMMA KeepFiresNow ==
  ASSUME CoreInv, NEW l, NEW v, NEW s, Fires(lists, l, v, s)
  PROVE  Keeps(lists')
BY KeepSame, KeepFires

LEMMA KeepAdds ==
  ASSUME CoreInv, NEW l, NEW f \in Callback, f.kind # "prologue", NEW s, Adds(l, f, s)
  PROVE  Keeps(lists')
<1>1. PICK e : e = Added(lists[l], f)
  OBVIOUS
<1>2. lists' = [lists EXCEPT ![l] = e]
  BY <1>1 DEF Adds
<1>3. ASSUME NEW d \in Deferreds, NEW on \in Outcomes, l = <<d, on>>, state[d] = Final(on)
      PROVE  e.memory = lists[l].memory
  <2>1. SettledList(lists[l])
    BY <1>3, SettledLists
  <2>2. QED BY <1>1, <2>1, MemoryKept
<1>4. Keeps([lists EXCEPT ![l] = e])
  BY <1>3, KeepOne, KeepSame
<1>5. QED BY <1>2, <1>4

LEMMA KeepPassed ==
  ASSUME CoreInv, NEW l
  PROVE  /\ Keeps(Passed(l)) /\ DOMAIN Passed(l) = DOMAIN lists
         /\ \A x \in DOMAIN lists : Passed(l)[x].locked = lists[x].locked
<1>1. \A x \in DOMAIN lists : lists[x] \in CallbackList
  <2>1. Sound(lists, stack, state, registered, args)
    BY DEF CoreInv
  <2>2. QED BY <2>1, SoundTypes
<1>2. DOMAIN Passed(l) = DOMAIN lists
  BY DEF Passed
<1>3. \A x \in DOMAIN lists : /\ Passed(l)[x].locked = lists[x].locked
                              /\ Passed(l)[x].memory = lists[x].memory
  <2>1. SUFFICES ASSUME NEW x \in DOMAIN lists
                 PROVE  /\ Passed(l)[x].locked = lists[x].locked
                        /\ Passed(l)[x].memory = lists[x].memory
    OBVIOUS
  <2>2. CASE x = l
    BY <1>1, <2>2 DEF Passed, CallbackList
  <2>3. CASE x # l
    BY <2>3 DEF Passed
  <2>4. QED BY <2>2, <2>3
<1>4. Keeps(Passed(l))
  BY <1>3, SettledLists DEF Keeps
<1>5. QED BY <1>2, <1>3, <1>4

-----------------------------------------------------------------------------
(* The steps, as those of promises.                                        *)

\* What most steps have in common: nothing is settled.
Moves == MoreMade /\ Keeps(lists') /\ ops' >= ops

\* Nothing is registered or called either.
Silent == Moves /\ heard' = heard /\ registered' = registered

LEMMA OpsGrow ==
  ASSUME CoreInv
  PROVE  ops' = ops \/ Operation => ops' >= ops
BY DEF CoreInv, DeferredTypes, Operation

LEMMA SilentFires ==
  ASSUME CoreInv, NEW l, NEW v, NEW s, Fires(lists, l, v, s) \/ lists' = lists,
         state' = state, heard' = heard, registered' = registered, ops' = ops \/ Operation
  PROVE  Silent
<1>1. Keeps(lists')
  BY KeepFiresNow, KeepSame
<1>2. QED BY <1>1, OpsGrow DEF Silent, Moves, MoreMade

LEMMA SilentCaught ==
  ASSUME CoreInv, NEW d, NEW k, NEW v, NEW s, Caught(d, k, v, s),
         state' = state, heard' = heard, registered' = registered, ops' = ops \/ Operation
  PROVE  Silent
BY SilentFires DEF Caught

LEMMA SilentMakes ==
  ASSUME CoreInv, NEW d \in Deferreds, New(d), state' = [state EXCEPT ![d] = "pending"],
         lists' = lists, heard' = heard, registered' = registered, Operation
  PROVE  Silent
<1>1. MoreMade
  BY DEF MoreMade, New, Made, CoreInv, DeferredTypes
<1>2. Keeps(lists')
  BY KeepSame
<1>3. QED BY <1>1, <1>2, OpsGrow DEF Silent, Moves

LEMMA SilentApplication ==
  ASSUME DInv, Application
  PROVE  Silent \/ \E d \in Deferreds, on \in Ons : Register(d, on)
<1>0. CoreInv /\ FreeLists \cap DOMAIN lists = {}
  BY NoFreeLists DEF DInv
<1>1. CASE \E d \in Deferreds, on \in Ons : Answer(d, on)
  BY <1>0, <1>1, SilentFires DEF Answer, deferredVars, historyVars
<1>2. CASE \E d, nd \in Deferreds : CallThen(d, nd)
  BY <1>0, <1>2, SilentMakes DEF CallThen
<1>3. CASE \E m \in Deferreds : CallWhen(m)
  BY <1>0, <1>3, SilentMakes DEF CallWhen, historyVars
<1>4. CASE \E e \in Deferreds : HandlerReturnsPromise(e)
  BY <1>0, <1>4, SilentFires DEF HandlerReturnsPromise, historyVars
<1>5. CASE HandlerReturnsForeign
  BY <1>0, <1>5, SilentFires DEF HandlerReturnsForeign, FollowsForeign, historyVars
<1>6. CASE \E h \in hooks : HookIgnored(h) \/ HookSettles(h) \/ HookFollows(h)
  <2>1. PICK h \in hooks : HookIgnored(h) \/ HookSettles(h) \/ HookFollows(h)
    BY <1>6
  <2>2. ops' = ops
    BY <2>1 DEF HookIgnored, HookSettles, HookFollows, Calls
  <2>3. CASE HookIgnored(h)
    BY <1>0, <2>2, <2>3, SilentFires DEF HookIgnored, deferredVars
  <2>4. CASE HookSettles(h)
    <3>1. /\ state' = state /\ heard' = heard /\ registered' = registered
          /\ \/ Fires(lists, <<h.to, "done">>, NewAnswer, Append(stack, ProcessFrame(h.to, h.depth)))
             \/ Caught(h.to, h.depth, NewAnswer, stack)
      BY <2>4 DEF HookSettles, deferredVars
    <3>2. QED BY <1>0, <2>2, <3>1, SilentFires, SilentCaught
  <2>5. CASE HookFollows(h)
    BY <1>0, <2>2, <2>5, SilentFires DEF HookFollows, FollowsForeign
  <2>6. QED BY <2>1, <2>3, <2>4, <2>5
<1>7. CASE Throws
  <2>1. /\ state' = state /\ heard' = heard /\ registered' = registered
        /\ ops' = ops \/ Operation
    BY <1>7 DEF Throws, deferredVars
  <2>2. lists' = lists \/ \E d, k, v, s : Caught(d, k, v, s)
    BY <1>7 DEF Throws
  <2>3. QED BY <1>0, <2>1, <2>2, SilentFires, SilentCaught
<1>8. QED BY <1>0, <1>1, <1>2, <1>3, <1>4, <1>5, <1>6, <1>7 DEF Application

LEMMA SilentRoundEnds ==
  ASSUME DInv, NEW l, RoundEnds(l), UNCHANGED <<deferredVars, historyVars>>
  PROVE  Silent
<1>1. /\ CoreInv /\ state' = state /\ heard' = heard /\ registered' = registered /\ ops' = ops
  BY DEF RoundEnds, DInv, deferredVars, historyVars
<1>2. PICK e : /\ lists' = [lists EXCEPT ![l] = e]
               /\ IF lists[l].queue # <<>> THEN e = Rewound(lists[l]) ELSE e = Finished(lists[l])
  <2>1. CASE lists[l].queue # <<>>
    BY <2>1 DEF RoundEnds
  <2>2. CASE lists[l].queue = <<>>
    BY <2>2 DEF RoundEnds
  <2>3. QED BY <2>1, <2>2
<1>3. ASSUME NEW d \in Deferreds, NEW on \in Outcomes, l = <<d, on>>, state[d] = Final(on)
      PROVE  e.memory = lists[l].memory
  <2>1. SettledList(lists[l])
    BY <1>1, <1>3, SettledLists
  <2>2. QED BY <1>2, <2>1, MemoryKept
<1>4. Keeps([lists EXCEPT ![l] = e])
  BY <1>1, <1>3, KeepOne, KeepSame
<1>5. QED BY <1>1, <1>2, <1>4, OpsGrow DEF Silent, Moves, MoreMade

LEMMA SilentBodyReturns ==
  ASSUME DInv, BodyReturns, UNCHANGED <<deferredVars, historyVars>>
  PROVE  Silent
<1>1. /\ CoreInv /\ state' = state /\ heard' = heard /\ registered' = registered /\ ops' = ops
  BY DEF BodyReturns, DInv, deferredVars, historyVars
<1>2. PICK l : \/ lists' = lists
               \/ /\ "stopOnFalse" \in lists[l].options
                  /\ lists' = [lists EXCEPT ![l] = Stopped(lists[l])]
  BY DEF BodyReturns
<1>3. CASE lists' = lists
  BY <1>1, <1>3, SilentFires
<1>4. CASE /\ "stopOnFalse" \in lists[l].options
           /\ lists' = [lists EXCEPT ![l] = Stopped(lists[l])]
  <2>1. PICK e : lists' = [lists EXCEPT ![l] = e]
    BY <1>4
  <2>2. ASSUME NEW d \in Deferreds, NEW on \in Outcomes, l = <<d, on>>, state[d] = Final(on)
        PROVE  FALSE
    <3>1. OnceList(lists[l])
      BY <1>1, <2>2, SettledLists DEF SettledList
    <3>2. QED BY <1>4, <3>1 DEF OnceList
  <2>3. Keeps([lists EXCEPT ![l] = e])
    BY <1>1, <2>2, KeepOne, KeepSame
  <2>4. QED BY <1>1, <2>1, <2>3, OpsGrow DEF Silent, Moves, MoreMade
<1>5. QED BY <1>2, <1>3, <1>4

LEMMA SilentCounted ==
  ASSUME CoreInv, NEW ls, Keeps(ls), DOMAIN ls = DOMAIN lists,
         \A l \in DOMAIN lists : ls[l].locked = lists[l].locked,
         NEW l, NEW v, NEW s, Fires(ls, l, v, s) \/ lists' = ls,
         state' = state, heard' = heard, registered' = registered, ops' = ops
  PROVE  Silent
<1>1. CASE lists' = ls
  BY <1>1, OpsGrow DEF Silent, Moves, MoreMade
<1>2. CASE Fires(ls, l, v, s)
  <2>1. Keeps(lists')
    BY <1>2, KeepFires
  <2>2. QED BY <2>1, OpsGrow DEF Silent, Moves, MoreMade
<1>3. QED BY <1>1, <1>2

LEMMA SilentCounts ==
  ASSUME DInv, NEW d \in Deferreds, RunUpdate(d) \/ RunReject(d)
  PROVE  Silent
<1>1. CoreInv
  BY DEF DInv
<1>2. /\ state' = state /\ heard' = heard /\ registered' = registered /\ ops' = ops
      /\ \E l0, l, v, s : Fires(Passed(l0), l, v, s) \/ lists' = Passed(l0)
  BY DEF RunUpdate, RunReject, Counted, historyVars, deferredVars
<1>3. PICK l0, l, v, s : Fires(Passed(l0), l, v, s) \/ lists' = Passed(l0)
  BY <1>2
<1>4. PICK ls : ls = Passed(l0)
  OBVIOUS
<1>5. /\ Keeps(ls) /\ DOMAIN ls = DOMAIN lists
      /\ \A x \in DOMAIN lists : ls[x].locked = lists[x].locked
  BY <1>1, <1>4, KeepPassed
<1>6. Fires(ls, l, v, s) \/ lists' = ls
  BY <1>3, <1>4
<1>7. QED BY <1>1, <1>2, <1>5, <1>6, SilentCounted

LEMMA SilentAdopts ==
  ASSUME DInv, WhenAdopts
  PROVE  Silent
<1>1. /\ CoreInv /\ state' = state /\ heard' = heard /\ registered' = registered /\ ops' = ops
  BY DEF DInv, WhenAdopts, historyVars
<1>2. PICK m : m = Top.to
  OBVIOUS
<1>3. m \in Deferreds
  BY <1>1, <1>2, WhenTop DEF WhenAdopts
<1>4. PICK d : d = args[m][Top.depth]
  OBVIOUS
<1>5. CASE d = 0
  <2>1. PICK s : Counted(m, lists, 1, s)
    BY <1>2, <1>4, <1>5 DEF WhenAdopts
  <2>2. Fires(lists, <<m, "done">>, 1, s) \/ lists' = lists
    BY <2>1 DEF Counted
  <2>3. QED BY <1>1, <2>2, SilentFires
<1>6. CASE d # 0
  <2>a. /\ Update(m) \in Callback /\ Update(m).kind # "prologue"
        /\ Reject(m) \in Callback /\ Reject(m).kind # "prologue"
    BY <1>3 DEF Update, Reject, Callback, Deferreds
  <2>1. PICK u, r : /\ u = Update(m) /\ r = Reject(m)
                    /\ u \in Callback /\ u.kind # "prologue"
                    /\ r \in Callback /\ r.kind # "prologue"
    BY <2>a
  <2>2. lists' = [lists EXCEPT ![<<d, "done">>] = Added(@, u), ![<<d, "fail">>] = Added(@, r)]
    BY <1>2, <1>4, <1>6, <2>1, Zenon DEF WhenAdopts, Update, Reject
  <2>3. PICK e1, e2 : /\ e1 = Added(lists[<<d, "done">>], u)
                      /\ e2 = Added(lists[<<d, "fail">>], r)
    OBVIOUS
  <2>4. PICK ls : ls = [lists EXCEPT ![<<d, "done">>] = e1]
    OBVIOUS
  <2>5. lists' = [ls EXCEPT ![<<d, "fail">>] = e2]
    <3>1. <<d, "done">> # <<d, "fail">>
      OBVIOUS
    <3>2. QED BY <2>2, <2>3, <2>4, <3>1
  <2>6. ASSUME NEW x \in Deferreds, NEW on \in Outcomes, state[x] = Final(on)
        PROVE  /\ <<d, "done">> = <<x, on>> => e1.memory = lists[<<d, "done">>].memory
               /\ <<d, "fail">> = <<x, on>> => e2.memory = lists[<<d, "fail">>].memory
    <3>1. SettledList(lists[<<x, on>>])
      BY <1>1, <2>6, SettledLists
    <3>2. \A f \in Callback : f.kind # "prologue" =>
             Added(lists[<<x, on>>], f).memory = lists[<<x, on>>].memory
      BY <3>1, MemoryKept
    <3>3. QED BY <2>1, <2>3, <3>2
  <2>7. Keeps(ls) /\ DOMAIN ls = DOMAIN lists
    <3>1. Keeps([lists EXCEPT ![<<d, "done">>] = e1])
      BY <1>1, <2>6, KeepOne, KeepSame
    <3>2. QED BY <2>4, <3>1
  <2>8. ls[<<d, "fail">>] = lists[<<d, "fail">>]
    BY <2>4
  <2>9. Keeps([ls EXCEPT ![<<d, "fail">>] = e2])
    <3>1. ASSUME NEW x \in Deferreds, NEW on \in Outcomes,
                 <<d, "fail">> = <<x, on>>, state[x] = Final(on)
          PROVE  e2.memory = ls[<<d, "fail">>].memory
      BY <2>6, <2>8, <3>1
    <3>2. QED BY <1>1, <2>7, <3>1, KeepOne
  <2>10. QED BY <1>1, <2>5, <2>9, OpsGrow DEF Silent, Moves, MoreMade
<1>7. QED BY <1>5, <1>6

LEMMA SilentTimer ==
  ASSUME DInv, FireTimer
  PROVE  Silent
<1>1. /\ CoreInv /\ state' = state /\ heard' = heard /\ registered' = registered /\ ops' = ops
  BY DEF DInv, FireTimer, historyVars
<1>2. \/ lists' = lists
      \/ \E l, v, s : Fires(lists, l, v, s)
      \/ \E d, k, v, s : Caught(d, k, v, s)
  BY DEF FireTimer
<1>3. QED BY <1>1, <1>2, SilentFires, SilentCaught

LEMMA SilentEngine ==
  ASSUME DInv, Engine
  PROVE  \/ Silent
         \/ \E d \in Deferreds, on \in Ons :
               \/ RunCallback(<<d, on>>) /\ UNCHANGED <<deferredVars, historyVars>>
               \/ RunPrologue(d, on)
<1>0. CoreInv /\ DOMAIN lists = Lists
  BY NoFreeLists DEF DInv
<1>1. CASE \E l \in DOMAIN lists : RunCallback(l) /\ UNCHANGED <<deferredVars, historyVars>>
  <2>1. PICK l \in DOMAIN lists : RunCallback(l) /\ UNCHANGED <<deferredVars, historyVars>>
    BY <1>1
  <2>2. PICK d \in Deferreds, on \in Ons : l = <<d, on>>
    BY <1>0 DEF Lists
  <2>3. RunCallback(<<d, on>>)
    BY <2>1, <2>2
  <2>4. QED BY <2>1, <2>3
<1>2. CASE \E l \in DOMAIN lists : RoundEnds(l) /\ UNCHANGED <<deferredVars, historyVars>>
  BY <1>2, SilentRoundEnds
<1>3. CASE BodyReturns /\ UNCHANGED <<deferredVars, historyVars>>
  BY <1>3, SilentBodyReturns
<1>4. CASE \E d \in Deferreds : RunUpdate(d) \/ RunReject(d)
  BY <1>4, SilentCounts
<1>5. CASE HandlerReturns
  BY <1>0, <1>5, SilentFires DEF HandlerReturns, deferredVars, historyVars
<1>6. CASE Returns
  BY <1>0, <1>6, SilentFires DEF Returns, deferredVars, historyVars
<1>7. QED BY <1>1, <1>2, <1>3, <1>4, <1>5, <1>6, SilentAdopts, SilentTimer DEF Engine

\* How d was settled, what was asked for and what it was called with, by the
\* values of the variables.
OutcomeOf(d, st, ls) ==
    IF st[d] \in Settled
    THEN [state |-> st[d], v |-> ls[<<d, IF st[d] = "resolved" THEN "done" ELSE "fail">>].memory]
    ELSE [state |-> "pending", v |-> 0]

AskOf(r) == [of |-> r.of, on |-> IF r.on = "progress" THEN "progress" ELSE Final(r.on)]

CalledFor(n, hd) == {k \in DOMAIN hd : hd[k].n = n /\ hd[k].of[2] # "progress"}
AnswerOf(n, hd) ==
    IF CalledFor(n, hd) = {} THEN 0
    ELSE IF \A j, k \in CalledFor(n, hd) : j = k
         THEN hd[CHOOSE k \in CalledFor(n, hd) : TRUE].v ELSE -1

LEMMA Mapping ==
  /\ Settlement = [d \in Deferreds |-> OutcomeOf(d, state, lists)]
  /\ Asked = [n \in DOMAIN registered |-> AskOf(registered[n])]
  /\ FreeLists \cap DOMAIN lists = {} => AnswerTo = [n \in 1 .. MaxOps |-> AnswerOf(n, heard)]
<1>1. Settlement = [d \in Deferreds |-> OutcomeOf(d, state, lists)]
  BY DEF Settlement, OutcomeOf
<1>2. Asked = [n \in DOMAIN registered |-> AskOf(registered[n])]
  BY DEF Asked, AskOf
<1>3. ASSUME FreeLists \cap DOMAIN lists = {}
      PROVE  AnswerTo = [n \in 1 .. MaxOps |-> AnswerOf(n, heard)]
  BY <1>3 DEF AnswerTo, AnswerOf, Answered, CalledFor
<1>4. QED BY <1>1, <1>2, <1>3

LEMMA MappingNext ==
  /\ Settlement' = [d \in Deferreds |-> OutcomeOf(d, state', lists')]
  /\ Asked' = [n \in DOMAIN registered' |-> AskOf(registered'[n])]
  /\ FreeLists \cap DOMAIN lists' = {} => AnswerTo' = [n \in 1 .. MaxOps |-> AnswerOf(n, heard')]
<1>1. Settlement' = [d \in Deferreds |-> OutcomeOf(d, state', lists')]
  BY DEF Settlement, OutcomeOf
<1>2. Asked' = [n \in DOMAIN registered' |-> AskOf(registered'[n])]
  BY DEF Asked, AskOf
<1>3. ASSUME FreeLists \cap DOMAIN lists' = {}
      PROVE  AnswerTo' = [n \in 1 .. MaxOps |-> AnswerOf(n, heard')]
  BY <1>3 DEF AnswerTo, AnswerOf, Answered, CalledFor
<1>4. QED BY <1>1, <1>2, <1>3

LEMMA OutcomeFinal ==
  ASSUME NEW st, NEW ls, NEW d, NEW on \in Outcomes, st[d] = Final(on)
  PROVE  OutcomeOf(d, st, ls) = [state |-> Final(on), v |-> ls[<<d, on>>].memory]
<1>1. st[d] \in Settled /\ on = (IF st[d] = "resolved" THEN "done" ELSE "fail")
  BY DEF Final, Outcomes, Settled
<1>2. QED BY <1>1 DEF OutcomeOf

LEMMA OutcomePending ==
  ASSUME NEW st, NEW ls, NEW d, st[d] \in {"unused", "pending"}
  PROVE  OutcomeOf(d, st, ls) = [state |-> "pending", v |-> 0]
BY DEF OutcomeOf, Settled

LEMMA SettledCases ==
  ASSUME CoreInv, NEW d \in Deferreds
  PROVE  state[d] \in {"unused", "pending"} \/ \E on \in Outcomes : state[d] = Final(on)
<1>1. state[d] \in {"unused", "pending"} \cup Settled
  BY DEF CoreInv, DeferredTypes
<1>2. QED BY <1>1 DEF Settled, Outcomes, Final

\* A step that settles nothing leaves the outcomes alone.
LEMMA OutcomesKept ==
  ASSUME CoreInv, MoreMade, Keeps(lists')
  PROVE  Settlement' = Settlement
<1>1. ASSUME NEW d \in Deferreds
      PROVE  OutcomeOf(d, state', lists') = OutcomeOf(d, state, lists)
  <2>1. CASE state[d] \in {"unused", "pending"}
    <3>1. state'[d] \in {"unused", "pending"}
      BY <2>1 DEF MoreMade
    <3>2. QED BY <2>1, <3>1, OutcomePending
  <2>2. CASE \E on \in Outcomes : state[d] = Final(on)
    <3>1. PICK on \in Outcomes : state[d] = Final(on)
      BY <2>2
    <3>2. state'[d] = Final(on)
      BY <3>1, OthersOf DEF MoreMade
    <3>3. lists'[<<d, on>>].memory = lists[<<d, on>>].memory
      BY <3>1 DEF Keeps
    <3>4. QED BY <3>1, <3>2, <3>3, OutcomeFinal
  <2>3. QED BY <2>1, <2>2, SettledCases
<1>2. QED BY <1>1, Mapping, MappingNext

LEMMA NoFreeNext ==
  ASSUME CoreInv'
  PROVE  FreeLists \cap DOMAIN lists' = {}
<1>1. DOMAIN lists' = Lists
  BY DEF CoreInv, Sound
<1>2. QED BY <1>1, DeferredAssumption DEF Lists, Deferreds, Ons

LEMMA SilentStutters ==
  ASSUME DInv, DInv', Silent
  PROVE  UNCHANGED <<Settlement, Asked, AnswerTo>>
<1>1. CoreInv /\ CoreInv'
  BY DEF DInv
<1>2. Settlement' = Settlement
  BY <1>1, OutcomesKept DEF Silent, Moves
<1>3. Asked' = Asked
  BY Mapping, MappingNext DEF Silent
<1>4. FreeLists \cap DOMAIN lists = {} /\ FreeLists \cap DOMAIN lists' = {}
  BY <1>1, NoFreeLists, NoFreeNext
<1>5. AnswerTo' = AnswerTo
  BY <1>4, Mapping, MappingNext DEF Silent
<1>6. QED BY <1>2, <1>3, <1>5

\* Every callback that was registered is one call of the application.
RegBound == Len(registered) <= ops

LEMMA RegisterMoves ==
  ASSUME CoreInv, NEW d \in Deferreds, NEW on \in Ons, Register(d, on)
  PROVE  Moves /\ heard' = heard /\ registered' = Append(registered, [of |-> d, on |-> on])
<1>1. /\ state' = state /\ heard' = heard /\ Operation
      /\ registered' = Append(registered, [of |-> d, on |-> on])
      /\ Adds(<<d, on>>, Call(Len(registered) + 1), stack)
  BY DEF Register, deferredVars
<1>2. registered \in Seq([of : Deferreds, on : Ons])
  BY DEF CoreInv, DeferredTypes
<1>3. Call(Len(registered) + 1) \in Callback /\ Call(Len(registered) + 1).kind # "prologue"
  BY <1>2 DEF Call, Callback
<1>4. Keeps(lists')
  BY <1>1, <1>3, KeepAdds
<1>5. QED BY <1>1, <1>4, OpsGrow DEF Moves, MoreMade

LEMMA RegisterRefines ==
  ASSUME DInv, DInv', RegBound, NEW d \in Deferreds, NEW on \in Ons, Register(d, on)
  PROVE  P!Next
<1>1. CoreInv /\ CoreInv'
  BY DEF DInv
<1>2. Moves /\ heard' = heard /\ registered' = Append(registered, [of |-> d, on |-> on])
  BY <1>1, RegisterMoves
<1>3. Settlement' = Settlement
  BY <1>1, <1>2, OutcomesKept DEF Moves
<1>4. FreeLists \cap DOMAIN lists = {} /\ FreeLists \cap DOMAIN lists' = {}
  BY <1>1, NoFreeLists, NoFreeNext
<1>5. AnswerTo' = AnswerTo
  BY <1>2, <1>4, Mapping, MappingNext
<1>6. PICK r : r = [of |-> d, on |-> on]
  OBVIOUS
<1>7. PICK a : a = [of |-> d, on |-> IF on = "progress" THEN "progress" ELSE Final(on)]
  OBVIOUS
<1>8. a = AskOf(r)
  BY <1>6, <1>7 DEF AskOf
<1>9. registered \in Seq([of : Deferreds, on : Ons]) /\ r \in [of : Deferreds, on : Ons]
  BY <1>1, <1>6 DEF CoreInv, DeferredTypes
<1>10. /\ Asked = [n \in DOMAIN registered |-> AskOf(registered[n])]
       /\ Asked' = [n \in DOMAIN registered' |-> AskOf(registered'[n])]
  BY Mapping, MappingNext
<1>11. /\ Asked' = Append(Asked, a) /\ Len(Asked) = Len(registered)
  <2>1. registered' = Append(registered, r)
    BY <1>2, <1>6
  <2>2. PICK S : \A n \in DOMAIN registered : AskOf(registered[n]) \in S
    <3>1. \A n \in DOMAIN registered :
             AskOf(registered[n]) \in {AskOf(registered[k]) : k \in DOMAIN registered}
      OBVIOUS
    <3>2. QED BY <3>1
  <2>3. Len(registered) \in Nat /\ DOMAIN registered = 1 .. Len(registered)
    BY <1>9
  <2>4. Asked \in Seq(S) /\ Len(Asked) = Len(registered)
    BY <1>10, <2>2, <2>3
  <2>5. /\ DOMAIN registered' = 1 .. Len(registered) + 1
        /\ \A k \in 1 .. Len(registered) : registered'[k] = registered[k]
        /\ registered'[Len(registered) + 1] = r
    BY <1>9, <2>1, Appended
  <2>6. QED BY <1>8, <1>10, <2>3, <2>4, <2>5
<1>12. Len(registered) < MaxOps
  <2>1. ops < MaxOps /\ ops \in Nat /\ Len(registered) \in Nat
    BY <1>1, <1>9 DEF Register, Operation, CoreInv, DeferredTypes
  <2>2. QED BY <2>1, CallbacksAssumption DEF RegBound
<1>13. a.on \in {"resolved", "rejected"} \cup {"progress"}
       /\ a = [of |-> d, on |-> a.on]
  BY <1>7 DEF Final
<1>14. P!Register(d, a.on)
  BY <1>3, <1>5, <1>11, <1>12, <1>13 DEF P!Register
<1>15. QED BY <1>13, <1>14 DEF P!Next, P!Settled

LEMMA PrologueRefines ==
  ASSUME DInv, DInv', NEW d \in Deferreds, NEW on \in Ons, RunPrologue(d, on)
  PROVE  P!Next \/ UNCHANGED <<Settlement, Asked, AnswerTo>>
<1>1. /\ CoreInv /\ CoreInv' /\ Reaches(<<d, on>>, "prologue")
      /\ heard' = heard /\ registered' = registered /\ ops' = ops
  BY DEF DInv, RunPrologue, historyVars
<1>2. CASE on = "progress"
  <2>1. lists' = Passed(<<d, on>>) /\ state' = state
    BY <1>2 DEF RunPrologue
  <2>2. Keeps(lists')
    BY <1>1, <2>1, KeepPassed
  <2>3. Silent
    BY <1>1, <2>1, <2>2, OpsGrow DEF Silent, Moves, MoreMade
  <2>4. QED BY <2>3, SilentStutters
<1>3. CASE on \in Outcomes
  <2>1. Settles(d, on)
    BY <1>3, OthersOf DEF RunPrologue
  <2>2. SettleStep(d, on, lists, state, lists', state')
    BY <2>1 DEF Settles, SettleStep, Passed
  <2>3. DOMAIN state = Deferreds
    BY <1>1 DEF CoreInv, DeferredTypes
  <2>4. SettleEffect(d, on, lists, state, lists')
    BY <1>1, <1>3, <2>2, <2>3, ReachesLoop, SettleSound
  <2>5. PICK v : v = lists[<<d, on>>].memory
    OBVIOUS
  <2>6. /\ state[d] = "pending" /\ v \in Data /\ lists'[<<d, on>>].memory = v
        /\ \A e \in Deferreds, o \in Outcomes : e # d => lists'[<<e, o>>] = lists[<<e, o>>]
    BY <2>4, <2>5 DEF SettleEffect
  <2>7. state'[d] = Final(on) /\ \A e \in Deferreds : e # d => state'[e] = state[e]
    BY <2>1, <2>3 DEF Settles
  <2>8. OutcomeOf(d, state, lists) = [state |-> "pending", v |-> 0]
    BY <2>6, OutcomePending
  <2>9. OutcomeOf(d, state', lists') = [state |-> Final(on), v |-> v]
    BY <1>3, <2>6, <2>7, OutcomeFinal
  <2>10. ASSUME NEW e \in Deferreds, e # d
         PROVE  OutcomeOf(e, state', lists') = OutcomeOf(e, state, lists)
    <3>1. CASE state[e] \in {"unused", "pending"}
      BY <2>7, <2>10, <3>1, OutcomePending
    <3>2. CASE \E o \in Outcomes : state[e] = Final(o)
      <4>1. PICK o \in Outcomes : state[e] = Final(o)
        BY <3>2
      <4>2. state'[e] = Final(o) /\ lists'[<<e, o>>] = lists[<<e, o>>]
        BY <2>6, <2>7, <2>10, <4>1
      <4>3. QED BY <4>1, <4>2, OutcomeFinal
    <3>3. QED BY <1>1, <3>1, <3>2, SettledCases
  <2>11. PICK o : o = [state |-> Final(on), v |-> v]
    OBVIOUS
  <2>12. Settlement' = [Settlement EXCEPT ![d] = o]
    BY <2>9, <2>10, <2>11, Mapping, MappingNext
  <2>13. Settlement[d] = [state |-> "pending", v |-> 0]
    BY <2>8, Mapping
  <2>14. FreeLists \cap DOMAIN lists = {} /\ FreeLists \cap DOMAIN lists' = {}
    BY <1>1, NoFreeLists, NoFreeNext
  <2>15. Asked' = Asked /\ AnswerTo' = AnswerTo
    BY <1>1, <2>14, Mapping, MappingNext
  <2>16. P!Settle(d, Final(on), v)
    BY <2>11, <2>12, <2>13, <2>15 DEF P!Settle, P!Pending
  <2>17. QED BY <1>3, <2>6, <2>16, OthersOf DEF P!Next, P!Settled, Settled, Data
<1>4. QED BY <1>2, <1>3, OthersOf

LEMMA HearsOthers ==
  ASSUME NEW S, NEW hd \in Seq(S), NEW e \in S, NEW x, x # e.n \/ e.of[2] = "progress"
  PROVE  AnswerOf(x, Append(hd, e)) = AnswerOf(x, hd)
<1>0. PICK hd2 : hd2 = Append(hd, e)
  OBVIOUS
<1>1. /\ Len(hd) \in Nat /\ DOMAIN hd = 1 .. Len(hd) /\ DOMAIN hd2 = 1 .. Len(hd) + 1
      /\ \A k \in 1 .. Len(hd) : hd2[k] = hd[k]
      /\ hd2[Len(hd) + 1] = e
  BY <1>0, Appended
<1>2. CalledFor(x, hd2) = CalledFor(x, hd)
  BY <1>1 DEF CalledFor
<1>3. \A k \in CalledFor(x, hd) : hd2[k] = hd[k]
  BY <1>1 DEF CalledFor
<1>4. AnswerOf(x, hd2) = AnswerOf(x, hd)
  <2>1. CASE CalledFor(x, hd) = {}
    BY <1>2, <2>1 DEF AnswerOf
  <2>2. CASE CalledFor(x, hd) # {}
    <3>1. PICK k : k = CHOOSE j \in CalledFor(x, hd) : TRUE
      OBVIOUS
    <3>2. hd2[k] = hd[k]
      BY <1>3, <2>2, <3>1
    <3>3. QED BY <1>2, <2>2, <3>1, <3>2 DEF AnswerOf
  <2>3. QED BY <2>1, <2>2
<1>5. QED BY <1>0, <1>4

LEMMA HearsFirst ==
  ASSUME NEW S, NEW hd \in Seq(S), NEW e \in S, e.of[2] # "progress",
         CalledFor(e.n, hd) = {}
  PROVE  AnswerOf(e.n, Append(hd, e)) = e.v
<1>0. PICK hd2 : hd2 = Append(hd, e)
  OBVIOUS
<1>1. /\ Len(hd) \in Nat /\ DOMAIN hd = 1 .. Len(hd) /\ DOMAIN hd2 = 1 .. Len(hd) + 1
      /\ \A k \in 1 .. Len(hd) : hd2[k] = hd[k]
      /\ hd2[Len(hd) + 1] = e
  BY <1>0, Appended
<1>2. CalledFor(e.n, hd2) = {Len(hd) + 1}
  BY <1>1 DEF CalledFor
<1>3. AnswerOf(e.n, hd2) = e.v
  BY <1>1, <1>2 DEF AnswerOf
<1>4. QED BY <1>0, <1>3

\* The callback that is called next is one that was registered, for what the
\* deferred was settled with, and it was not called before.
LEMMA NextUncalled ==
  ASSUME DInv, NEW d \in Deferreds, NEW on \in Outcomes, Reaches(<<d, on>>, "call"),
         NEW n, n = Reached(<<d, on>>)
  PROVE  /\ n \in DOMAIN registered /\ registered[n] = [of |-> d, on |-> on]
         /\ CalledFor(n, heard) = {}
         /\ state[d] = Final(on) /\ lists[<<d, on>>].memory \in Data
         /\ Keeps(Passed(<<d, on>>))
<1> DEFINE c == lists[<<d, on>>]
           k0 == c.firingIndex + 1
<1>1. CoreInv /\ HeardRegistered /\ OrderOf(d, on) /\ on \in Ons
  BY OthersOf DEF DInv, OrderInv
<1>2. /\ InLoop(d, on, stack) /\ Sound(lists, stack, state, registered, args)
      /\ c \in CallbackList /\ c.firingIndex < Len(c.list) /\ k0 \in DOMAIN c.list
      /\ c.list[k0].kind = "call" /\ c.memory \in Data
  BY <1>1, ReachesLoop
<1>3. PassStep(d, on, lists, Passed(<<d, on>>))
  BY DEF PassStep, Passed
<1>4. c.list[k0].kind # "prologue"
  BY <1>2
<1>5. PassEffect(d, on, lists, Passed(<<d, on>>), state)
  BY <1>1, <1>2, <1>3, <1>4, PassSound
<1>6. state[d] = Final(on)
  BY <1>5 DEF PassEffect
<1>7. k0 \in AheadCalls(c)
  BY <1>2 DEF AheadCalls, Ahead, CallbackList
<1>8. n = c.list[k0].n
  BY DEF Reached
<1>9. AllFit(lists, registered, args)
  BY <1>2 DEF Sound
<1>10. IsRegistered(d, on, c.list[k0], registered)
  BY <1>7, <1>9, AheadRegistered
<1>11. n \in DOMAIN registered /\ registered[n] = [of |-> d, on |-> on]
  BY <1>8, <1>10 DEF IsRegistered
<1>12. \A j \in CallsOf(d, on) : heard[j].n < n
  BY <1>1, <1>7, <1>8 DEF OrderOf, Ordered
<1>13. n \in Nat
  <2>1. registered \in Seq([of : Deferreds, on : Ons])
    BY <1>1 DEF CoreInv, DeferredTypes
  <2>2. QED BY <1>11, <2>1
<1>14. ASSUME NEW k \in CalledFor(n, heard) PROVE FALSE
  <2>1. k \in DOMAIN heard /\ heard[k].n = n
    BY <1>14 DEF CalledFor
  <2>2. heard[k].of = <<registered[n].of, registered[n].on>>
    BY <1>1, <2>1 DEF HeardRegistered
  <2>3. k \in CallsOf(d, on)
    BY <1>11, <2>1, <2>2 DEF CallsOf
  <2>4. QED BY <1>12, <1>13, <2>1, <2>3
<1>15. Keeps(Passed(<<d, on>>))
  BY <1>1, KeepPassed
<1>16. QED BY <1>2, <1>6, <1>11, <1>14, <1>15

LEMMA CallbackRefines ==
  ASSUME DInv, DInv', RegBound, NEW d \in Deferreds, NEW on \in Ons, RunCallback(<<d, on>>),
         UNCHANGED <<deferredVars, historyVars>>
  PROVE  P!Next \/ UNCHANGED <<Settlement, Asked, AnswerTo>>
<1>1. /\ CoreInv /\ CoreInv' /\ Reaches(<<d, on>>, "call") /\ lists' = Passed(<<d, on>>)
      /\ state' = state /\ registered' = registered /\ ops' = ops
  BY DEF DInv, RunCallback, deferredVars, historyVars
<1>2. PICK n : n = Reached(<<d, on>>)
  OBVIOUS
<1>3. PICK v : v = lists[<<d, on>>].memory
  OBVIOUS
<1>4. PICK e : e = [of |-> <<d, on>>, n |-> n, v |-> v]
  OBVIOUS
<1>5. heard' = Append(heard, e)
  BY <1>2, <1>3, <1>4 DEF RunCallback
<1>6. e.n = n /\ e.v = v /\ e.of[2] = on
  BY <1>4
<1>7. heard \in Seq([of : Lists, n : Nat, v : Data]) /\ e \in [of : Lists, n : Nat, v : Data]
  <2>1. heard \in Seq([of : Lists, n : Nat, v : Data])
    BY <1>1 DEF CoreInv, DeferredTypes
  <2>2. n \in Nat /\ v \in Data
    BY <1>1, <1>2, <1>3, ReachesLoop DEF Reached, Callback
  <2>3. <<d, on>> \in Lists
    BY DEF Lists
  <2>4. QED BY <1>4, <2>1, <2>2, <2>3
<1>8. /\ \A x : x # n \/ on = "progress" => AnswerOf(x, heard') = AnswerOf(x, heard)
      /\ on # "progress" /\ CalledFor(n, heard) = {} => AnswerOf(n, heard') = v
  <2>1. PICK S : S = [of : Lists, n : Nat, v : Data]
    OBVIOUS
  <2>2. heard \in Seq(S) /\ e \in S
    BY <1>7, <2>1
  <2>3. ASSUME NEW x, x # n \/ on = "progress"
        PROVE  AnswerOf(x, heard') = AnswerOf(x, heard)
    <3>1. x # e.n \/ e.of[2] = "progress"
      BY <1>6, <2>3
    <3>2. AnswerOf(x, Append(heard, e)) = AnswerOf(x, heard)
      BY <2>2, <3>1, HearsOthers
    <3>3. QED BY <1>5, <3>2
  <2>4. ASSUME on # "progress", CalledFor(n, heard) = {}
        PROVE  AnswerOf(n, heard') = v
    <3>1. e.of[2] # "progress" /\ CalledFor(e.n, heard) = {}
      BY <1>6, <2>4
    <3>2. AnswerOf(e.n, Append(heard, e)) = e.v
      BY <2>2, <3>1, HearsFirst
    <3>3. QED BY <1>5, <1>6, <3>2
  <2>5. QED BY <2>3, <2>4
<1>9. FreeLists \cap DOMAIN lists = {} /\ FreeLists \cap DOMAIN lists' = {}
  BY <1>1, NoFreeLists, NoFreeNext
<1>10. Settlement' = Settlement /\ Asked' = Asked
  <2>1. Keeps(lists') /\ MoreMade
    BY <1>1, KeepPassed DEF MoreMade
  <2>2. QED BY <1>1, <2>1, OutcomesKept, Mapping, MappingNext
<1>11. CASE on = "progress"
  <2>1. AnswerTo' = AnswerTo
    BY <1>8, <1>9, <1>11, Mapping, MappingNext
  <2>2. QED BY <1>10, <2>1
<1>12. CASE on \in Outcomes
  <2>1. /\ n \in DOMAIN registered /\ registered[n] = [of |-> d, on |-> on]
        /\ CalledFor(n, heard) = {} /\ state[d] = Final(on)
    BY <1>1, <1>2, <1>12, NextUncalled
  <2>2. on # "progress"
    BY <1>12, OthersOf
  <2>3. n \in 1 .. MaxOps
    <3>1. registered \in Seq([of : Deferreds, on : Ons]) /\ ops \in 0 .. MaxOps
      BY <1>1 DEF CoreInv, DeferredTypes
    <3>2. n \in 1 .. Len(registered) /\ Len(registered) \in Nat
      BY <2>1, <3>1
    <3>3. QED BY <3>1, <3>2, CallbacksAssumption DEF RegBound
  <2>4. Settlement[d] = [state |-> Final(on), v |-> v]
    BY <1>3, <1>12, <2>1, Mapping, OutcomeFinal
  <2>5. n \in DOMAIN Asked /\ Asked[n] = [of |-> d, on |-> Final(on)]
    BY <2>1, <2>2, Mapping DEF AskOf
  <2>6. AnswerTo[n] = 0
    BY <1>9, <2>1, <2>3, Mapping DEF AnswerOf
  <2>7. AnswerTo' = [AnswerTo EXCEPT ![n] = v]
    BY <1>8, <1>9, <2>1, <2>2, <2>3, Mapping, MappingNext
  <2>8. P!Hear(n)
    <3>1. PICK o : o = Settlement[Asked[n].of]
      OBVIOUS
    <3>2. o.state = Asked[n].on /\ o.v = v
      BY <2>4, <2>5, <3>1
    <3>3. AnswerTo' = [AnswerTo EXCEPT ![n] = o.v]
      BY <2>7, <3>2
    <3>4. QED BY <1>10, <2>5, <2>6, <3>1, <3>2, <3>3 DEF P!Hear
  <2>9. QED BY <2>3, <2>8 DEF P!Next
<1>13. QED BY <1>11, <1>12, OthersOf

promiseVars == <<Settlement, Asked, AnswerTo>>

LEMMA SilentBound ==
  ASSUME CoreInv, RegBound, ops' >= ops, ops' \in Nat, registered' = registered
  PROVE  RegBound'
<1>1. Len(registered) \in Nat /\ ops \in Nat
  BY DEF CoreInv, DeferredTypes
<1>2. Len(registered') = Len(registered)
  OBVIOUS
<1>3. QED BY <1>1, <1>2 DEF RegBound

LEMMA RegisterBound ==
  ASSUME CoreInv, RegBound, NEW d \in Deferreds, NEW on \in Ons, Register(d, on)
  PROVE  RegBound'
<1>1. registered \in Seq([of : Deferreds, on : Ons]) /\ ops \in Nat
  BY DEF CoreInv, DeferredTypes
<1>2. PICK r : r = [of |-> d, on |-> on]
  OBVIOUS
<1>3. registered' = Append(registered, r) /\ r \in [of : Deferreds, on : Ons]
  BY <1>2 DEF Register
<1>4. Len(registered') = Len(registered) + 1 /\ Len(registered) \in Nat
  BY <1>1, <1>3
<1>5. ops' = ops + 1
  BY DEF Register, Operation
<1>6. QED BY <1>1, <1>4, <1>5 DEF RegBound

\* A step of deferreds is one of promises, or none.
LEMMA DeferredsRefine ==
  ASSUME DInv, DInv', RegBound, [Next]_allVars
  PROVE  RegBound' /\ [P!Next]_promiseVars
<1>1. CoreInv /\ ops' \in Nat /\ ops \in Nat
  <2>1. CoreInv /\ CoreInv'
    BY DEF DInv
  <2>2. ops \in 0 .. MaxOps /\ ops' \in 0 .. MaxOps
    BY <2>1 DEF CoreInv, DeferredTypes
  <2>3. QED BY <2>1, <2>2
<1>2. CASE Silent
  <2>1. RegBound'
    BY <1>1, <1>2, SilentBound DEF Silent, Moves
  <2>2. QED BY <1>2, <2>1, SilentStutters DEF promiseVars
<1>3. CASE \E d \in Deferreds, on \in Ons : Register(d, on)
  BY <1>1, <1>3, RegisterBound, RegisterRefines
<1>4. CASE \E d \in Deferreds, on \in Ons :
              RunCallback(<<d, on>>) /\ UNCHANGED <<deferredVars, historyVars>>
  <2>1. PICK d \in Deferreds, on \in Ons :
              RunCallback(<<d, on>>) /\ UNCHANGED <<deferredVars, historyVars>>
    BY <1>4
  <2>2. registered' = registered /\ ops' = ops
    BY <2>1 DEF RunCallback, historyVars
  <2>3. RegBound'
    BY <1>1, <2>2, SilentBound
  <2>4. QED BY <2>1, <2>3, CallbackRefines DEF promiseVars
<1>5. CASE \E d \in Deferreds, on \in Ons : RunPrologue(d, on)
  <2>1. PICK d \in Deferreds, on \in Ons : RunPrologue(d, on)
    BY <1>5
  <2>2. registered' = registered /\ ops' = ops
    BY <2>1 DEF RunPrologue, historyVars
  <2>3. RegBound'
    BY <1>1, <2>2, SilentBound
  <2>4. QED BY <2>1, <2>3, PrologueRefines DEF promiseVars
<1>6. CASE UNCHANGED allVars
  <2>1. lists' = lists /\ state' = state /\ heard' = heard /\ registered' = registered
        /\ ops' = ops
    BY <1>6 DEF allVars, callbackVars, deferredVars, historyVars
  <2>2. Silent
    BY <1>1, <2>1, SilentFires
  <2>3. QED BY <1>2, <2>2
<1>7. CASE Next
  BY <1>2, <1>3, <1>4, <1>5, <1>7, SilentApplication, SilentEngine DEF Next
<1>8. QED BY <1>6, <1>7

\* Without deferreds there are no promises.
NoPromises ==
    /\ Settlement = [d \in Deferreds |-> [state |-> "pending", v |-> 0]]
    /\ Asked = <<>>
    /\ AnswerTo = [n \in 1 .. MaxOps |-> 0]

LEMMA FreeNothing ==
  ASSUME FreeInv
  PROVE  NoPromises /\ (ops \in Nat => RegBound)
<1>1. /\ state = [d \in Deferreds |-> "unused"] /\ registered = <<>>
      /\ heard \in Seq([of : FreeLists, n : Nat, v : Nat]) /\ DOMAIN lists = FreeLists
  BY DEF FreeInv, FreeTypes, NoDeferreds
<1>2. Settlement = [d \in Deferreds |-> [state |-> "pending", v |-> 0]]
  BY <1>1, OutcomePending, Mapping
<1>3. Asked = <<>>
  BY <1>1, Mapping
<1>4. AnswerTo = [n \in 1 .. MaxOps |-> 0]
  <2>1. CASE FreeLists # {}
    BY <1>1, <2>1 DEF AnswerTo
  <2>2. CASE FreeLists = {}
    <3>1. ASSUME NEW k \in DOMAIN heard PROVE FALSE
      <4>1. heard[k] \in [of : FreeLists, n : Nat, v : Nat]
        BY <1>1, <3>1, InSeq
      <4>2. QED BY <2>2, <4>1
    <3>2. \A n : Answered(n) = {}
      BY <3>1 DEF Answered
    <3>3. QED BY <3>2 DEF AnswerTo
  <2>3. QED BY <2>1, <2>2
<1>5. ops \in Nat => RegBound
  <2>1. Len(registered) = 0
    BY <1>1
  <2>2. QED BY <2>1 DEF RegBound
<1>6. QED BY <1>2, <1>3, <1>4, <1>5 DEF NoPromises

LEMMA DeferredsStart ==
  ASSUME InitDeferreds, InitRest
  PROVE  NoPromises /\ RegBound
<1>1. DInv
  BY DInvInit
<1>2. /\ registered = <<>> /\ heard = <<>> /\ ops = 0
  BY DEF InitRest
<1>3. FreeLists \cap DOMAIN lists = {}
  BY <1>1, NoFreeLists DEF DInv
<1>4. \A d \in Deferreds : state[d] \in {"unused", "pending"}
  BY DEF InitDeferreds
<1>5. Settlement = [d \in Deferreds |-> [state |-> "pending", v |-> 0]]
  BY <1>4, OutcomePending, Mapping
<1>6. Asked = <<>>
  BY <1>2, Mapping
<1>7. AnswerTo = [n \in 1 .. MaxOps |-> 0]
  <2>1. \A n : Answered(n) = {}
    BY <1>2 DEF Answered
  <2>2. QED BY <2>1 DEF AnswerTo
<1>8. RegBound
  BY <1>2 DEF RegBound
<1>9. QED BY <1>5, <1>6, <1>7, <1>8 DEF NoPromises

\* Deferreds are promises: one is settled once, and a callback is called at
\* most once, with what the deferred was settled with, and only for what it
\* was registered for.
THEOREM DeferredsArePromises == Spec => ImplementsPromises
<1>1. Init => DeferredIInv /\ RegBound /\ P!Init
  <2> SUFFICES ASSUME Init PROVE DeferredIInv /\ RegBound /\ P!Init
    OBVIOUS
  <2>1. (InitFree \/ InitDeferreds) /\ InitRest
    BY InitCases
  <2>2. NoPromises /\ RegBound
    <3>1. CASE InitFree
      <4>1. FreeInv /\ ops \in Nat
        BY <2>1, <3>1, FreeInvInit DEF InitRest
      <4>2. QED BY <4>1, FreeNothing
    <3>2. CASE InitDeferreds
      BY <2>1, <3>2, DeferredsStart
    <3>3. QED BY <2>1, <3>1, <3>2
  <2>3. DeferredIInv
    BY <2>1, FreeInvInit, DInvInit DEF DeferredIInv
  <2>4. QED BY <2>2, <2>3 DEF NoPromises, P!Init, P!Pending
<1>2. /\ DeferredIInv /\ RegBound /\ [Next]_allVars
      => DeferredIInv' /\ RegBound' /\ [P!Next]_promiseVars
  <2> SUFFICES ASSUME DeferredIInv, RegBound, [Next]_allVars
               PROVE  DeferredIInv' /\ RegBound' /\ [P!Next]_promiseVars
    OBVIOUS
  <2>1. CASE DInv
    <3>1. DInv'
      BY <2>1, DInvNext, DInvStutters
    <3>2. QED BY <2>1, <3>1, DeferredsRefine DEF DeferredIInv
  <2>2. CASE FreeInv
    <3>1. FreeInv'
      BY <2>2, FreeInvNext
    <3>2. NoPromises
      BY <2>2, FreeNothing
    <3>3. NoPromises' /\ RegBound'
      <4>1. FreeInv' => NoPromises' /\ ((ops \in Nat)' => RegBound')
        BY FreeNothing, PTL
      <4>2. ops' \in Nat
        BY <3>1 DEF FreeInv, FreeTypes
      <4>3. QED BY <3>1, <4>1, <4>2
    <3>4. UNCHANGED promiseVars
      BY <3>2, <3>3 DEF NoPromises, promiseVars
    <3>5. QED BY <3>1, <3>3, <3>4 DEF DeferredIInv
  <2>3. QED BY <2>1, <2>2 DEF DeferredIInv
<1>3. QED BY <1>1, <1>2, PTL DEF Spec, ImplementsPromises, P!Spec, promiseVars
=============================================================================
