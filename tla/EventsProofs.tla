----------------------------- MODULE EventsProofs -----------------------------
(***************************************************************************)
(* Proofs about jQuery's events: the lists of handlers stay in order, and  *)
(* every event reaches who is meant, once, in order, and nobody else.      *)
(***************************************************************************)
EXTENDS Events, FilterProofs, SequenceTheorems

-----------------------------------------------------------------------------
(* The lists of handlers.                                                  *)

Binding ==
    [elem : Elems, sel : 0 .. Elements, ns : BOOLEAN, one : BOOLEAN, gone : BOOLEAN]

BindingsOK(bd) ==
    /\ bd \in Seq(Binding) /\ Len(bd) <= MaxBound
    /\ \A h \in DOMAIN bd : bd[h].sel < bd[h].elem

\* The list c of the element e, where bd is bound: exactly the handlers that
\* were not unbound, the delegated ones in front, both in the order of binding.
ListOK(e, c, bd) ==
    /\ ToSet(c.list) = {h \in DOMAIN bd : bd[h].elem = e /\ ~bd[h].gone}
    /\ c.delegateCount <= Len(c.list) /\ c.delegateCount <= Len(bd)
    /\ \A k \in DOMAIN c.list : bd[c.list[k]].sel # 0 <=> k <= c.delegateCount
    /\ \A j, k \in DOMAIN c.list :
          j < k /\ (k <= c.delegateCount \/ j > c.delegateCount) => c.list[j] < c.list[k]

HandlersOK(hs, ls, bd) ==
    /\ BindingsOK(bd)
    /\ hs \in [Elems -> [list : Seq(Handler), delegateCount : 0 .. MaxBound]]
    /\ ls \in [Elems -> BOOLEAN]
    /\ \A e \in Elems : ListOK(e, hs[e], bd) /\ (ls[e] <=> hs[e].list # <<>>)

\* What was bound stays bound as it was, but may be unbound.
Keeps(bd, bd2) ==
    \A h \in DOMAIN bd :
        /\ h \in DOMAIN bd2
        /\ bd2[h].elem = bd[h].elem /\ bd2[h].sel = bd[h].sel
        /\ bd2[h].ns = bd[h].ns /\ bd2[h].one = bd[h].one
        /\ bd[h].gone => bd2[h].gone

-----------------------------------------------------------------------------
(* The events.                                                             *)

Event ==
    [due : SUBSET Handler, gone : SUBSET Handler, during : SUBSET (1 .. MaxEvents),
     heard : Seq(Handler), finished : BOOLEAN]

\* The order in which an event reaches two handlers.
Precedes(h, g, bd) ==
    \/ bd[h].elem < bd[g].elem
    \/ /\ bd[h].elem = bd[g].elem
       /\ \/ bd[h].sel = bd[g].sel /\ h < g
          \/ bd[h].sel # 0 /\ (bd[g].sel = 0 \/ bd[h].sel < bd[g].sel)

\* The handlers in the queue q, group by group.
Queued(q) == UNION {ToSet(q[i]) : i \in DOMAIN q}

QueueInOrder(q, bd) ==
    /\ \A i \in DOMAIN q : \A j, k \in DOMAIN q[i] :
          j < k => Precedes(q[i][j], q[i][k], bd)
    /\ \A i, j \in DOMAIN q : i < j =>
          \A h \in ToSet(q[i]), g \in ToSet(q[j]) : Precedes(h, g, bd)

Meant(target, ns, h, bd) ==
    /\ target <= IF bd[h].sel = 0 THEN bd[h].elem ELSE bd[h].sel
    /\ ns => bd[h].ns

\* The frame f of the event ev: what is queued are handlers of the element it
\* is at, behind all that heard of it; who is due and did not hear of it yet is
\* queued or further out.
FrameOK(f, ev, bd) ==
    /\ f.running # 0 => f.queue # <<>>
    /\ f.running = 0 => \A i \in DOMAIN f.queue : f.queue[i] # <<>>
    /\ f.target <= f.at + 1
    /\ \A h \in Queued(f.queue) : h \in DOMAIN bd /\ bd[h].elem = f.at /\ h \notin ev.gone
    /\ QueueInOrder(f.queue, bd)
    /\ \A h \in ToSet(ev.heard) :
          bd[h].elem <= f.at /\ \A g \in Queued(f.queue) : Precedes(h, g, bd)
    /\ \A h \in ev.due :
          /\ Meant(f.target, f.ns, h, bd)
          /\ bd[h].gone \/ h \in ToSet(ev.heard) \/ h \in Queued(f.queue) \/ bd[h].elem > f.at
    /\ f.stopped => ev.due = {}
    /\ ~ev.finished

EventOK(ev, bd) ==
    /\ ev.due \subseteq DOMAIN bd /\ ToSet(ev.heard) \subseteq DOMAIN bd
    /\ \A j, k \in DOMAIN ev.heard : j < k => Precedes(ev.heard[j], ev.heard[k], bd)
    /\ \A h \in ev.gone : h \in DOMAIN bd /\ bd[h].gone /\ h \notin ToSet(ev.heard)
    /\ \A h \in ToSet(ev.heard) : bd[h].one => bd[h].gone
    /\ ev.finished => \A h \in ev.due : bd[h].gone \/ h \in ToSet(ev.heard)

\* An event that began after another one was triggered in its course, or the
\* other one was over, and those it took away were gone.
DuringOK(st, evs, bd) ==
    \A n \in DOMAIN evs : \A m \in 1 .. n - 1 : m \notin evs[n].during =>
        /\ \A k \in DOMAIN st : st[k].n # m
        /\ \A h \in ToSet(evs[m].heard) : bd[h].one => h \in evs[n].gone

StackOK(st, evs, bd) ==
    /\ st \in Seq(Frame) /\ evs \in Seq(Event) /\ Len(evs) <= MaxEvents
    /\ \A k \in DOMAIN st : st[k].n \in DOMAIN evs /\ FrameOK(st[k], evs[st[k].n], bd)
    /\ \A j, k \in DOMAIN st : j < k => st[j].n < st[k].n
    /\ \A n \in DOMAIN evs : EventOK(evs[n], bd)
    /\ DuringOK(st, evs, bd)

EventsIInv ==
    /\ HandlersOK(handlers, listener, bound)
    /\ StackOK(stack, events, bound)
    /\ offs \in Nat /\ throws \in Nat

-----------------------------------------------------------------------------
(* Sequences.                                                              *)

LEMMA SeqFacts ==
  ASSUME NEW X, NEW s \in Seq(X)
  PROVE  /\ Len(s) \in Nat /\ DOMAIN s = 1 .. Len(s)
         /\ \A k \in DOMAIN s : s[k] \in X
         /\ ToSet(s) \subseteq X
         /\ s = <<>> <=> Len(s) = 0
BY LenProperties DEF ToSet

LEMMA InToSet ==
  ASSUME NEW s, NEW x
  PROVE  x \in ToSet(s) <=> \E k \in DOMAIN s : s[k] = x
BY DEF ToSet

Increasing(s) == \A j, k \in DOMAIN s : j < k => s[j] < s[k]

\* What Filter keeps, and that it stays in order.
LEMMA FilterFacts ==
  ASSUME NEW X, NEW s \in Seq(X), NEW S
  PROVE  /\ Filter(s, S) \in Seq(X)
         /\ ToSet(Filter(s, S)) = ToSet(s) \cap S
         /\ Increasing(s) => Increasing(Filter(s, S))
<1>1. PICK r : r = Filter(s, S)
  OBVIOUS
<1>2. /\ r \in Seq(X)
      /\ \A i \in 1 .. Len(r) : \E j \in 1 .. Len(s) : s[j] \in S /\ r[i] = s[j]
  BY <1>1, FilterElements
<1>3. /\ \A k \in 1 .. Len(s) : s[k] \in S => \E i \in 1 .. Len(r) : r[i] = s[k]
      /\ \A i, j \in 1 .. Len(r) : i < j =>
               \E k, l \in 1 .. Len(s) :
                  k < l /\ s[k] \in S /\ s[l] \in S /\ r[i] = s[k] /\ r[j] = s[l]
  <2>1. /\ \A k \in 1 .. Len(s) : s[k] \in S =>
              \E i \in 1 .. Len(Filter(s, S)) : Filter(s, S)[i] = s[k]
        /\ \A i, j \in 1 .. Len(Filter(s, S)) : i < j =>
               \E k, l \in 1 .. Len(s) :
                  /\ k < l /\ s[k] \in S /\ s[l] \in S
                  /\ Filter(s, S)[i] = s[k] /\ Filter(s, S)[j] = s[l]
    BY FilterOrder
  <2>2. QED BY <1>1, <2>1
<1>4. DOMAIN r = 1 .. Len(r) /\ DOMAIN s = 1 .. Len(s)
  BY <1>2
<1>5. ToSet(r) = ToSet(s) \cap S
  <2>1. ASSUME NEW x \in ToSet(r) PROVE x \in ToSet(s) \cap S
    BY <1>2, <1>4 DEF ToSet
  <2>2. ASSUME NEW x \in ToSet(s) \cap S PROVE x \in ToSet(r)
    <3>1. PICK k \in 1 .. Len(s) : s[k] = x
      BY <1>4 DEF ToSet
    <3>2. PICK i \in 1 .. Len(r) : r[i] = s[k]
      BY <1>3, <3>1
    <3>3. QED BY <1>4, <3>1, <3>2 DEF ToSet
  <2>3. QED BY <2>1, <2>2
<1>6. ASSUME Increasing(s) PROVE Increasing(r)
  <2>1. SUFFICES ASSUME NEW i \in 1 .. Len(r), NEW j \in 1 .. Len(r), i < j
                 PROVE  r[i] < r[j]
    BY <1>4 DEF Increasing
  <2>2. PICK k \in 1 .. Len(s), l \in 1 .. Len(s) : k < l /\ r[i] = s[k] /\ r[j] = s[l]
    BY <1>3, <2>1
  <2>3. s[k] < s[l]
    BY <1>4, <1>6, <2>2 DEF Increasing
  <2>4. QED BY <2>2, <2>3
<1>7. QED BY <1>1, <1>2, <1>5, <1>6

\* What is in front of a place in the sequence and what is behind it.
LEMMA FilterSplit ==
  ASSUME NEW X, NEW s \in Seq(X), NEW S, NEW k \in 0 .. Len(s)
  PROVE  LET left == k - Cardinality(LeftOut(s, S, k))
         IN  /\ left \in 0 .. k /\ left <= Len(Filter(s, S))
             /\ \A i \in DOMAIN Filter(s, S) :
                   /\ i <= left => \E j \in 1 .. k : Filter(s, S)[i] = s[j]
                   /\ i > left => \E j \in k + 1 .. Len(s) : Filter(s, S)[i] = s[j]
<1>1. PICK r : r = Filter(s, S)
  OBVIOUS
<1>2. PICK f : f = Filtered(s, S)[k]
  OBVIOUS
<1>3. /\ f \in Seq(X) /\ IsFiniteSet(LeftOut(s, S, k))
      /\ Len(f) = k - Cardinality(LeftOut(s, S, k))
      /\ \A i \in 1 .. Len(f) : \E j \in 1 .. k : s[j] \in S /\ f[i] = s[j]
  BY <1>2, FilteredTo
<1>4. Len(f) <= Len(r) /\ \A i \in 1 .. Len(f) : r[i] = f[i]
  BY <1>1, <1>2, FilteredPrefix
<1>5. \A i \in Len(f) + 1 .. Len(r) : \E j \in k + 1 .. Len(s) : s[j] \in S /\ r[i] = s[j]
  BY <1>1, <1>2, FilteredSuffix
<1>6. Cardinality(LeftOut(s, S, k)) \in Nat
  BY <1>3, FS_CardinalityType
<1>7. Len(f) \in Nat /\ Len(f) \in 0 .. k
  BY <1>3, <1>6
<1>8. r \in Seq(X)
  BY <1>1, FilterElements
<1>9. Len(r) \in Nat /\ DOMAIN r = 1 .. Len(r)
  BY <1>8
<1>10. ASSUME NEW i \in DOMAIN r
       PROVE  /\ i <= Len(f) => \E j \in 1 .. k : r[i] = s[j]
              /\ i > Len(f) => \E j \in k + 1 .. Len(s) : r[i] = s[j]
  <2>1. CASE i <= Len(f)
    <3>1. i \in 1 .. Len(f)
      BY <1>7, <1>9, <2>1
    <3>2. r[i] = f[i]
      BY <1>4, <3>1
    <3>3. PICK j \in 1 .. k : s[j] \in S /\ f[i] = s[j]
      BY <1>3, <3>1
    <3>4. QED BY <1>7, <1>9, <2>1, <3>2, <3>3
  <2>2. CASE i > Len(f)
    <3>1. i \in Len(f) + 1 .. Len(r)
      BY <1>7, <1>9, <2>2
    <3>2. QED BY <1>5, <1>7, <1>9, <2>2, <3>1
  <2>3. QED BY <1>7, <1>9, <2>1, <2>2
<1>11. QED BY <1>1, <1>3, <1>4, <1>7, <1>10

LEMMA PrefixFacts ==
  ASSUME NEW X, NEW s \in Seq(X), NEW n, n = Len(s), NEW k \in 0 .. n
  PROVE  /\ SubSeq(s, 1, k) \in Seq(X) /\ Len(SubSeq(s, 1, k)) = k
         /\ \A i \in 1 .. k : SubSeq(s, 1, k)[i] = s[i]
<1>1. n \in Nat /\ \A i \in 1 .. n : s[i] \in X
  OBVIOUS
<1>2. QED BY <1>1

LEMMA SuffixFacts ==
  ASSUME NEW X, NEW s \in Seq(X), NEW n, n = Len(s), NEW k \in 0 .. n
  PROVE  /\ SubSeq(s, k + 1, n) \in Seq(X) /\ Len(SubSeq(s, k + 1, n)) = n - k
         /\ \A i \in 1 .. n - k : SubSeq(s, k + 1, n)[i] = s[k + i]
<1>1. n \in Nat /\ \A i \in 1 .. n : s[i] \in X
  OBVIOUS
<1>2. QED BY <1>1

LEMMA AppendFacts ==
  ASSUME NEW X, NEW s \in Seq(X), NEW x \in X, NEW n, n = Len(s)
  PROVE  /\ Append(s, x) \in Seq(X) /\ Len(Append(s, x)) = n + 1
         /\ Append(s, x)[n + 1] = x /\ DOMAIN Append(s, x) = 1 .. n + 1
         /\ \A i \in 1 .. n : Append(s, x)[i] = s[i]
<1>1. n \in Nat /\ DOMAIN s = 1 .. n
  OBVIOUS
<1>2. QED BY <1>1

LEMMA ConcatFacts ==
  ASSUME NEW X, NEW a \in Seq(X), NEW b \in Seq(X), NEW m, m = Len(a), NEW n, n = Len(b)
  PROVE  /\ a \o b \in Seq(X) /\ Len(a \o b) = m + n
         /\ \A i \in 1 .. m : (a \o b)[i] = a[i]
         /\ \A i \in m + 1 .. m + n : (a \o b)[i] = b[i - m]
<1>1. m \in Nat /\ n \in Nat
  OBVIOUS
<1>2. QED BY <1>1

\* r is s with x behind the first k elements.
IsInserted(r, s, k, x, X) ==
    /\ r \in Seq(X) /\ Len(r) = Len(s) + 1
    /\ \A i \in 1 .. k : r[i] = s[i]
    /\ r[k + 1] = x
    /\ \A i \in k + 2 .. Len(s) + 1 : r[i] = s[i - 1]

LEMMA InsertFacts ==
  ASSUME NEW X, NEW s \in Seq(X), NEW k \in 0 .. Len(s), NEW x \in X
  PROVE  IsInserted(InsertAt(s, k + 1, x), s, k, x, X)
<1>a. PICK n : n = Len(s)
  OBVIOUS
<1>b. PICK p : p = k + 1
  OBVIOUS
<1>1. n \in Nat /\ k + 1 - 1 = k /\ k \in 0 .. n
  BY <1>a
<1>2. PICK a : a = SubSeq(s, 1, k)
  OBVIOUS
<1>3. PICK c : c = SubSeq(s, k + 1, n)
  OBVIOUS
<1>4. a \in Seq(X) /\ Len(a) = k /\ \A i \in 1 .. k : a[i] = s[i]
  BY <1>a, <1>1, <1>2, PrefixFacts
<1>5. c \in Seq(X) /\ Len(c) = n - k /\ \A i \in 1 .. n - k : c[i] = s[k + i]
  BY <1>a, <1>1, <1>3, SuffixFacts
<1>6. PICK b : b = a \o <<x>>
  OBVIOUS
<1>7. <<x>> \in Seq(X) /\ Len(<<x>>) = 1 /\ <<x>>[1] = x
  OBVIOUS
<1>8. /\ b \in Seq(X) /\ Len(b) = k + 1
      /\ \A i \in 1 .. k : b[i] = a[i]
      /\ \A i \in k + 1 .. k + 1 : b[i] = <<x>>[i - k]
  <2>1. PICK y : y = <<x>>
    OBVIOUS
  <2>2. PICK o : o = 1
    OBVIOUS
  <2>3. a \in Seq(X) /\ y \in Seq(X) /\ k = Len(a) /\ o = Len(y)
    BY <1>4, <1>7, <2>1, <2>2
  <2>4. /\ a \o y \in Seq(X) /\ Len(a \o y) = k + o
        /\ \A i \in 1 .. k : (a \o y)[i] = a[i]
        /\ \A i \in k + 1 .. k + o : (a \o y)[i] = y[i - k]
    BY <2>3, ConcatFacts
  <2>5. QED BY <1>6, <2>1, <2>2, <2>4, Zenon
<1>9. b[k + 1] = x
  <2>1. b[k + 1] = <<x>>[k + 1 - k] /\ k + 1 - k = 1
    BY <1>1, <1>8
  <2>2. QED BY <1>7, <2>1
<1>10. InsertAt(s, p, x) = b \o c
  <2>1. InsertAt(s, p, x) = SubSeq(s, 1, p - 1) \o <<x>> \o SubSeq(s, p, Len(s))
    BY DEF InsertAt
  <2>2. p - 1 = k
    BY <1>b
  <2>3. InsertAt(s, p, x) = SubSeq(s, 1, k) \o <<x>> \o SubSeq(s, k + 1, n)
    BY <1>a, <1>b, <2>1, <2>2, Zenon
  <2>4. QED BY <1>2, <1>3, <1>6, <2>3, Zenon
<1>11. PICK r : r = b \o c
  OBVIOUS
<1>12. /\ r \in Seq(X) /\ Len(r) = k + 1 + (n - k)
       /\ \A i \in 1 .. k + 1 : r[i] = b[i]
       /\ \A i \in k + 1 + 1 .. k + 1 + (n - k) : r[i] = c[i - (k + 1)]
  <2>1. PICK m : m = k + 1
    OBVIOUS
  <2>2. PICK q : q = n - k
    OBVIOUS
  <2>3. m = Len(b) /\ q = Len(c)
    BY <1>5, <1>8, <2>1, <2>2
  <2>4. /\ r \in Seq(X) /\ Len(r) = m + q
        /\ \A i \in 1 .. m : r[i] = b[i]
        /\ \A i \in m + 1 .. m + q : r[i] = c[i - m]
    <3>1. b \in Seq(X) /\ c \in Seq(X)
      BY <1>5, <1>8
    <3>2. /\ b \o c \in Seq(X) /\ Len(b \o c) = m + q
          /\ \A i \in 1 .. m : (b \o c)[i] = b[i]
          /\ \A i \in m + 1 .. m + q : (b \o c)[i] = c[i - m]
      BY <2>3, <3>1, ConcatFacts
    <3>3. QED BY <1>11, <3>2, Zenon
  <2>5. QED BY <2>1, <2>2, <2>4, Zenon
<1>13. Len(r) = n + 1
  BY <1>1, <1>12
<1>14. ASSUME NEW i \in 1 .. k PROVE r[i] = s[i]
  <2>1. i \in 1 .. k + 1
    OBVIOUS
  <2>2. QED BY <1>4, <1>8, <1>12, <2>1
<1>15. r[k + 1] = x
  <2>1. k + 1 \in 1 .. k + 1
    OBVIOUS
  <2>2. QED BY <1>9, <1>12, <2>1
<1>16. ASSUME NEW i \in k + 2 .. n + 1 PROVE r[i] = s[i - 1]
  <2>1. i \in k + 1 + 1 .. k + 1 + (n - k) /\ i - (k + 1) \in 1 .. n - k
    BY <1>1
  <2>2. r[i] = c[i - (k + 1)] /\ c[i - (k + 1)] = s[k + (i - (k + 1))]
    BY <1>5, <1>12, <2>1
  <2>3. k + (i - (k + 1)) = i - 1
    BY <1>1
  <2>4. QED BY <2>2, <2>3
<1>17. IsInserted(r, s, k, x, X)
  BY <1>a, <1>12, <1>13, <1>14, <1>15, <1>16 DEF IsInserted
<1>18. QED BY <1>b, <1>10, <1>11, <1>17

-----------------------------------------------------------------------------
(* Binding and unbinding.                                                  *)

ListType == [list : Seq(Handler), delegateCount : 0 .. MaxBound]

LEMMA BindingFacts ==
  ASSUME NEW bd, BindingsOK(bd)
  PROVE  /\ Len(bd) \in Nat /\ DOMAIN bd = 1 .. Len(bd) /\ DOMAIN bd \subseteq Handler
         /\ \A h \in DOMAIN bd :
               /\ bd[h].elem \in Elems /\ bd[h].sel \in 0 .. Elements /\ bd[h].sel < bd[h].elem
               /\ bd[h].ns \in BOOLEAN /\ bd[h].one \in BOOLEAN /\ bd[h].gone \in BOOLEAN
<1>1. Len(bd) \in Nat /\ DOMAIN bd = 1 .. Len(bd) /\ \A h \in DOMAIN bd : bd[h] \in Binding
  BY SeqFacts DEF BindingsOK
<1>2. MaxBound \in Nat /\ Len(bd) <= MaxBound /\ \A h \in DOMAIN bd : bd[h].sel < bd[h].elem
  BY EventsAssumption DEF BindingsOK
<1>3. QED BY <1>1, <1>2 DEF Binding, Handler

\* `on' adds the handler at its place: behind those it has to follow.
LEMMA ListInserted ==
  ASSUME NEW e \in Elems, NEW c \in ListType, NEW bd, BindingsOK(bd), ListOK(e, c, bd),
         NEW b \in Binding, b.elem = e, ~b.gone, b.sel < b.elem,
         NEW n, n = Len(bd), n < MaxBound
  PROVE  LET d == Inserted(c, n + 1, b.sel # 0)
         IN  d \in ListType /\ d.list # <<>> /\ ListOK(e, d, Append(bd, b))
<1>1. PICK h : h = n + 1
  OBVIOUS
<1>2. PICK bd2 : bd2 = Append(bd, b)
  OBVIOUS
<1>3. n \in Nat /\ DOMAIN bd = 1 .. n /\ MaxBound \in Nat /\ h \in Nat /\ h \in Handler
  BY <1>1, BindingFacts, EventsAssumption DEF Handler
<1>4. Len(bd2) = n + 1 /\ DOMAIN bd2 = 1 .. n + 1 /\ bd2[h] = b /\ \A k \in 1 .. n : bd2[k] = bd[k]
  <2>1. bd \in Seq(Binding)
    BY DEF BindingsOK
  <2>2. QED BY <1>1, <1>2, <2>1, AppendFacts
<1>5. PICK s : s = c.list
  OBVIOUS
<1>6. PICK m : m = Len(s)
  OBVIOUS
<1>7. PICK q : q = c.delegateCount
  OBVIOUS
<1>8. s \in Seq(Handler) /\ m \in Nat /\ DOMAIN s = 1 .. m /\ q \in 0 .. MaxBound
  BY <1>5, <1>6, <1>7, SeqFacts DEF ListType
<1>9. /\ ToSet(s) = {k \in DOMAIN bd : bd[k].elem = e /\ ~bd[k].gone}
      /\ q <= m /\ q <= n
      /\ \A k \in 1 .. m : bd[s[k]].sel # 0 <=> k <= q
      /\ \A j, k \in 1 .. m : j < k /\ (k <= q \/ j > q) => s[j] < s[k]
  BY <1>5, <1>6, <1>7, <1>8 DEF ListOK
<1>10. \A k \in 1 .. m : s[k] \in 1 .. n /\ s[k] < h
  <2>1. ASSUME NEW k \in 1 .. m PROVE s[k] \in 1 .. n
    BY <1>3, <1>8, <1>9, InToSet
  <2>2. QED BY <1>1, <1>3, <2>1
<1>11. \A k \in 1 .. m : bd2[s[k]] = bd[s[k]]
  BY <1>4, <1>10
<1>12. {k \in DOMAIN bd2 : bd2[k].elem = e /\ ~bd2[k].gone} = ToSet(s) \cup {h}
  <2>1. ASSUME NEW k PROVE (k \in DOMAIN bd2 /\ bd2[k].elem = e /\ ~bd2[k].gone) <=> k \in ToSet(s) \cup {h}
    <3>1. CASE k = h
      BY <1>1, <1>3, <1>4, <3>1
    <3>2. CASE k # h
      <4>1. k \in DOMAIN bd2 <=> k \in 1 .. n
        BY <1>1, <1>3, <1>4, <3>2
      <4>2. k \in 1 .. n => bd2[k] = bd[k]
        BY <1>4
      <4>3. k \in ToSet(s) <=> k \in 1 .. n /\ bd[k].elem = e /\ ~bd[k].gone
        BY <1>3, <1>9
      <4>4. QED BY <3>2, <4>1, <4>2, <4>3
    <3>3. QED BY <3>1, <3>2
  <2>2. QED BY <2>1
<1>13. CASE b.sel # 0
  <2>1. PICK r : r = InsertAt(s, q + 1, h)
    OBVIOUS
  <2>2. q \in 0 .. m
    BY <1>8, <1>9
  <2>3. /\ r \in Seq(Handler) /\ Len(r) = m + 1
        /\ \A i \in 1 .. q : r[i] = s[i]
        /\ r[q + 1] = h
        /\ \A i \in q + 2 .. m + 1 : r[i] = s[i - 1]
    <3>1. s \in Seq(Handler) /\ q \in 0 .. Len(s) /\ h \in Handler
      BY <1>3, <1>6, <1>8, <2>2
    <3>2. IsInserted(InsertAt(s, q + 1, h), s, q, h, Handler)
      BY <3>1, InsertFacts
    <3>3. QED BY <1>6, <2>1, <3>2 DEF IsInserted
  <2>4. DOMAIN r = 1 .. m + 1
    BY <2>3, SeqFacts
  <2>5. ToSet(r) = ToSet(s) \cup {h}
    <3>1. ASSUME NEW x \in ToSet(r) PROVE x \in ToSet(s) \cup {h}
      <4>1. PICK i \in 1 .. m + 1 : r[i] = x
        BY <2>4, InToSet
      <4>2. CASE i <= q
        <5>1. i \in 1 .. m /\ s[i] = x
          BY <1>8, <2>2, <2>3, <4>1, <4>2
        <5>2. QED BY <1>8, <5>1, InToSet
      <4>3. CASE i = q + 1
        BY <2>3, <4>1, <4>3
      <4>4. CASE i > q + 1
        <5>1. i - 1 \in 1 .. m /\ s[i - 1] = x
          BY <1>8, <2>2, <2>3, <4>1, <4>4
        <5>2. QED BY <1>8, <5>1, InToSet
      <4>5. QED BY <2>2, <4>2, <4>3, <4>4
    <3>2. ASSUME NEW x \in ToSet(s) PROVE x \in ToSet(r)
      <4>1. PICK i \in 1 .. m : s[i] = x
        BY <1>8, InToSet
      <4>2. CASE i <= q
        <5>1. i \in 1 .. m + 1 /\ r[i] = x
          BY <1>8, <2>2, <2>3, <4>1, <4>2
        <5>2. QED BY <2>4, <5>1, InToSet
      <4>3. CASE i > q
        <5>1. i + 1 \in q + 2 .. m + 1 /\ i + 1 - 1 = i
          BY <1>8, <2>2, <4>3
        <5>2. r[i + 1] = x /\ i + 1 \in 1 .. m + 1
          BY <1>8, <2>2, <2>3, <4>1, <5>1
        <5>3. QED BY <2>4, <5>2, InToSet
      <4>4. QED BY <2>2, <4>2, <4>3
    <3>3. h \in ToSet(r)
      <4>1. q + 1 \in 1 .. m + 1
        BY <1>8, <2>2
      <4>2. QED BY <2>3, <2>4, <4>1, InToSet
    <3>4. QED BY <3>1, <3>2, <3>3
  <2>6. ASSUME NEW k \in 1 .. m + 1 PROVE bd2[r[k]].sel # 0 <=> k <= q + 1
    <3>1. CASE k <= q
      <4>1. k \in 1 .. m /\ r[k] = s[k] /\ k <= q + 1
        BY <1>8, <2>2, <2>3, <3>1
      <4>2. QED BY <1>9, <1>11, <3>1, <4>1
    <3>2. CASE k = q + 1
      BY <1>4, <1>13, <2>3, <3>2
    <3>3. CASE k > q + 1
      <4>1. k - 1 \in 1 .. m /\ r[k] = s[k - 1] /\ ~(k - 1 <= q) /\ ~(k <= q + 1)
        BY <1>8, <2>2, <2>3, <3>3
      <4>2. QED BY <1>9, <1>11, <4>1
    <3>4. QED BY <2>2, <3>1, <3>2, <3>3
  <2>7. ASSUME NEW j \in 1 .. m + 1, NEW k \in 1 .. m + 1, j < k, k <= q + 1 \/ j > q + 1
        PROVE  r[j] < r[k]
    <3>1. CASE k <= q
      <4>1. j \in 1 .. m /\ k \in 1 .. m /\ r[j] = s[j] /\ r[k] = s[k]
        BY <1>8, <2>2, <2>3, <2>7, <3>1
      <4>2. QED BY <1>9, <2>7, <3>1, <4>1
    <3>2. CASE k = q + 1
      <4>1. j \in 1 .. m /\ r[j] = s[j] /\ r[k] = h
        BY <1>8, <2>2, <2>3, <2>7, <3>2
      <4>2. QED BY <1>10, <4>1
    <3>3. CASE k > q + 1
      <4>1. /\ j - 1 \in 1 .. m /\ k - 1 \in 1 .. m /\ r[j] = s[j - 1] /\ r[k] = s[k - 1]
            /\ j - 1 < k - 1 /\ j - 1 > q
        BY <1>8, <2>2, <2>3, <2>7, <3>3
      <4>2. QED BY <1>9, <4>1
    <3>4. QED BY <2>2, <3>1, <3>2, <3>3
  <2>8. PICK d : d = [list |-> r, delegateCount |-> q + 1]
    OBVIOUS
  <2>9. Inserted(c, n + 1, b.sel # 0) = d
    BY <1>1, <1>5, <1>7, <1>13, <2>1, <2>8 DEF Inserted
  <2>10. d.list = r /\ d.delegateCount = q + 1 /\ d \in ListType
    <3>1. q + 1 \in 0 .. MaxBound
      BY <1>3, <1>8, <1>9
    <3>2. QED BY <2>3, <2>8, <3>1 DEF ListType
  <2>11. ListOK(e, d, bd2)
    <3>1. ToSet(d.list) = {k \in DOMAIN bd2 : bd2[k].elem = e /\ ~bd2[k].gone}
      BY <1>12, <2>5, <2>10
    <3>2. q + 1 <= m + 1 /\ q + 1 <= n + 1
      BY <1>3, <1>8, <1>9
    <3>3. Len(d.list) = m + 1 /\ Len(bd2) = n + 1 /\ DOMAIN d.list = 1 .. m + 1
      BY <1>4, <2>3, <2>4, <2>10
    <3>4. QED BY <2>6, <2>7, <2>10, <3>1, <3>2, <3>3 DEF ListOK
  <2>12. d.list # <<>>
    <3>1. Len(d.list) # 0
      BY <1>8, <2>3, <2>10
    <3>2. QED BY <3>1
  <2>13. QED BY <1>2, <2>9, <2>10, <2>11, <2>12
<1>14. CASE b.sel = 0
  <2>1. PICK r : r = Append(s, h)
    OBVIOUS
  <2>2. /\ r \in Seq(Handler) /\ Len(r) = m + 1 /\ DOMAIN r = 1 .. m + 1
        /\ r[m + 1] = h /\ \A i \in 1 .. m : r[i] = s[i]
    BY <1>3, <1>6, <1>8, <2>1, AppendFacts
  <2>3. ToSet(r) = ToSet(s) \cup {h}
    <3>1. ASSUME NEW x \in ToSet(r) PROVE x \in ToSet(s) \cup {h}
      <4>1. PICK i \in 1 .. m + 1 : r[i] = x
        BY <2>2, InToSet
      <4>2. CASE i = m + 1
        BY <2>2, <4>1, <4>2
      <4>3. CASE i # m + 1
        <5>1. i \in 1 .. m /\ s[i] = x
          BY <1>8, <2>2, <4>1, <4>3
        <5>2. QED BY <1>8, <5>1, InToSet
      <4>4. QED BY <4>2, <4>3
    <3>2. ASSUME NEW x \in ToSet(s) PROVE x \in ToSet(r)
      <4>1. PICK i \in 1 .. m : s[i] = x
        BY <1>8, InToSet
      <4>2. i \in 1 .. m + 1 /\ r[i] = x
        BY <1>8, <2>2, <4>1
      <4>3. QED BY <2>2, <4>2, InToSet
    <3>3. h \in ToSet(r)
      <4>1. m + 1 \in 1 .. m + 1
        BY <1>8
      <4>2. QED BY <2>2, <4>1, InToSet
    <3>4. QED BY <3>1, <3>2, <3>3
  <2>4. ASSUME NEW k \in 1 .. m + 1 PROVE bd2[r[k]].sel # 0 <=> k <= q
    <3>1. CASE k = m + 1
      <4>1. ~(k <= q)
        BY <1>8, <1>9, <3>1
      <4>2. QED BY <1>4, <1>14, <2>2, <3>1, <4>1
    <3>2. CASE k # m + 1
      <4>1. k \in 1 .. m /\ r[k] = s[k]
        BY <1>8, <2>2, <3>2
      <4>2. QED BY <1>9, <1>11, <4>1
    <3>3. QED BY <3>1, <3>2
  <2>5. ASSUME NEW j \in 1 .. m + 1, NEW k \in 1 .. m + 1, j < k, k <= q \/ j > q
        PROVE  r[j] < r[k]
    <3>1. j \in 1 .. m /\ r[j] = s[j]
      BY <1>8, <2>2, <2>5
    <3>2. CASE k = m + 1
      BY <1>10, <2>2, <3>1, <3>2
    <3>3. CASE k # m + 1
      <4>1. k \in 1 .. m /\ r[k] = s[k]
        BY <1>8, <2>2, <3>3
      <4>2. QED BY <1>9, <2>5, <3>1, <4>1
    <3>4. QED BY <3>2, <3>3
  <2>6. PICK d : d = [c EXCEPT !.list = r]
    OBVIOUS
  <2>7. Inserted(c, n + 1, b.sel # 0) = d
    BY <1>1, <1>5, <1>14, <2>1, <2>6 DEF Inserted
  <2>8. d.list = r /\ d.delegateCount = q /\ d \in ListType
    BY <1>7, <2>2, <2>6 DEF ListType
  <2>9. ListOK(e, d, bd2)
    <3>1. ToSet(d.list) = {k \in DOMAIN bd2 : bd2[k].elem = e /\ ~bd2[k].gone}
      BY <1>12, <2>3, <2>8
    <3>2. q <= m + 1 /\ q <= n + 1
      BY <1>3, <1>8, <1>9
    <3>3. Len(d.list) = m + 1 /\ Len(bd2) = n + 1 /\ DOMAIN d.list = 1 .. m + 1
      BY <1>4, <2>2, <2>8
    <3>4. QED BY <2>4, <2>5, <2>8, <3>1, <3>2, <3>3 DEF ListOK
  <2>10. d.list # <<>>
    <3>1. Len(d.list) # 0
      BY <1>8, <2>2, <2>8
    <3>2. QED BY <3>1
  <2>11. QED BY <1>2, <2>7, <2>8, <2>9, <2>10
<1>15. QED BY <1>13, <1>14

\* What is bound when the handlers in hs are not any more.
Unbound(bd, hs) == [h \in DOMAIN bd |-> [bd[h] EXCEPT !.gone = @ \/ h \in hs]]

LEMMA UnboundFacts ==
  ASSUME NEW bd, BindingsOK(bd), NEW hs
  PROVE  /\ BindingsOK(Unbound(bd, hs)) /\ Keeps(bd, Unbound(bd, hs))
         /\ Len(Unbound(bd, hs)) = Len(bd) /\ DOMAIN Unbound(bd, hs) = DOMAIN bd
         /\ \A h \in DOMAIN bd :
               /\ Unbound(bd, hs)[h].elem = bd[h].elem /\ Unbound(bd, hs)[h].sel = bd[h].sel
               /\ Unbound(bd, hs)[h].gone <=> bd[h].gone \/ h \in hs
<1>1. /\ Len(bd) \in Nat /\ DOMAIN bd = 1 .. Len(bd) /\ bd \in Seq(Binding)
      /\ \A h \in DOMAIN bd : bd[h] \in Binding
  BY BindingFacts, SeqFacts DEF BindingsOK
<1>2. PICK bd2 : bd2 = Unbound(bd, hs)
  OBVIOUS
<1>3. DOMAIN bd2 = DOMAIN bd /\ \A h \in DOMAIN bd : bd2[h] = [bd[h] EXCEPT !.gone = @ \/ h \in hs]
  BY <1>2 DEF Unbound
<1>4. ASSUME NEW h \in DOMAIN bd
      PROVE  /\ bd2[h] \in Binding
             /\ bd2[h].elem = bd[h].elem /\ bd2[h].sel = bd[h].sel
             /\ bd2[h].ns = bd[h].ns /\ bd2[h].one = bd[h].one
             /\ bd2[h].gone <=> bd[h].gone \/ h \in hs
  <2>1. PICK b : b = bd[h]
    OBVIOUS
  <2>2. b \in Binding /\ bd2[h] = [b EXCEPT !.gone = @ \/ h \in hs]
    BY <1>1, <1>3, <2>1
  <2>3. [b EXCEPT !.gone = @ \/ h \in hs] \in Binding
    BY <2>2 DEF Binding
  <2>4. /\ bd2[h].elem = b.elem /\ bd2[h].sel = b.sel
        /\ bd2[h].ns = b.ns /\ bd2[h].one = b.one
    BY <2>2 DEF Binding
  <2>5. bd2[h].gone <=> b.gone \/ h \in hs
    BY <2>2 DEF Binding
  <2>6. QED BY <2>1, <2>2, <2>3, <2>4, <2>5
<1>5. bd2 \in Seq(Binding) /\ Len(bd2) = Len(bd)
  <2>1. bd2 = [h \in 1 .. Len(bd) |-> bd2[h]]
    BY <1>1, <1>2, <1>3 DEF Unbound
  <2>2. bd2 \in [1 .. Len(bd) -> Binding]
    BY <1>1, <1>4, <2>1
  <2>3. QED BY <1>1, <2>2
<1>6. BindingsOK(bd2)
  BY <1>3, <1>4, <1>5 DEF BindingsOK
<1>7. Keeps(bd, bd2)
  BY <1>3, <1>4 DEF Keeps
<1>8. QED BY <1>2, <1>3, <1>4, <1>5, <1>6, <1>7

\* `off' leaves the other handlers in order, and counts the delegated ones.
LEMMA ListWithout ==
  ASSUME NEW e \in Elems, NEW c \in ListType, BindingsOK(bound), ListOK(e, c, bound),
         NEW hs, hs \subseteq ToSet(c.list)
  PROVE  LET d == Without(c, hs)
         IN  /\ d \in ListType /\ ListOK(e, d, Unbound(bound, hs))
             /\ d.list # <<>> <=> ~(ToSet(c.list) \subseteq hs)
<1>1. PICK s : s = c.list
  OBVIOUS
<1>2. PICK m : m = Len(s)
  OBVIOUS
<1>3. PICK q : q = c.delegateCount
  OBVIOUS
<1>4. PICK S : S = ToSet(s) \ hs
  OBVIOUS
<1>5. PICK r : r = Filter(s, S)
  OBVIOUS
<1>6. PICK bd2 : bd2 = Unbound(bound, hs)
  OBVIOUS
<1>7. s \in Seq(Handler) /\ m \in Nat /\ DOMAIN s = 1 .. m /\ q \in 0 .. MaxBound /\ MaxBound \in Nat
  BY <1>1, <1>2, <1>3, SeqFacts, EventsAssumption DEF ListType
<1>8. /\ ToSet(s) = {k \in DOMAIN bound : bound[k].elem = e /\ ~bound[k].gone}
      /\ q <= m /\ q <= Len(bound)
      /\ \A k \in 1 .. m : bound[s[k]].sel # 0 <=> k <= q
      /\ \A j, k \in 1 .. m : j < k /\ (k <= q \/ j > q) => s[j] < s[k]
  BY <1>1, <1>2, <1>3, <1>7 DEF ListOK
<1>9. /\ DOMAIN bd2 = DOMAIN bound /\ Len(bd2) = Len(bound) /\ Len(bound) \in Nat
      /\ \A h \in DOMAIN bound :
            /\ bd2[h].elem = bound[h].elem /\ bd2[h].sel = bound[h].sel
            /\ bd2[h].gone <=> bound[h].gone \/ h \in hs
  BY <1>6, UnboundFacts, BindingFacts
<1>10. /\ r \in Seq(Handler) /\ ToSet(r) = S /\ DOMAIN r = 1 .. Len(r) /\ Len(r) \in Nat
  <2>1. r \in Seq(Handler) /\ ToSet(r) = ToSet(s) \cap S
    BY <1>5, <1>7, FilterFacts
  <2>2. QED BY <1>4, <2>1, SeqFacts
<1>11. PICK left : left = q - Cardinality(LeftOut(s, S, q))
  OBVIOUS
<1>12. /\ left \in 0 .. q /\ left <= Len(r)
       /\ \A i \in DOMAIN r :
             /\ i <= left => \E j \in 1 .. q : r[i] = s[j]
             /\ i > left => \E j \in q + 1 .. m : r[i] = s[j]
  <2>1. q \in 0 .. Len(s)
    BY <1>2, <1>7, <1>8
  <2>2. LET l == q - Cardinality(LeftOut(s, S, q))
        IN  /\ l \in 0 .. q /\ l <= Len(Filter(s, S))
            /\ \A i \in DOMAIN Filter(s, S) :
                  /\ i <= l => \E j \in 1 .. q : Filter(s, S)[i] = s[j]
                  /\ i > l => \E j \in q + 1 .. Len(s) : Filter(s, S)[i] = s[j]
    BY <1>7, <2>1, FilterSplit
  <2>3. QED BY <1>2, <1>5, <1>11, <2>2, Zenon
<1>13. LeftOut(s, S, q) = {k \in DOMAIN s : s[k] \in hs /\ bound[s[k]].sel # 0}
  <2>1. \A k \in 1 .. m : s[k] \in ToSet(s)
    BY <1>7, InToSet
  <2>2. ASSUME NEW k
        PROVE  (k \in 1 .. q /\ s[k] \notin S)
               <=> (k \in 1 .. m /\ s[k] \in hs /\ bound[s[k]].sel # 0)
    <3>1. k \in 1 .. q <=> k \in 1 .. m /\ k <= q
      BY <1>7, <1>8
    <3>2. k \in 1 .. m => (s[k] \notin S <=> s[k] \in hs)
      BY <1>4, <2>1
    <3>3. k \in 1 .. m => (bound[s[k]].sel # 0 <=> k <= q)
      BY <1>8
    <3>4. QED BY <3>1, <3>2, <3>3
  <2>3. QED BY <1>7, <2>2 DEF LeftOut
<1>14. \A i, j \in 1 .. Len(r) : i < j =>
          \E k, l \in 1 .. m : k < l /\ r[i] = s[k] /\ r[j] = s[l]
  <2>1. \A i, j \in 1 .. Len(Filter(s, S)) : i < j =>
          \E k, l \in 1 .. Len(s) :
             /\ k < l /\ s[k] \in S /\ s[l] \in S
             /\ Filter(s, S)[i] = s[k] /\ Filter(s, S)[j] = s[l]
    <3>1. s \in Seq(Handler)
      BY <1>7
    <3>2. QED BY <3>1, FilterOrder
  <2>2. QED BY <1>2, <1>5, <2>1
<1>15. \A k \in 1 .. m : s[k] \in DOMAIN bound /\ bd2[s[k]].sel = bound[s[k]].sel
  BY <1>7, <1>8, <1>9, InToSet
<1>16. ASSUME NEW i \in 1 .. Len(r) PROVE bd2[r[i]].sel # 0 <=> i <= left
  <2>1. CASE i <= left
    <3>1. PICK j \in 1 .. q : r[i] = s[j]
      BY <1>10, <1>12, <2>1
    <3>2. j \in 1 .. m /\ j <= q
      BY <1>7, <1>8
    <3>3. QED BY <1>8, <1>15, <2>1, <3>1, <3>2
  <2>2. CASE ~(i <= left)
    <3>1. i > left
      BY <1>12, <2>2
    <3>2. PICK j \in q + 1 .. m : r[i] = s[j]
      BY <1>10, <1>12, <3>1
    <3>3. j \in 1 .. m /\ ~(j <= q)
      BY <1>7, <1>8
    <3>4. QED BY <1>8, <1>15, <2>2, <3>2, <3>3
  <2>3. QED BY <2>1, <2>2
<1>17. ASSUME NEW i \in 1 .. Len(r), NEW j \in 1 .. Len(r), i < j, j <= left \/ i > left
       PROVE  r[i] < r[j]
  <2>1. PICK k \in 1 .. m, l \in 1 .. m : k < l /\ r[i] = s[k] /\ r[j] = s[l]
    BY <1>14, <1>17
  <2>2. bd2[r[i]].sel # 0 <=> k <= q
    BY <1>8, <1>15, <2>1
  <2>3. bd2[r[j]].sel # 0 <=> l <= q
    BY <1>8, <1>15, <2>1
  <2>4. (i <= left <=> k <= q) /\ (j <= left <=> l <= q)
    BY <1>16, <2>2, <2>3
  <2>5. l <= q \/ k > q
    BY <1>7, <1>12, <1>17, <2>4
  <2>6. QED BY <1>8, <2>1, <2>5
<1>18. PICK d : d = [list |-> r, delegateCount |-> left]
  OBVIOUS
<1>19. Without(c, hs) = d
  <2>1. left = c.delegateCount - Cardinality({k \in DOMAIN c.list : c.list[k] \in hs /\ bound[c.list[k]].sel # 0})
    BY <1>1, <1>3, <1>11, <1>13
  <2>2. r = Filter(c.list, ToSet(c.list) \ hs)
    BY <1>1, <1>4, <1>5
  <2>3. QED BY <1>18, <2>1, <2>2, Zenon DEF Without
<1>20. d.list = r /\ d.delegateCount = left /\ d \in ListType
  <2>1. left \in 0 .. MaxBound
    BY <1>7, <1>12
  <2>2. QED BY <1>10, <1>18, <2>1 DEF ListType
<1>21. ListOK(e, d, bd2)
  <2>1. ToSet(d.list) = {k \in DOMAIN bd2 : bd2[k].elem = e /\ ~bd2[k].gone}
    BY <1>4, <1>8, <1>9, <1>10, <1>20
  <2>2. left <= Len(r) /\ left <= Len(bd2)
    BY <1>7, <1>8, <1>9, <1>12
  <2>3. QED BY <1>10, <1>16, <1>17, <1>20, <2>1, <2>2 DEF ListOK
<1>22. d.list # <<>> <=> ~(ToSet(c.list) \subseteq hs)
  <2>1. r # <<>> <=> ToSet(r) # {}
    <3>1. r # <<>> <=> Len(r) # 0
      BY <1>10
    <3>2. Len(r) # 0 <=> \E k \in DOMAIN r : TRUE
      <4>1. PICK l : l = Len(r)
        OBVIOUS
      <4>2. l \in Nat /\ DOMAIN r = 1 .. l
        BY <1>10, <4>1
      <4>3. l # 0 => 1 \in 1 .. l
        BY <4>2
      <4>4. l = 0 => 1 .. l = {}
        OBVIOUS
      <4>5. QED BY <4>1, <4>2, <4>3, <4>4
    <3>3. ToSet(r) # {} <=> \E k \in DOMAIN r : TRUE
      BY DEF ToSet
    <3>4. QED BY <3>1, <3>2, <3>3
  <2>2. QED BY <1>1, <1>4, <1>10, <1>20, <2>1
<1>23. QED BY <1>6, <1>19, <1>20, <1>21, <1>22

LEMMA ListElsewhere ==
  ASSUME NEW e, NEW c, NEW bd, ListOK(e, c, bd), NEW bd2, Len(bd) <= Len(bd2),
         Len(bd) \in Nat, Len(bd2) \in Nat, c \in ListType,
         \A h \in DOMAIN bd : h \in DOMAIN bd2 /\ bd2[h].sel = bd[h].sel,
         {h \in DOMAIN bd2 : bd2[h].elem = e /\ ~bd2[h].gone}
            = {h \in DOMAIN bd : bd[h].elem = e /\ ~bd[h].gone}
  PROVE  ListOK(e, c, bd2)
<1>1. c.delegateCount <= Len(bd2)
  BY DEF ListOK, ListType
<1>2. \A k \in DOMAIN c.list : c.list[k] \in DOMAIN bd
  BY InToSet DEF ListOK
<1>3. \A k \in DOMAIN c.list : bd2[c.list[k]].sel = bd[c.list[k]].sel
  BY <1>2
<1>4. QED BY <1>1, <1>3 DEF ListOK

LEMMA OnHandlers ==
  ASSUME HandlersOK(handlers, listener, bound), NEW e \in Elems, On(e)
  PROVE  HandlersOK(handlers, listener, bound)' /\ Keeps(bound, bound')
<1>1. PICK o \in Options(e) :
        /\ handlers' = [handlers EXCEPT ![e] = Inserted(@, Len(bound) + 1, o.sel # 0)]
        /\ bound' = Append(bound,
              [elem |-> e, sel |-> o.sel, ns |-> o.ns, one |-> o.one, gone |-> FALSE])
  BY DEF On
<1>2. PICK b : b = [elem |-> e, sel |-> o.sel, ns |-> o.ns, one |-> o.one, gone |-> FALSE]
  OBVIOUS
<1>3. b \in Binding /\ b.elem = e /\ ~b.gone /\ b.sel < b.elem /\ b.sel = o.sel
  <2>1. o.sel \in 0 .. e - 1 /\ o.ns \in BOOLEAN /\ o.one \in BOOLEAN /\ e \in 1 .. Elements /\ Elements \in Nat
    BY EventsAssumption DEF Options, Elems
  <2>2. o.sel \in 0 .. Elements /\ o.sel < e
    BY <2>1
  <2>3. QED BY <1>2, <2>1, <2>2 DEF Binding
<1>4. PICK n : n = Len(bound)
  OBVIOUS
<1>5. /\ BindingsOK(bound) /\ bound \in Seq(Binding)
      /\ handlers \in [Elems -> ListType] /\ listener \in [Elems -> BOOLEAN]
      /\ \A f \in Elems : ListOK(f, handlers[f], bound) /\ (listener[f] <=> handlers[f].list # <<>>)
  BY DEF HandlersOK, BindingsOK, ListType
<1>6. n \in Nat /\ n < MaxBound /\ MaxBound \in Nat /\ DOMAIN bound = 1 .. n
  BY <1>4, <1>5, EventsAssumption, BindingFacts DEF On
<1>7. /\ bound' \in Seq(Binding) /\ Len(bound') = n + 1 /\ DOMAIN bound' = 1 .. n + 1
      /\ bound'[n + 1] = b /\ \A k \in 1 .. n : bound'[k] = bound[k]
  BY <1>1, <1>2, <1>3, <1>4, <1>5, AppendFacts
<1>8. BindingsOK(bound')
  <2>1. \A h \in 1 .. n : bound[h].sel < bound[h].elem
    BY <1>5, <1>6, BindingFacts
  <2>2. \A h \in 1 .. n + 1 : h \in 1 .. n \/ h = n + 1
    BY <1>6
  <2>3. \A h \in 1 .. n + 1 : bound'[h].sel < bound'[h].elem
    BY <1>3, <1>7, <2>1, <2>2
  <2>4. QED BY <1>6, <1>7, <2>3 DEF BindingsOK
<1>9. Keeps(bound, bound')
  <2>1. \A h \in 1 .. n : h \in 1 .. n + 1
    BY <1>6
  <2>2. QED BY <1>6, <1>7, <2>1 DEF Keeps
<1>10. PICK d : d = Inserted(handlers[e], n + 1, b.sel # 0)
  OBVIOUS
<1>11. d \in ListType /\ d.list # <<>> /\ ListOK(e, d, bound')
  <2>1. handlers[e] \in ListType /\ ListOK(e, handlers[e], bound)
    BY <1>5
  <2>2. LET r == Inserted(handlers[e], n + 1, b.sel # 0)
        IN  r \in ListType /\ r.list # <<>> /\ ListOK(e, r, Append(bound, b))
    BY <1>3, <1>4, <1>5, <1>6, <2>1, ListInserted
  <2>3. QED BY <1>1, <1>2, <1>10, <2>2
<1>12. handlers' = [handlers EXCEPT ![e] = d]
  BY <1>1, <1>3, <1>4, <1>10
<1>13. listener' = [listener EXCEPT ![e] = TRUE]
  BY DEF On
<1>14. handlers' \in [Elems -> ListType] /\ listener' \in [Elems -> BOOLEAN]
  BY <1>5, <1>11, <1>12, <1>13
<1>15. ASSUME NEW f \in Elems
       PROVE  ListOK(f, handlers'[f], bound') /\ (listener'[f] <=> handlers'[f].list # <<>>)
  <2>1. CASE f = e
    BY <1>5, <1>11, <1>12, <1>13, <2>1
  <2>2. CASE f # e
    <3>1. handlers'[f] = handlers[f] /\ listener'[f] = listener[f]
      BY <1>5, <1>12, <1>13, <2>2
    <3>2. {h \in DOMAIN bound' : bound'[h].elem = f /\ ~bound'[h].gone}
            = {h \in DOMAIN bound : bound[h].elem = f /\ ~bound[h].gone}
      <4>1. \A h \in 1 .. n + 1 : h \in 1 .. n \/ h = n + 1
        BY <1>6
      <4>2. bound'[n + 1].elem # f
        BY <1>3, <1>7, <2>2
      <4>3. \A h \in 1 .. n : h \in 1 .. n + 1
        BY <1>6
      <4>4. QED BY <1>6, <1>7, <4>1, <4>2, <4>3
    <3>3. ListOK(f, handlers[f], bound')
      <4>1. Len(bound) <= Len(bound') /\ Len(bound) \in Nat /\ Len(bound') \in Nat
        BY <1>4, <1>6, <1>7
      <4>2. \A h \in DOMAIN bound : h \in DOMAIN bound' /\ bound'[h].sel = bound[h].sel
        BY <1>9 DEF Keeps
      <4>3. ListOK(f, handlers[f], bound) /\ handlers[f] \in ListType
        BY <1>5
      <4>4. QED BY <3>2, <4>1, <4>2, <4>3, ListElsewhere
    <3>4. QED BY <1>5, <3>1, <3>3
  <2>3. QED BY <2>1, <2>2
<1>16. HandlersOK(handlers', listener', bound')
  BY <1>8, <1>14, <1>15 DEF HandlersOK, ListType
<1>17. QED BY <1>9, <1>16

\* jQuery.event.remove of handlers of e.
LEMMA RemovesHandlers ==
  ASSUME HandlersOK(handlers, listener, bound), NEW e \in Elems,
         NEW hs, hs \subseteq ToSet(handlers[e].list), Removes(e, hs), Gone(hs)
  PROVE  HandlersOK(handlers, listener, bound)' /\ Keeps(bound, bound')
<1>1. /\ BindingsOK(bound)
      /\ handlers \in [Elems -> ListType] /\ listener \in [Elems -> BOOLEAN]
      /\ \A f \in Elems : ListOK(f, handlers[f], bound) /\ (listener[f] <=> handlers[f].list # <<>>)
  BY DEF HandlersOK, ListType
<1>2. bound' = Unbound(bound, hs)
  BY DEF Gone, Unbound
<1>3. /\ BindingsOK(bound') /\ Keeps(bound, bound')
      /\ Len(bound') = Len(bound) /\ DOMAIN bound' = DOMAIN bound
      /\ \A h \in DOMAIN bound :
            /\ bound'[h].elem = bound[h].elem /\ bound'[h].sel = bound[h].sel
            /\ bound'[h].gone <=> bound[h].gone \/ h \in hs
  BY <1>1, <1>2, UnboundFacts
<1>4. PICK d : d = Without(handlers[e], hs)
  OBVIOUS
<1>5. /\ d \in ListType /\ ListOK(e, d, bound')
      /\ d.list # <<>> <=> ~(ToSet(handlers[e].list) \subseteq hs)
  <2>1. handlers[e] \in ListType /\ ListOK(e, handlers[e], bound)
    BY <1>1
  <2>2. LET r == Without(handlers[e], hs)
        IN  /\ r \in ListType /\ ListOK(e, r, Unbound(bound, hs))
            /\ r.list # <<>> <=> ~(ToSet(handlers[e].list) \subseteq hs)
    BY <1>1, <2>1, ListWithout
  <2>3. QED BY <1>2, <1>4, <2>2
<1>6. handlers' = [handlers EXCEPT ![e] = d]
  BY <1>4 DEF Removes
<1>7. listener' = [listener EXCEPT ![e] =
                     @ /\ (ToSet(handlers[e].list) \subseteq hs => handlers[e].list = <<>>)]
  BY DEF Removes
<1>8. handlers' \in [Elems -> ListType] /\ listener' \in [Elems -> BOOLEAN]
  BY <1>1, <1>5, <1>6, <1>7
<1>9. ASSUME NEW f \in Elems
      PROVE  ListOK(f, handlers'[f], bound') /\ (listener'[f] <=> handlers'[f].list # <<>>)
  <2>1. CASE f = e
    <3>1. handlers'[e] = d
      BY <1>1, <1>6
    <3>2. listener'[e] <=> /\ listener[e]
                           /\ ToSet(handlers[e].list) \subseteq hs => handlers[e].list = <<>>
      BY <1>1, <1>7
    <3>3. handlers[e].list = <<>> => ToSet(handlers[e].list) \subseteq hs
      BY DEF ToSet
    <3>4. listener[e] <=> handlers[e].list # <<>>
      BY <1>1
    <3>5. QED BY <1>5, <2>1, <3>1, <3>2, <3>3, <3>4
  <2>2. CASE f # e
    <3>1. handlers'[f] = handlers[f] /\ listener'[f] = listener[f]
      BY <1>1, <1>6, <1>7, <2>2
    <3>2. \A h \in hs : h \in DOMAIN bound /\ bound[h].elem = e
      BY <1>1 DEF ListOK
    <3>3. {h \in DOMAIN bound' : bound'[h].elem = f /\ ~bound'[h].gone}
            = {h \in DOMAIN bound : bound[h].elem = f /\ ~bound[h].gone}
      BY <1>3, <2>2, <3>2
    <3>4. ListOK(f, handlers[f], bound')
      <4>1. Len(bound) <= Len(bound') /\ Len(bound) \in Nat /\ Len(bound') \in Nat
        BY <1>1, <1>3, BindingFacts
      <4>2. \A h \in DOMAIN bound : h \in DOMAIN bound' /\ bound'[h].sel = bound[h].sel
        BY <1>3
      <4>3. ListOK(f, handlers[f], bound) /\ handlers[f] \in ListType
        BY <1>1
      <4>4. QED BY <3>3, <4>1, <4>2, <4>3, ListElsewhere
    <3>5. QED BY <1>1, <3>1, <3>4
  <2>3. QED BY <2>1, <2>2
<1>10. HandlersOK(handlers', listener', bound')
  BY <1>3, <1>8, <1>9 DEF HandlersOK, ListType
<1>11. QED BY <1>3, <1>10

-----------------------------------------------------------------------------
(* The stack, while handlers are bound and unbound.                        *)

LEMMA PrecedesKept ==
  ASSUME NEW bd, NEW bd2, Keeps(bd, bd2), NEW h \in DOMAIN bd, NEW g \in DOMAIN bd
  PROVE  Precedes(h, g, bd2) <=> Precedes(h, g, bd)
<1>1. /\ bd2[h].elem = bd[h].elem /\ bd2[h].sel = bd[h].sel
      /\ bd2[g].elem = bd[g].elem /\ bd2[g].sel = bd[g].sel
  BY DEF Keeps
<1>2. QED BY <1>1 DEF Precedes

LEMMA InQueued ==
  ASSUME NEW q, NEW i \in DOMAIN q
  PROVE  /\ ToSet(q[i]) \subseteq Queued(q)
         /\ \A j \in DOMAIN q[i] : q[i][j] \in Queued(q) /\ q[i][j] \in ToSet(q[i])
BY DEF Queued, ToSet

LEMMA OrderKept ==
  ASSUME NEW bd, NEW bd2, Keeps(bd, bd2), NEW q, Queued(q) \subseteq DOMAIN bd,
         QueueInOrder(q, bd)
  PROVE  QueueInOrder(q, bd2)
<1>1. ASSUME NEW i \in DOMAIN q, NEW j \in DOMAIN q[i], NEW k \in DOMAIN q[i], j < k
      PROVE  Precedes(q[i][j], q[i][k], bd2)
  <2>1. q[i][j] \in DOMAIN bd /\ q[i][k] \in DOMAIN bd
    BY InQueued
  <2>2. Precedes(q[i][j], q[i][k], bd)
    BY <1>1 DEF QueueInOrder
  <2>3. QED BY <2>1, <2>2, PrecedesKept
<1>2. ASSUME NEW i \in DOMAIN q, NEW j \in DOMAIN q, i < j,
             NEW h \in ToSet(q[i]), NEW g \in ToSet(q[j])
      PROVE  Precedes(h, g, bd2)
  <2>1. h \in DOMAIN bd /\ g \in DOMAIN bd
    BY InQueued
  <2>2. Precedes(h, g, bd)
    BY <1>2 DEF QueueInOrder
  <2>3. QED BY <2>1, <2>2, PrecedesKept
<1>3. QED BY <1>1, <1>2 DEF QueueInOrder

LEMMA EventKept ==
  ASSUME NEW bd, NEW bd2, Keeps(bd, bd2), NEW ev, EventOK(ev, bd)
  PROVE  EventOK(ev, bd2)
<1>1. /\ ev.due \subseteq DOMAIN bd /\ ToSet(ev.heard) \subseteq DOMAIN bd
      /\ \A j, k \in DOMAIN ev.heard : j < k => Precedes(ev.heard[j], ev.heard[k], bd)
      /\ \A h \in ev.gone : h \in DOMAIN bd /\ bd[h].gone /\ h \notin ToSet(ev.heard)
      /\ \A h \in ToSet(ev.heard) : bd[h].one => bd[h].gone
      /\ ev.finished => \A h \in ev.due : bd[h].gone \/ h \in ToSet(ev.heard)
  BY DEF EventOK
<1>2. \A h \in DOMAIN bd :
        h \in DOMAIN bd2 /\ bd2[h].one = bd[h].one /\ (bd[h].gone => bd2[h].gone)
  BY DEF Keeps
<1>3. ev.due \subseteq DOMAIN bd2 /\ ToSet(ev.heard) \subseteq DOMAIN bd2
  BY <1>1, <1>2
<1>4. ASSUME NEW j \in DOMAIN ev.heard, NEW k \in DOMAIN ev.heard, j < k
      PROVE  Precedes(ev.heard[j], ev.heard[k], bd2)
  <2>1. ev.heard[j] \in DOMAIN bd /\ ev.heard[k] \in DOMAIN bd
    BY <1>1, InToSet
  <2>2. Precedes(ev.heard[j], ev.heard[k], bd)
    BY <1>1, <1>4
  <2>3. QED BY <2>1, <2>2, PrecedesKept
<1>5. \A h \in ev.gone : h \in DOMAIN bd2 /\ bd2[h].gone /\ h \notin ToSet(ev.heard)
  BY <1>1, <1>2
<1>6. \A h \in ToSet(ev.heard) : bd2[h].one => bd2[h].gone
  BY <1>1, <1>2
<1>7. ev.finished => \A h \in ev.due : bd2[h].gone \/ h \in ToSet(ev.heard)
  BY <1>1, <1>2
<1>8. QED BY <1>3, <1>4, <1>5, <1>6, <1>7 DEF EventOK

LEMMA FrameKept ==
  ASSUME NEW bd, NEW bd2, Keeps(bd, bd2), NEW ev, EventOK(ev, bd),
         NEW f, FrameOK(f, ev, bd)
  PROVE  FrameOK(f, ev, bd2)
<1>1. /\ f.running # 0 => f.queue # <<>>
      /\ f.running = 0 => \A i \in DOMAIN f.queue : f.queue[i] # <<>>
      /\ f.target <= f.at + 1
      /\ f.stopped => ev.due = {}
      /\ ~ev.finished
  BY DEF FrameOK
<1>2. \A h \in DOMAIN bd :
        /\ h \in DOMAIN bd2
        /\ bd2[h].elem = bd[h].elem /\ bd2[h].sel = bd[h].sel /\ bd2[h].ns = bd[h].ns
        /\ bd[h].gone => bd2[h].gone
  BY DEF Keeps
<1>3. Queued(f.queue) \subseteq DOMAIN bd /\ ev.due \subseteq DOMAIN bd /\ ToSet(ev.heard) \subseteq DOMAIN bd
  BY DEF FrameOK, EventOK
<1>4. \A h \in Queued(f.queue) : h \in DOMAIN bd2 /\ bd2[h].elem = f.at /\ h \notin ev.gone
  BY <1>2, <1>3 DEF FrameOK
<1>5. QueueInOrder(f.queue, bd2)
  BY <1>3, OrderKept DEF FrameOK
<1>6. ASSUME NEW h \in ToSet(ev.heard)
      PROVE  bd2[h].elem <= f.at /\ \A g \in Queued(f.queue) : Precedes(h, g, bd2)
  <2>1. bd[h].elem <= f.at /\ \A g \in Queued(f.queue) : Precedes(h, g, bd)
    BY DEF FrameOK
  <2>2. h \in DOMAIN bd
    BY <1>3
  <2>3. QED BY <1>2, <1>3, <2>1, <2>2, PrecedesKept
<1>7. ASSUME NEW h \in ev.due
      PROVE  /\ Meant(f.target, f.ns, h, bd2)
             /\ bd2[h].gone \/ h \in ToSet(ev.heard) \/ h \in Queued(f.queue) \/ bd2[h].elem > f.at
  <2>1. /\ Meant(f.target, f.ns, h, bd)
        /\ bd[h].gone \/ h \in ToSet(ev.heard) \/ h \in Queued(f.queue) \/ bd[h].elem > f.at
    BY DEF FrameOK
  <2>2. h \in DOMAIN bd
    BY <1>3
  <2>3. QED BY <1>2, <2>1, <2>2 DEF Meant
<1>8. QED BY <1>1, <1>4, <1>5, <1>6, <1>7 DEF FrameOK

LEMMA StackKept ==
  ASSUME NEW bd, NEW bd2, Keeps(bd, bd2), NEW st, NEW evs, StackOK(st, evs, bd)
  PROVE  StackOK(st, evs, bd2)
<1>1. \A n \in DOMAIN evs : EventOK(evs[n], bd) /\ EventOK(evs[n], bd2)
  BY EventKept DEF StackOK
<1>2. \A k \in DOMAIN st : st[k].n \in DOMAIN evs /\ FrameOK(st[k], evs[st[k].n], bd2)
  BY <1>1, FrameKept DEF StackOK
<1>3. ASSUME NEW n \in DOMAIN evs, NEW m \in 1 .. n - 1, m \notin evs[n].during
      PROVE  /\ \A k \in DOMAIN st : st[k].n # m
             /\ \A h \in ToSet(evs[m].heard) : bd2[h].one => h \in evs[n].gone
  <2>1. /\ \A k \in DOMAIN st : st[k].n # m
        /\ \A h \in ToSet(evs[m].heard) : bd[h].one => h \in evs[n].gone
    BY <1>3 DEF StackOK, DuringOK
  <2>2. m \in DOMAIN evs
    <3>1. evs \in Seq(Event)
      BY DEF StackOK
    <3>2. QED BY <3>1, SeqFacts
  <2>3. \A h \in ToSet(evs[m].heard) : bd2[h].one = bd[h].one
    BY <1>1, <2>2 DEF EventOK, Keeps
  <2>4. QED BY <2>1, <2>3
<1>4. QED BY <1>1, <1>2, <1>3 DEF StackOK, DuringOK

-----------------------------------------------------------------------------
(* Steps of the innermost event.                                           *)

LEMMA TopFacts ==
  ASSUME stack \in Seq(Frame), ~Idle
  PROVE  /\ Len(stack) \in Nat /\ Len(stack) \in DOMAIN stack /\ DOMAIN stack = 1 .. Len(stack)
         /\ Top \in Frame /\ Top = stack[Len(stack)]
         /\ Below \in Seq(Frame) /\ Len(Below) = Len(stack) - 1
         /\ DOMAIN Below = 1 .. Len(stack) - 1
         /\ \A k \in 1 .. Len(stack) - 1 : Below[k] = stack[k]
<1>1. PICK n : n = Len(stack)
  OBVIOUS
<1>2. n \in Nat /\ n # 0 /\ DOMAIN stack = 1 .. n
  BY <1>1, SeqFacts DEF Idle
<1>3. n \in 1 .. n /\ stack[n] \in Frame /\ n - 1 \in 0 .. n
  BY <1>1, <1>2, SeqFacts
<1>4. PICK m : m = n - 1
  OBVIOUS
<1>5. /\ SubSeq(stack, 1, m) \in Seq(Frame) /\ Len(SubSeq(stack, 1, m)) = m
      /\ \A i \in 1 .. m : SubSeq(stack, 1, m)[i] = stack[i]
  BY <1>1, <1>3, <1>4, PrefixFacts
<1>6. Below = SubSeq(stack, 1, m)
  BY <1>1, <1>4 DEF Below
<1>7. DOMAIN Below = 1 .. m
  BY <1>5, <1>6, SeqFacts
<1>8. QED BY <1>1, <1>2, <1>3, <1>4, <1>5, <1>6, <1>7 DEF Top

LEMMA TopAgain ==
  ASSUME stack \in Seq(Frame), ~Idle, NEW f \in Frame
  PROVE  /\ Append(Below, f) \in Seq(Frame) /\ DOMAIN Append(Below, f) = DOMAIN stack
         /\ Append(Below, f)[Len(stack)] = f
         /\ \A k \in DOMAIN stack : k # Len(stack) => Append(Below, f)[k] = stack[k]
<1>1. PICK n : n = Len(stack)
  OBVIOUS
<1>2. PICK m : m = n - 1
  OBVIOUS
<1>3. /\ n \in Nat /\ DOMAIN stack = 1 .. n /\ n = m + 1
      /\ Below \in Seq(Frame) /\ m = Len(Below)
      /\ \A k \in 1 .. m : Below[k] = stack[k]
  BY <1>1, <1>2, TopFacts
<1>4. /\ Append(Below, f) \in Seq(Frame) /\ Append(Below, f)[m + 1] = f
      /\ DOMAIN Append(Below, f) = 1 .. m + 1
      /\ \A i \in 1 .. m : Append(Below, f)[i] = Below[i]
  BY <1>3, AppendFacts
<1>5. \A k \in 1 .. n : k # n => k \in 1 .. m
  BY <1>3
<1>6. QED BY <1>1, <1>3, <1>4, <1>5

\* The innermost event goes on: what it did to its frame and to itself is all
\* there is to prove.
LEMMA TopStep ==
  ASSUME StackOK(stack, events, bound), ~Idle, NEW f \in Frame, f.n = Top.n,
         NEW ev \in Event, ev.gone = events[Top.n].gone, ev.during = events[Top.n].during,
         NEW bd, Keeps(bound, bd), FrameOK(f, ev, bd), EventOK(ev, bd)
  PROVE  StackOK(Append(Below, f), [events EXCEPT ![Top.n] = ev], bd)
<1>1. PICK t : t = Append(Below, f)
  OBVIOUS
<1>2. PICK n : n = Top.n
  OBVIOUS
<1>3. PICK evs : evs = [events EXCEPT ![n] = ev]
  OBVIOUS
<1>4. PICK l : l = Len(stack)
  OBVIOUS
<1>5. StackOK(stack, events, bd)
  BY StackKept
<1>6. stack \in Seq(Frame) /\ events \in Seq(Event) /\ Len(events) <= MaxEvents
  BY DEF StackOK
<1>7. /\ l \in DOMAIN stack /\ stack[l].n = n /\ n \in DOMAIN events
  BY <1>2, <1>4, <1>6, TopFacts DEF StackOK
<1>8. /\ t \in Seq(Frame) /\ DOMAIN t = DOMAIN stack /\ t[l] = f
      /\ \A k \in DOMAIN stack : k # l => t[k] = stack[k]
  BY <1>1, <1>4, <1>6, TopAgain
<1>9. \A k \in DOMAIN stack : t[k].n = stack[k].n
  BY <1>2, <1>7, <1>8
<1>10. /\ evs \in Seq(Event) /\ Len(evs) = Len(events) /\ DOMAIN evs = DOMAIN events
       /\ evs[n] = ev /\ \A m \in DOMAIN events : m # n => evs[m] = events[m]
  <2>1. DOMAIN events = 1 .. Len(events) /\ n \in 1 .. Len(events)
    BY <1>6, <1>7, SeqFacts
  <2>2. evs \in Seq(Event) /\ Len(evs) = Len(events)
    BY <1>3, <1>6, <2>1, ExceptSeq
  <2>3. QED BY <1>3, <1>7, <2>2
<1>11. \A k \in DOMAIN stack : k # l => stack[k].n # n
  <2>1. \A j, k \in DOMAIN stack : j < k => stack[j].n < stack[k].n
    BY DEF StackOK
  <2>2. \A k \in DOMAIN stack : k \in Int /\ stack[k].n \in Int
    <3>1. DOMAIN stack \subseteq Int /\ DOMAIN events \subseteq Int
      BY <1>6, SeqFacts
    <3>2. \A k \in DOMAIN stack : stack[k].n \in DOMAIN events
      BY DEF StackOK
    <3>3. QED BY <3>1, <3>2
  <2>3. QED BY <1>7, <2>1, <2>2
<1>12. ASSUME NEW k \in DOMAIN t PROVE t[k].n \in DOMAIN evs /\ FrameOK(t[k], evs[t[k].n], bd)
  <2>1. CASE k = l
    BY <1>2, <1>7, <1>8, <1>10, <2>1
  <2>2. CASE k # l
    <3>1. t[k] = stack[k] /\ k \in DOMAIN stack /\ stack[k].n # n
      BY <1>8, <1>11, <2>2
    <3>2. stack[k].n \in DOMAIN events /\ FrameOK(stack[k], events[stack[k].n], bd)
      BY <1>5, <3>1 DEF StackOK
    <3>3. QED BY <1>10, <3>1, <3>2
  <2>3. QED BY <2>1, <2>2
<1>13. ASSUME NEW j \in DOMAIN t, NEW k \in DOMAIN t, j < k PROVE t[j].n < t[k].n
  BY <1>8, <1>9, <1>13 DEF StackOK
<1>14. ASSUME NEW m \in DOMAIN evs PROVE EventOK(evs[m], bd)
  BY <1>5, <1>10 DEF StackOK
<1>15. ASSUME NEW i \in DOMAIN evs, NEW m \in 1 .. i - 1, m \notin evs[i].during
       PROVE  /\ \A k \in DOMAIN t : t[k].n # m
              /\ \A h \in ToSet(evs[m].heard) : bd[h].one => h \in evs[i].gone
  <2>1. evs[i].during = events[i].during /\ evs[i].gone = events[i].gone
    BY <1>2, <1>10
  <2>2. /\ \A k \in DOMAIN stack : stack[k].n # m
        /\ \A h \in ToSet(events[m].heard) : bd[h].one => h \in events[i].gone
    BY <1>5, <1>10, <1>15, <2>1 DEF StackOK, DuringOK
  <2>3. m # n
    BY <1>7, <2>2
  <2>4. m \in DOMAIN events
    BY <1>6, <1>10, SeqFacts
  <2>5. QED BY <1>8, <1>9, <1>10, <2>1, <2>2, <2>3, <2>4
<1>16. StackOK(t, evs, bd)
  BY <1>6, <1>8, <1>10, <1>12, <1>13, <1>14, <1>15 DEF StackOK, DuringOK
<1>17. QED BY <1>1, <1>2, <1>3, <1>16

-----------------------------------------------------------------------------
(* Queues of handlers.                                                     *)

Queue == Seq(Seq(Handler))

LEMMA QueuedBy ==
  ASSUME NEW q, NEW h
  PROVE  h \in Queued(q) <=> \E i \in DOMAIN q : h \in ToSet(q[i])
BY DEF Queued

LEMMA NonEmptyFacts ==
  ASSUME NEW q \in Queue
  PROVE  /\ NonEmpty(q) \in Queue /\ Queued(NonEmpty(q)) = Queued(q)
         /\ \A i \in DOMAIN NonEmpty(q) : NonEmpty(q)[i] # <<>>
         /\ \A bd : QueueInOrder(q, bd) => QueueInOrder(NonEmpty(q), bd)
<1>1. PICK S : S = ToSet(q) \ {<<>>}
  OBVIOUS
<1>2. PICK r : r = Filter(q, S)
  OBVIOUS
<1>3. PICK X : X = Seq(Handler)
  OBVIOUS
<1>4. q \in Seq(X)
  BY <1>3 DEF Queue
<1>5. r \in Seq(X) /\ ToSet(r) = ToSet(q) \cap S
  BY <1>2, <1>4, FilterFacts
<1>6. \A i, j \in 1 .. Len(r) : i < j =>
        \E k, l \in 1 .. Len(q) : k < l /\ r[i] = q[k] /\ r[j] = q[l]
  <2>1. \A i, j \in 1 .. Len(Filter(q, S)) : i < j =>
          \E k, l \in 1 .. Len(q) :
             /\ k < l /\ q[k] \in S /\ q[l] \in S
             /\ Filter(q, S)[i] = q[k] /\ Filter(q, S)[j] = q[l]
    BY <1>4, FilterOrder
  <2>2. QED BY <1>2, <2>1
<1>7. DOMAIN r = 1 .. Len(r) /\ DOMAIN q = 1 .. Len(q) /\ Len(q) \in Nat /\ Len(r) \in Nat
  BY <1>4, <1>5, SeqFacts
<1>8. NonEmpty(q) = r
  BY <1>1, <1>2 DEF NonEmpty
<1>9. ASSUME NEW i \in DOMAIN r PROVE r[i] # <<>> /\ \E k \in DOMAIN q : q[k] = r[i]
  <2>1. r[i] \in ToSet(q) \cap S
    BY <1>5, InToSet
  <2>2. QED BY <1>1, <2>1, InToSet
<1>10. Queued(r) = Queued(q)
  <2>1. ASSUME NEW h \in Queued(r) PROVE h \in Queued(q)
    <3>1. PICK i \in DOMAIN r : h \in ToSet(r[i])
      BY QueuedBy
    <3>2. PICK k \in DOMAIN q : q[k] = r[i]
      BY <1>9
    <3>3. QED BY <3>1, <3>2, QueuedBy
  <2>2. ASSUME NEW h \in Queued(q) PROVE h \in Queued(r)
    <3>1. PICK k \in DOMAIN q : h \in ToSet(q[k])
      BY QueuedBy
    <3>2. q[k] # <<>>
      BY <3>1 DEF ToSet
    <3>3. q[k] \in ToSet(r)
      BY <1>1, <1>5, <3>2, InToSet
    <3>4. PICK i \in DOMAIN r : r[i] = q[k]
      BY <3>3, InToSet
    <3>5. QED BY <3>1, <3>4, QueuedBy
  <2>3. QED BY <2>1, <2>2
<1>11. ASSUME NEW bd, QueueInOrder(q, bd) PROVE QueueInOrder(r, bd)
  <2>1. ASSUME NEW i \in DOMAIN r, NEW j \in DOMAIN r[i], NEW k \in DOMAIN r[i], j < k
        PROVE  Precedes(r[i][j], r[i][k], bd)
    <3>1. PICK l \in DOMAIN q : q[l] = r[i]
      BY <1>9
    <3>2. QED BY <1>11, <2>1, <3>1 DEF QueueInOrder
  <2>2. ASSUME NEW i \in DOMAIN r, NEW j \in DOMAIN r, i < j,
               NEW h \in ToSet(r[i]), NEW g \in ToSet(r[j])
        PROVE  Precedes(h, g, bd)
    <3>1. i \in 1 .. Len(r) /\ j \in 1 .. Len(r)
      BY <1>7
    <3>2. PICK k \in 1 .. Len(q), l \in 1 .. Len(q) : k < l /\ r[i] = q[k] /\ r[j] = q[l]
      BY <1>6, <2>2, <3>1
    <3>3. k \in DOMAIN q /\ l \in DOMAIN q
      BY <1>7
    <3>4. h \in ToSet(q[k]) /\ g \in ToSet(q[l])
      BY <3>2
    <3>5. QED BY <1>11, <3>2, <3>3, <3>4 DEF QueueInOrder
  <2>3. QED BY <2>1, <2>2 DEF QueueInOrder
<1>12. QED BY <1>3, <1>5, <1>8, <1>9, <1>10, <1>11 DEF Queue

LEMMA OneGroup ==
  ASSUME NEW g \in Seq(Handler)
  PROVE  <<g>> \in Queue /\ DOMAIN <<g>> = {1} /\ <<g>>[1] = g /\ Queued(<<g>>) = ToSet(g)
<1>1. <<g>> \in Queue /\ DOMAIN <<g>> = {1} /\ <<g>>[1] = g
  BY DEF Queue
<1>2. \A h : h \in Queued(<<g>>) <=> h \in ToSet(g)
  BY <1>1, QueuedBy
<1>3. QED BY <1>1, <1>2

LEMMA NoGroup == <<>> \in Queue /\ Queued(<<>>) = {} /\ \A bd : QueueInOrder(<<>>, bd)
BY DEF Queue, Queued, QueueInOrder

\* What remains when a handler returned.
LEMMA RemainingFacts ==
  ASSUME NEW q \in Queue, q # <<>>, NEW how \in {"no", "stop", "immediate"}
  PROVE  /\ Remaining(q, how) \in Queue /\ Queued(Remaining(q, how)) \subseteq Queued(q)
         /\ how = "no" => Queued(Remaining(q, how)) = Queued(q)
         /\ \A i \in DOMAIN Remaining(q, how) : Remaining(q, how)[i] # <<>>
         /\ \A bd : QueueInOrder(q, bd) => QueueInOrder(Remaining(q, how), bd)
<1>1. CASE how = "no"
  <2>1. Remaining(q, how) = NonEmpty(q)
    BY <1>1 DEF Remaining
  <2>2. QED BY <2>1, NonEmptyFacts
<1>2. CASE how = "immediate"
  <2>1. Remaining(q, how) = <<>>
    BY <1>2 DEF Remaining
  <2>2. QED BY <1>2, <2>1, NoGroup
<1>3. CASE how = "stop"
  <2>1. PICK g : g = Head(q)
    OBVIOUS
  <2>2. g \in Seq(Handler) /\ g = q[1] /\ 1 \in DOMAIN q
    BY <2>1 DEF Queue
  <2>3. /\ <<g>> \in Queue /\ DOMAIN <<g>> = {1} /\ <<g>>[1] = g /\ Queued(<<g>>) = ToSet(g)
    BY <2>2, OneGroup
  <2>4. Queued(<<g>>) \subseteq Queued(q)
    BY <2>2, <2>3, InQueued
  <2>5. \A bd : QueueInOrder(q, bd) => QueueInOrder(<<g>>, bd)
    BY <2>2, <2>3 DEF QueueInOrder
  <2>6. Remaining(q, how) = NonEmpty(<<g>>)
    BY <1>3, <2>1 DEF Remaining
  <2>7. QED BY <1>3, <2>3, <2>4, <2>5, <2>6, NonEmptyFacts
<1>4. QED BY <1>1, <1>2, <1>3

\* The next handler is taken out of the first group.
LEMMA DequeuedFacts ==
  ASSUME NEW q \in Queue, q # <<>>, q[1] # <<>>
  PROVE  /\ q[1][1] \in Queued(q) /\ q[1][1] \in Handler
         /\ Dequeued(q) \in Queue /\ Dequeued(q) # <<>>
         /\ Queued(Dequeued(q)) \subseteq Queued(q)
         /\ Queued(q) \subseteq Queued(Dequeued(q)) \cup {q[1][1]}
         /\ \A bd : QueueInOrder(q, bd) =>
               /\ QueueInOrder(Dequeued(q), bd)
               /\ \A g \in Queued(Dequeued(q)) : Precedes(q[1][1], g, bd)
<1>1. PICK m : m = Len(q)
  OBVIOUS
<1>2. PICK a : a = q[1]
  OBVIOUS
<1>3. PICK n : n = Len(a)
  OBVIOUS
<1>4. m \in Nat /\ m >= 1 /\ DOMAIN q = 1 .. m /\ 1 \in DOMAIN q
  BY <1>1, SeqFacts DEF Queue
<1>5. a \in Seq(Handler) /\ a # <<>>
  BY <1>2, <1>4, SeqFacts DEF Queue
<1>6. n \in Nat /\ n >= 1 /\ DOMAIN a = 1 .. n /\ 1 \in DOMAIN a
  BY <1>3, <1>5, SeqFacts
<1>7. PICK b : b = Tail(a)
  OBVIOUS
<1>8. /\ b \in Seq(Handler) /\ DOMAIN b = 1 .. n - 1
      /\ \A i \in 1 .. n - 1 : b[i] = a[i + 1] /\ i + 1 \in 1 .. n
  BY <1>3, <1>5, <1>6, <1>7, HeadTailProperties
<1>9. PICK d : d = <<b>> \o Tail(q)
  OBVIOUS
<1>10. /\ d \in Queue /\ DOMAIN d = 1 .. m /\ d[1] = b
       /\ \A i \in 2 .. m : d[i] = q[i]
  <2>1. /\ Tail(q) \in Seq(Seq(Handler)) /\ Len(Tail(q)) = m - 1
        /\ \A i \in 1 .. m - 1 : Tail(q)[i] = q[i + 1]
    BY <1>1, <1>4, HeadTailProperties DEF Queue
  <2>2. PICK y : y = <<b>>
    OBVIOUS
  <2>3. PICK z : z = Tail(q)
    OBVIOUS
  <2>4. PICK o : o = 1
    OBVIOUS
  <2>5. PICK p : p = m - 1
    OBVIOUS
  <2>6. PICK X : X = Seq(Handler)
    OBVIOUS
  <2>7. y \in Seq(X) /\ z \in Seq(X) /\ o = Len(y) /\ p = Len(z) /\ y[1] = b
    BY <1>8, <2>1, <2>2, <2>3, <2>4, <2>5, <2>6
  <2>8. /\ y \o z \in Seq(X) /\ Len(y \o z) = o + p
        /\ \A i \in 1 .. o : (y \o z)[i] = y[i]
        /\ \A i \in o + 1 .. o + p : (y \o z)[i] = z[i - o]
    BY <2>7, ConcatFacts
  <2>9. d = y \o z
    BY <1>9, <2>2, <2>3
  <2>10. d \in Seq(X) /\ DOMAIN d = 1 .. m
    BY <1>4, <2>4, <2>5, <2>8, <2>9, SeqFacts
  <2>11. d[1] = b
    BY <2>4, <2>7, <2>8, <2>9
  <2>12. ASSUME NEW i \in 2 .. m PROVE d[i] = q[i]
    <3>1. i \in o + 1 .. o + p /\ i - o \in 1 .. m - 1 /\ i - o + 1 = i
      BY <1>4, <2>4, <2>5
    <3>2. d[i] = z[i - o]
      BY <2>8, <2>9, <3>1
    <3>3. QED BY <2>1, <2>3, <3>1, <3>2
  <2>13. QED BY <2>6, <2>10, <2>11, <2>12 DEF Queue
<1>11. Dequeued(q) = d
  <2>1. Head(q) = a
    BY <1>2, <1>4 DEF Queue
  <2>2. QED BY <1>7, <1>9, <2>1 DEF Dequeued
<1>12. \A h \in ToSet(b) : \E k \in 2 .. n : a[k] = h
  <2>1. ASSUME NEW h \in ToSet(b) PROVE \E k \in 2 .. n : a[k] = h
    <3>1. PICK i \in DOMAIN b : b[i] = h
      BY InToSet
    <3>2. i + 1 \in 2 .. n /\ a[i + 1] = h
      BY <1>6, <1>8, <3>1
    <3>3. QED BY <3>2
  <2>2. QED BY <2>1
<1>13. \A k \in 2 .. n : a[k] \in ToSet(b)
  <2>1. ASSUME NEW k \in 2 .. n PROVE a[k] \in ToSet(b)
    <3>1. k - 1 \in 1 .. n - 1 /\ k - 1 + 1 = k
      BY <1>6
    <3>2. b[k - 1] = a[k]
      BY <1>8, <3>1
    <3>3. QED BY <1>8, <3>1, <3>2, InToSet
  <2>2. QED BY <2>1
<1>14. \A h \in Queued(d) : h \in ToSet(b) \/ \E i \in 2 .. m : h \in ToSet(q[i])
  <2>1. \A i \in 1 .. m : i = 1 \/ i \in 2 .. m
    BY <1>4
  <2>2. ASSUME NEW h \in Queued(d)
        PROVE  h \in ToSet(b) \/ \E i \in 2 .. m : h \in ToSet(q[i])
    <3>1. PICK i \in DOMAIN d : h \in ToSet(d[i])
      BY QueuedBy
    <3>2. i = 1 \/ i \in 2 .. m
      BY <1>10, <2>1
    <3>3. QED BY <1>10, <3>1, <3>2
  <2>3. QED BY <2>2
<1>15. ToSet(b) \subseteq ToSet(a)
  <2>1. \A k \in 2 .. n : k \in DOMAIN a
    BY <1>6
  <2>2. QED BY <1>12, <2>1, InToSet
<1>16. Queued(d) \subseteq Queued(q)
  <2>1. \A i \in 2 .. m : i \in DOMAIN q
    BY <1>4
  <2>2. ToSet(a) \subseteq Queued(q)
    BY <1>2, <1>4, InQueued
  <2>3. QED BY <1>14, <1>15, <2>1, <2>2, QueuedBy
<1>17. Queued(q) \subseteq Queued(d) \cup {a[1]}
  <2>1. ASSUME NEW h \in Queued(q), h # a[1] PROVE h \in Queued(d)
    <3>1. PICK i \in 1 .. m : h \in ToSet(q[i])
      BY <1>4, QueuedBy
    <3>2. CASE i = 1
      <4>1. PICK k \in 1 .. n : a[k] = h
        BY <1>2, <1>6, <3>1, <3>2, InToSet
      <4>2. k \in 2 .. n
        BY <1>6, <2>1, <4>1
      <4>3. h \in ToSet(d[1]) /\ 1 \in DOMAIN d
        BY <1>4, <1>10, <1>13, <4>1, <4>2
      <4>4. QED BY <4>3, QueuedBy
    <3>3. CASE i # 1
      <4>1. i \in 2 .. m /\ i \in DOMAIN d
        BY <1>4, <1>10, <3>3
      <4>2. QED BY <1>10, <3>1, <4>1, QueuedBy
    <3>4. QED BY <3>2, <3>3
  <2>2. QED BY <2>1
<1>18. a[1] \in Queued(q) /\ a[1] \in Handler
  <2>1. a[1] \in Queued(q)
    BY <1>2, <1>4, <1>6, InQueued
  <2>2. QED BY <1>5, <1>6, <2>1, SeqFacts
<1>19. d # <<>>
  BY <1>4, <1>10
<1>20. ASSUME NEW bd, QueueInOrder(q, bd)
       PROVE  QueueInOrder(d, bd) /\ \A g \in Queued(d) : Precedes(a[1], g, bd)
  <2>1. /\ \A j, k \in 1 .. n : j < k => Precedes(a[j], a[k], bd)
        /\ \A i \in 1 .. m : \A j, k \in DOMAIN q[i] : j < k => Precedes(q[i][j], q[i][k], bd)
        /\ \A i, j \in 1 .. m : i < j =>
              \A h \in ToSet(q[i]), g \in ToSet(q[j]) : Precedes(h, g, bd)
    BY <1>2, <1>4, <1>6, <1>20 DEF QueueInOrder
  <2>2. ASSUME NEW i \in 1 .. m, NEW j \in DOMAIN d[i], NEW k \in DOMAIN d[i], j < k
        PROVE  Precedes(d[i][j], d[i][k], bd)
    <3>1. CASE i = 1
      <4>1. j \in 1 .. n - 1 /\ k \in 1 .. n - 1
        BY <1>8, <1>10, <3>1
      <4>2. d[i][j] = a[j + 1] /\ d[i][k] = a[k + 1] /\ j + 1 \in 1 .. n /\ k + 1 \in 1 .. n
        BY <1>8, <1>10, <3>1, <4>1
      <4>3. j + 1 < k + 1
        BY <2>2, <4>1
      <4>4. QED BY <2>1, <4>2, <4>3
    <3>2. CASE i # 1
      <4>1. d[i] = q[i]
        BY <1>4, <1>10, <3>2
      <4>2. QED BY <2>1, <2>2, <4>1
    <3>3. QED BY <3>1, <3>2
  <2>3. ASSUME NEW i \in 1 .. m, NEW j \in 1 .. m, i < j,
               NEW h \in ToSet(d[i]), NEW g \in ToSet(d[j])
        PROVE  Precedes(h, g, bd)
    <3>1. d[j] = q[j]
      BY <1>10, <2>3
    <3>2. h \in ToSet(q[i])
      <4>1. CASE i = 1
        BY <1>2, <1>10, <1>15, <4>1
      <4>2. CASE i # 1
        <5>1. i \in 2 .. m
          BY <4>2
        <5>2. QED BY <1>10, <5>1
      <4>3. QED BY <4>1, <4>2
    <3>3. QED BY <2>1, <2>3, <3>1, <3>2
  <2>4. QueueInOrder(d, bd)
    BY <1>10, <2>2, <2>3 DEF QueueInOrder
  <2>5. ASSUME NEW g \in Queued(d) PROVE Precedes(a[1], g, bd)
    <3>1. CASE g \in ToSet(b)
      <4>1. PICK k \in 2 .. n : a[k] = g
        BY <1>12, <3>1
      <4>2. k \in 1 .. n /\ 1 < k /\ 1 \in 1 .. n
        BY <1>6
      <4>3. QED BY <2>1, <4>1, <4>2
    <3>2. CASE \E i \in 2 .. m : g \in ToSet(q[i])
      <4>1. PICK i \in 2 .. m : g \in ToSet(q[i])
        BY <3>2
      <4>2. i \in 1 .. m /\ 1 \in 1 .. m /\ 1 < i
        BY <1>4
      <4>3. a[1] \in ToSet(q[1])
        BY <1>2, <1>6, InToSet
      <4>4. QED BY <2>1, <4>1, <4>2, <4>3
    <3>3. QED BY <1>14, <3>1, <3>2
  <2>6. QED BY <2>4, <2>5
<1>21. QED BY <1>2, <1>10, <1>11, <1>16, <1>17, <1>18, <1>19, <1>20

-----------------------------------------------------------------------------
(* The queue an event finds at an element.                                 *)

Delegated(c) == SubSeq(c.list, 1, c.delegateCount)
Direct(c) == SubSeq(c.list, c.delegateCount + 1, Len(c.list))
Here(e, bd) == {h \in DOMAIN bd : bd[h].elem = e /\ ~bd[h].gone}
HereDelegated(e, bd) == {h \in Here(e, bd) : bd[h].sel # 0}
HereDirect(e, bd) == {h \in Here(e, bd) : bd[h].sel = 0}

\* The delegated handlers of a list and the direct ones.
LEMMA ListParts ==
  ASSUME NEW e, NEW c \in ListType, NEW bd, ListOK(e, c, bd)
  PROVE  /\ Delegated(c) \in Seq(Handler) /\ Increasing(Delegated(c))
         /\ ToSet(Delegated(c)) = HereDelegated(e, bd)
         /\ Direct(c) \in Seq(Handler) /\ Increasing(Direct(c))
         /\ ToSet(Direct(c)) = HereDirect(e, bd)
<1>1. PICK s : s = c.list
  OBVIOUS
<1>2. PICK m : m = Len(s)
  OBVIOUS
<1>3. PICK q : q = c.delegateCount
  OBVIOUS
<1>4. PICK a : a = SubSeq(s, 1, q)
  OBVIOUS
<1>5. PICK b : b = SubSeq(s, q + 1, m)
  OBVIOUS
<1>6. PICK here : here = Here(e, bd)
  OBVIOUS
<1>7. /\ s \in Seq(Handler) /\ m \in Nat /\ DOMAIN s = 1 .. m /\ q \in 0 .. m
  <2>1. s \in Seq(Handler) /\ q \in 0 .. MaxBound
    BY <1>1, <1>3 DEF ListType
  <2>2. m \in Nat /\ DOMAIN s = 1 .. m
    BY <1>2, <2>1, SeqFacts
  <2>3. q <= m
    BY <1>1, <1>2, <1>3 DEF ListOK
  <2>4. QED BY <2>1, <2>2, <2>3
<1>8. /\ ToSet(s) = here
      /\ \A k \in 1 .. m : bd[s[k]].sel # 0 <=> k <= q
      /\ \A j, k \in 1 .. m : j < k /\ (k <= q \/ j > q) => s[j] < s[k]
  BY <1>1, <1>2, <1>3, <1>6, <1>7 DEF ListOK, Here
<1>9. a \in Seq(Handler) /\ Len(a) = q /\ \A i \in 1 .. q : a[i] = s[i]
  BY <1>2, <1>4, <1>7, PrefixFacts
<1>10. b \in Seq(Handler) /\ Len(b) = m - q /\ \A i \in 1 .. m - q : b[i] = s[q + i]
  BY <1>2, <1>5, <1>7, SuffixFacts
<1>11. DOMAIN a = 1 .. q /\ DOMAIN b = 1 .. m - q
  BY <1>9, <1>10, SeqFacts
<1>12. Increasing(a)
  <2>1. ASSUME NEW i \in 1 .. q, NEW j \in 1 .. q, i < j PROVE a[i] < a[j]
    <3>1. i \in 1 .. m /\ j \in 1 .. m /\ j <= q
      BY <1>7
    <3>2. s[i] < s[j]
      BY <1>8, <2>1, <3>1
    <3>3. QED BY <1>9, <3>2
  <2>2. QED BY <1>11, <2>1 DEF Increasing
<1>13. Increasing(b)
  <2>1. ASSUME NEW i \in 1 .. m - q, NEW j \in 1 .. m - q, i < j PROVE b[i] < b[j]
    <3>1. q + i \in 1 .. m /\ q + j \in 1 .. m /\ q + i > q /\ q + i < q + j
      BY <1>7, <2>1
    <3>2. s[q + i] < s[q + j]
      BY <1>8, <3>1
    <3>3. QED BY <1>10, <3>2
  <2>2. QED BY <1>11, <2>1 DEF Increasing
<1>14. ToSet(a) = {h \in here : bd[h].sel # 0}
  <2>1. ASSUME NEW h \in ToSet(a) PROVE h \in here /\ bd[h].sel # 0
    <3>1. PICK i \in 1 .. q : a[i] = h
      BY <1>11, InToSet
    <3>2. i \in 1 .. m /\ i <= q /\ s[i] = h
      BY <1>7, <1>9, <3>1
    <3>3. QED BY <1>7, <1>8, <3>2, InToSet
  <2>2. ASSUME NEW h \in here, bd[h].sel # 0 PROVE h \in ToSet(a)
    <3>1. PICK k \in 1 .. m : s[k] = h
      BY <1>7, <1>8, InToSet
    <3>2. k \in 1 .. q
      BY <1>7, <1>8, <2>2, <3>1
    <3>3. a[k] = h
      BY <1>9, <3>1, <3>2
    <3>4. QED BY <1>11, <3>2, <3>3, InToSet
  <2>3. QED BY <2>1, <2>2
<1>15. ToSet(b) = {h \in here : bd[h].sel = 0}
  <2>1. ASSUME NEW h \in ToSet(b) PROVE h \in here /\ bd[h].sel = 0
    <3>1. PICK i \in 1 .. m - q : b[i] = h
      BY <1>11, InToSet
    <3>2. q + i \in 1 .. m /\ ~(q + i <= q) /\ s[q + i] = h
      BY <1>7, <1>10, <3>1
    <3>3. QED BY <1>7, <1>8, <3>2, InToSet
  <2>2. ASSUME NEW h \in here, bd[h].sel = 0 PROVE h \in ToSet(b)
    <3>1. PICK k \in 1 .. m : s[k] = h
      BY <1>7, <1>8, InToSet
    <3>2. ~(k <= q)
      BY <1>8, <2>2, <3>1
    <3>3. k - q \in 1 .. m - q /\ q + (k - q) = k
      BY <1>7, <3>2
    <3>4. b[k - q] = h
      BY <1>10, <3>1, <3>3
    <3>5. QED BY <1>11, <3>3, <3>4, InToSet
  <2>3. QED BY <2>1, <2>2
<1>16. Delegated(c) = a /\ Direct(c) = b
  BY <1>1, <1>2, <1>3, <1>4, <1>5, Zenon DEF Delegated, Direct
<1>17. ToSet(a) = HereDelegated(e, bd) /\ ToSet(b) = HereDirect(e, bd)
  BY <1>6, <1>14, <1>15 DEF HereDelegated, HereDirect
<1>18. QED BY <1>9, <1>10, <1>12, <1>13, <1>16, <1>17

\* The handlers an event finds at the element e: exactly those that are meant,
\* in the order in which they have to hear of it.
LEMMA HandlerQueueFacts ==
  ASSUME HandlersOK(handlers, listener, bound), NEW e \in Elems, NEW target \in 1 .. e,
         NEW ns \in BOOLEAN
  PROVE  LET q == HandlerQueue(e, target, ns)
         IN  /\ q \in Queue /\ \A i \in DOMAIN q : q[i] # <<>>
             /\ Queued(q) = {h \in DOMAIN bound : /\ bound[h].elem = e /\ ~bound[h].gone
                                                  /\ Meant(target, ns, h, bound)}
             /\ QueueInOrder(q, bound)
<1>1. PICK c : c = handlers[e]
  OBVIOUS
<1>2. PICK a : a = Delegated(c)
  OBVIOUS
<1>3. PICK b : b = Direct(c)
  OBVIOUS
<1>4. PICK here : here = Here(e, bound)
  OBVIOUS
<1>5. BindingsOK(bound) /\ c \in ListType /\ ListOK(e, c, bound)
  BY <1>1 DEF HandlersOK, ListType
<1>6. /\ a \in Seq(Handler) /\ Increasing(a) /\ ToSet(a) = {h \in here : bound[h].sel # 0}
      /\ b \in Seq(Handler) /\ Increasing(b) /\ ToSet(b) = {h \in here : bound[h].sel = 0}
  <2>1. c \in ListType /\ ListOK(e, c, bound)
    BY <1>5
  <2>2. /\ Delegated(c) \in Seq(Handler) /\ Increasing(Delegated(c))
        /\ ToSet(Delegated(c)) = HereDelegated(e, bound)
        /\ Direct(c) \in Seq(Handler) /\ Increasing(Direct(c))
        /\ ToSet(Direct(c)) = HereDirect(e, bound)
    BY <2>1, ListParts
  <2>3. QED BY <1>2, <1>3, <1>4, <2>2, Zenon DEF HereDelegated, HereDirect
<1>7. PICK n : n = e - target
  OBVIOUS
<1>8. e \in Nat /\ target \in Nat /\ target >= 1 /\ n \in Nat /\ n = e - target
  BY <1>7, EventsAssumption DEF Elems
<1>9. PICK w : w = [k \in 1 .. n |-> Matching(a, target + k - 1)]
  OBVIOUS
<1>10. ASSUME NEW k \in 1 .. n
       PROVE  /\ w[k] \in Seq(Handler) /\ Increasing(w[k])
              /\ ToSet(w[k]) = {h \in here : bound[h].sel = target + k - 1}
  <2>1. PICK S : S = {h \in ToSet(a) : bound[h].sel = target + k - 1}
    OBVIOUS
  <2>2. w[k] = Filter(a, S)
    BY <1>9, <2>1 DEF Matching
  <2>3. w[k] \in Seq(Handler) /\ ToSet(w[k]) = ToSet(a) \cap S /\ Increasing(w[k])
    BY <1>6, <2>2, FilterFacts
  <2>4. target + k - 1 # 0
    BY <1>8
  <2>5. QED BY <1>6, <2>1, <2>3, <2>4
<1>11. PICK y : y = <<b>>
  OBVIOUS
<1>12. PICK g : g = w \o y
  OBVIOUS
<1>13. /\ g \in Queue /\ DOMAIN g = 1 .. n + 1 /\ g[n + 1] = b
       /\ \A k \in 1 .. n : g[k] = w[k]
  <2>1. PICK X : X = Seq(Handler)
    OBVIOUS
  <2>2. w \in Seq(X) /\ n = Len(w)
    <3>1. \A k \in 1 .. n : w[k] \in X
      BY <1>10, <2>1
    <3>2. w = [k \in 1 .. n |-> w[k]]
      BY <1>9
    <3>3. QED BY <1>8, <3>1, <3>2
  <2>3. PICK o : o = 1
    OBVIOUS
  <2>4. y \in Seq(X) /\ o = Len(y) /\ y[1] = b
    BY <1>6, <1>11, <2>1, <2>3
  <2>5. /\ w \o y \in Seq(X) /\ Len(w \o y) = n + o
        /\ \A i \in 1 .. n : (w \o y)[i] = w[i]
        /\ \A i \in n + 1 .. n + o : (w \o y)[i] = y[i - n]
    BY <2>2, <2>4, ConcatFacts
  <2>6. PICK p : p = n + 1
    OBVIOUS
  <2>7. g[n + 1] = b
    <3>1. p \in n + 1 .. n + o /\ p - n = 1
      BY <1>8, <2>3, <2>6
    <3>2. (w \o y)[p] = y[p - n]
      BY <2>5, <3>1
    <3>3. g[p] = b
      BY <1>12, <2>4, <3>1, <3>2
    <3>4. QED BY <2>6, <3>3
  <2>8. DOMAIN g = 1 .. n + 1
    BY <1>12, <2>3, <2>5, SeqFacts
  <2>9. QED BY <1>12, <2>1, <2>5, <2>7, <2>8 DEF Queue
<1>14. \A k \in 1 .. n + 1 : k \in 1 .. n \/ k = n + 1
  BY <1>8
<1>15. ASSUME NEW k \in 1 .. n + 1
       PROVE  /\ g[k] \in Seq(Handler) /\ Increasing(g[k])
              /\ \A h \in ToSet(g[k]) :
                    h \in here /\ bound[h].sel = IF k = n + 1 THEN 0 ELSE target + k - 1
  <2>1. CASE k = n + 1
    BY <1>6, <1>13, <2>1
  <2>2. CASE k \in 1 .. n /\ k # n + 1
    BY <1>10, <1>13, <2>2
  <2>3. QED BY <1>14, <2>1, <2>2
<1>16. PICK r : r = [k \in 1 .. n + 1 |-> Invoked(ns, g[k])]
  OBVIOUS
<1>17. ASSUME NEW k \in 1 .. n + 1
       PROVE  /\ r[k] \in Seq(Handler) /\ Increasing(r[k])
              /\ ToSet(r[k]) = {h \in ToSet(g[k]) : ns => bound[h].ns}
  <2>1. PICK S : S = {h \in ToSet(g[k]) : ns => bound[h].ns}
    OBVIOUS
  <2>2. r[k] = Filter(g[k], S)
    BY <1>16, <2>1 DEF Invoked
  <2>3. r[k] \in Seq(Handler) /\ ToSet(r[k]) = ToSet(g[k]) \cap S /\ Increasing(r[k])
    BY <1>15, <2>2, FilterFacts
  <2>4. QED BY <2>1, <2>3
<1>18. r \in Queue /\ DOMAIN r = 1 .. n + 1
  <2>1. n + 1 \in Nat
    BY <1>8
  <2>2. \A k \in 1 .. n + 1 : r[k] \in Seq(Handler)
    BY <1>17
  <2>3. QED BY <1>16, <2>1, <2>2 DEF Queue
<1>19. HandlerQueue(e, target, ns) = NonEmpty(r)
  <2>1. HandlerQueue(e, target, ns) = NonEmpty([k \in DOMAIN g |-> Invoked(ns, g[k])])
    BY <1>1, <1>2, <1>3, <1>7, <1>9, <1>11, <1>12, Zenon DEF HandlerQueue, Delegated, Direct
  <2>2. QED BY <1>13, <1>16, <2>1, Zenon
<1>20. Queued(r) = {h \in DOMAIN bound : /\ bound[h].elem = e /\ ~bound[h].gone
                                         /\ Meant(target, ns, h, bound)}
  <2>1. ASSUME NEW h \in Queued(r) PROVE h \in here /\ Meant(target, ns, h, bound)
    <3>1. PICK k \in 1 .. n + 1 : h \in ToSet(r[k])
      BY <1>18, QueuedBy
    <3>2. h \in ToSet(g[k]) /\ (ns => bound[h].ns)
      BY <1>17, <3>1
    <3>3. h \in here /\ bound[h].sel = IF k = n + 1 THEN 0 ELSE target + k - 1
      BY <1>15, <3>2
    <3>4. bound[h].elem = e
      BY <1>4, <3>3 DEF Here
    <3>5. target <= IF bound[h].sel = 0 THEN bound[h].elem ELSE bound[h].sel
      <4>1. CASE k = n + 1
        BY <1>8, <3>3, <3>4, <4>1
      <4>2. CASE k # n + 1
        <5>1. bound[h].sel = target + k - 1 /\ k >= 1
          BY <1>8, <3>3, <4>2
        <5>2. QED BY <1>8, <5>1
      <4>3. QED BY <4>1, <4>2
    <3>6. QED BY <3>2, <3>3, <3>5 DEF Meant
  <2>2. ASSUME NEW h \in here, Meant(target, ns, h, bound) PROVE h \in Queued(r)
    <3>1. h \in DOMAIN bound /\ bound[h].elem = e
      BY <1>4 DEF Here
    <3>2. /\ target <= IF bound[h].sel = 0 THEN e ELSE bound[h].sel
          /\ ns => bound[h].ns
      BY <2>2, <3>1 DEF Meant
    <3>3. bound[h].sel \in Nat /\ bound[h].sel < e
      BY <1>5, <3>1, BindingFacts
    <3>4. \E k \in 1 .. n + 1 : h \in ToSet(g[k])
      <4>1. CASE bound[h].sel = 0
        <5>1. h \in ToSet(g[n + 1]) /\ n + 1 \in 1 .. n + 1
          BY <1>6, <1>8, <1>13, <4>1
        <5>2. QED BY <5>1
      <4>2. CASE bound[h].sel # 0
        <5>1. PICK k : k = bound[h].sel - target + 1
          OBVIOUS
        <5>2. k \in 1 .. n /\ target + k - 1 = bound[h].sel
          BY <1>8, <3>2, <3>3, <4>2, <5>1
        <5>3. h \in ToSet(g[k])
          BY <1>10, <1>13, <5>2
        <5>4. k \in 1 .. n + 1
          BY <1>8, <5>2
        <5>5. QED BY <5>3, <5>4
      <4>3. QED BY <4>1, <4>2
    <3>5. PICK k \in 1 .. n + 1 : h \in ToSet(g[k])
      BY <3>4
    <3>6. h \in ToSet(r[k])
      BY <1>17, <3>2, <3>5
    <3>7. QED BY <1>18, <3>6, QueuedBy
  <2>3. QED BY <1>4, <2>1, <2>2 DEF Here
<1>21. QueueInOrder(r, bound)
  <2>1. ASSUME NEW k \in 1 .. n + 1, NEW i \in DOMAIN r[k], NEW j \in DOMAIN r[k], i < j
        PROVE  Precedes(r[k][i], r[k][j], bound)
    <3>1. r[k][i] < r[k][j]
      BY <1>17, <2>1 DEF Increasing
    <3>2. r[k][i] \in ToSet(g[k]) /\ r[k][j] \in ToSet(g[k])
      BY <1>17, InToSet
    <3>3. /\ bound[r[k][i]].elem = e /\ bound[r[k][j]].elem = e
          /\ bound[r[k][i]].sel = bound[r[k][j]].sel
      BY <1>4, <1>15, <3>2 DEF Here
    <3>4. QED BY <3>1, <3>3 DEF Precedes
  <2>2. ASSUME NEW k \in 1 .. n + 1, NEW l \in 1 .. n + 1, k < l,
               NEW h \in ToSet(r[k]), NEW i \in ToSet(r[l])
        PROVE  Precedes(h, i, bound)
    <3>1. h \in ToSet(g[k]) /\ i \in ToSet(g[l])
      BY <1>17
    <3>2. bound[h].elem = e /\ bound[i].elem = e
      BY <1>4, <1>15, <3>1 DEF Here
    <3>3. bound[h].sel = target + k - 1
      <4>1. k # n + 1
        BY <1>8, <2>2
      <4>2. QED BY <1>15, <3>1, <4>1
    <3>4. bound[i].sel = 0 \/ bound[i].sel = target + l - 1
      BY <1>15, <3>1
    <3>5. target + k - 1 # 0 /\ target + k - 1 < target + l - 1
      BY <1>8, <2>2
    <3>6. QED BY <3>2, <3>3, <3>4, <3>5 DEF Precedes
  <2>3. QED BY <1>18, <2>1, <2>2 DEF QueueInOrder
<1>22. QED BY <1>18, <1>19, <1>20, <1>21, NonEmptyFacts

-----------------------------------------------------------------------------
(* The steps.                                                              *)

LEMMA OnStep ==
  ASSUME EventsIInv, NEW e \in Elems, On(e)
  PROVE  EventsIInv'
<1>1. HandlersOK(handlers, listener, bound)' /\ Keeps(bound, bound')
  BY OnHandlers DEF EventsIInv
<1>2. UNCHANGED <<stack, events, offs, throws>>
  BY DEF On
<1>3. StackOK(stack, events, bound')
  BY <1>1, StackKept DEF EventsIInv
<1>4. QED BY <1>1, <1>2, <1>3 DEF EventsIInv

LEMMA OffStep ==
  ASSUME EventsIInv, NEW e \in Elems, Off(e)
  PROVE  EventsIInv'
<1>1. PICK hs \in OffMatches(e) \ {{}} : Removes(e, hs) /\ Gone(hs)
  BY DEF Off
<1>2. hs \subseteq ToSet(handlers[e].list)
  BY DEF OffMatches
<1>3. HandlersOK(handlers, listener, bound)' /\ Keeps(bound, bound')
  BY <1>1, <1>2, RemovesHandlers DEF EventsIInv
<1>4. UNCHANGED <<stack, events, throws>> /\ offs' \in Nat
  BY DEF Off, EventsIInv
<1>5. StackOK(stack, events, bound')
  BY <1>3, StackKept DEF EventsIInv
<1>6. QED BY <1>3, <1>4, <1>5 DEF EventsIInv

\* A new event: everyone meant for it is further out than it is.
LEMMA StartStep ==
  ASSUME EventsIInv, NEW native \in BOOLEAN, Start(native)
  PROVE  EventsIInv'
<1>1. PICK target \in Elems, ns \in IF native THEN {FALSE} ELSE BOOLEAN :
        /\ events' = Append(events,
              [due |-> {h \in DOMAIN bound :
                           ~bound[h].gone /\ MeantFor(target, ns, h)},
               gone |-> {h \in DOMAIN bound : bound[h].gone},
               during |-> {stack[k].n : k \in DOMAIN stack},
               heard |-> <<>>, finished |-> FALSE])
        /\ stack' = Append(stack,
              [n |-> Len(events) + 1, native |-> native, ns |-> ns,
               target |-> target, at |-> target - 1, queue |-> <<>>,
               running |-> 0, stopped |-> FALSE])
  BY DEF Start
<1>2. PICK ev : ev = [due |-> {h \in DOMAIN bound : ~bound[h].gone /\ MeantFor(target, ns, h)},
                      gone |-> {h \in DOMAIN bound : bound[h].gone},
                      during |-> {stack[k].n : k \in DOMAIN stack},
                      heard |-> <<>>, finished |-> FALSE]
  OBVIOUS
<1>3. PICK f : f = [n |-> Len(events) + 1, native |-> native, ns |-> ns,
                    target |-> target, at |-> target - 1, queue |-> <<>>,
                    running |-> 0, stopped |-> FALSE]
  OBVIOUS
<1>4. PICK l : l = Len(events)
  OBVIOUS
<1>5. PICK s : s = Len(stack)
  OBVIOUS
<1>6. /\ BindingsOK(bound) /\ stack \in Seq(Frame) /\ events \in Seq(Event)
      /\ \A k \in DOMAIN stack : stack[k].n \in DOMAIN events /\ FrameOK(stack[k], events[stack[k].n], bound)
      /\ \A j, k \in DOMAIN stack : j < k => stack[j].n < stack[k].n
      /\ \A n \in DOMAIN events : EventOK(events[n], bound)
      /\ DuringOK(stack, events, bound)
  BY DEF EventsIInv, HandlersOK, StackOK
<1>7. /\ l \in Nat /\ l < MaxEvents /\ MaxEvents \in Nat /\ DOMAIN events = 1 .. l
      /\ s \in Nat /\ DOMAIN stack = 1 .. s
      /\ \A k \in 1 .. s : stack[k] \in Frame
      /\ target \in Nat /\ target >= 1 /\ target - 1 \in 0 .. Elements /\ target - 1 + 1 = target
  BY <1>4, <1>5, <1>6, SeqFacts, EventsAssumption DEF Start, Elems
<1>8. /\ DOMAIN bound \subseteq Handler
      /\ \A h \in DOMAIN bound : bound[h].elem \in Nat /\ bound[h].sel \in Nat /\ bound[h].sel < bound[h].elem
  BY <1>6, BindingFacts, EventsAssumption DEF Elems
<1>9. \A k \in 1 .. s : stack[k].n \in 1 .. l /\ stack[k].n \in 1 .. MaxEvents
  BY <1>6, <1>7
<1>10. /\ ev.due = {h \in DOMAIN bound : ~bound[h].gone /\ MeantFor(target, ns, h)}
       /\ ev.gone = {h \in DOMAIN bound : bound[h].gone}
       /\ ev.during = {stack[k].n : k \in DOMAIN stack}
       /\ ev.heard = <<>> /\ ev.finished = FALSE
  BY <1>2
<1>11. /\ f.n = l + 1 /\ f.ns = ns /\ f.target = target /\ f.at = target - 1
       /\ f.queue = <<>> /\ f.running = 0 /\ f.stopped = FALSE
  BY <1>3, <1>4
<1>12. ev \in Event
  <2>1. {h \in DOMAIN bound : ~bound[h].gone /\ MeantFor(target, ns, h)} \in SUBSET Handler
    BY <1>8
  <2>2. {h \in DOMAIN bound : bound[h].gone} \in SUBSET Handler
    BY <1>8
  <2>3. {stack[k].n : k \in DOMAIN stack} \in SUBSET (1 .. MaxEvents)
    BY <1>7, <1>9
  <2>4. <<>> \in Seq(Handler)
    OBVIOUS
  <2>5. QED BY <1>2, <2>1, <2>2, <2>3, <2>4 DEF Event
<1>13. f \in Frame
  <2>1. l + 1 \in 1 .. MaxEvents /\ 0 \in 0 .. MaxBound
    BY <1>7, EventsAssumption
  <2>2. <<>> \in Seq(Seq(Handler))
    OBVIOUS
  <2>3. ns \in BOOLEAN
    OBVIOUS
  <2>4. QED BY <1>3, <1>4, <1>7, <2>1, <2>2, <2>3 DEF Frame
<1>14. ToSet(ev.heard) = {} /\ DOMAIN ev.heard = {}
  BY <1>10 DEF ToSet
<1>15. EventOK(ev, bound)
  BY <1>10, <1>14 DEF EventOK
<1>16. FrameOK(f, ev, bound)
  <2>1. Queued(f.queue) = {} /\ QueueInOrder(f.queue, bound) /\ DOMAIN f.queue = {}
    BY <1>11, NoGroup
  <2>2. ASSUME NEW h \in ev.due PROVE Meant(target, ns, h, bound) /\ bound[h].elem > target - 1
    <3>1. h \in DOMAIN bound /\ MeantFor(target, ns, h)
      BY <1>10
    <3>2. Meant(target, ns, h, bound)
      BY <3>1 DEF Meant, MeantFor
    <3>3. bound[h].elem > target - 1
      BY <1>7, <1>8, <3>1 DEF MeantFor
    <3>4. QED BY <3>2, <3>3
  <2>3. QED BY <1>7, <1>10, <1>11, <1>14, <2>1, <2>2 DEF FrameOK
<1>17. /\ events' \in Seq(Event) /\ Len(events') = l + 1 /\ DOMAIN events' = 1 .. l + 1
       /\ events'[l + 1] = ev /\ \A n \in 1 .. l : events'[n] = events[n]
  BY <1>1, <1>2, <1>4, <1>6, <1>12, AppendFacts
<1>18. /\ stack' \in Seq(Frame) /\ DOMAIN stack' = 1 .. s + 1
       /\ stack'[s + 1] = f /\ \A k \in 1 .. s : stack'[k] = stack[k]
  BY <1>1, <1>3, <1>5, <1>6, <1>13, AppendFacts
<1>19. /\ \A n \in 1 .. l + 1 : n \in 1 .. l \/ n = l + 1
       /\ \A k \in 1 .. s + 1 : k \in 1 .. s \/ k = s + 1
       /\ l + 1 \in 1 .. l + 1 /\ \A n \in 1 .. l : n \in 1 .. l + 1
  BY <1>7
<1>20. ASSUME NEW k \in 1 .. s + 1
       PROVE  stack'[k].n \in 1 .. l + 1 /\ FrameOK(stack'[k], events'[stack'[k].n], bound)
  <2>1. CASE k = s + 1
    BY <1>11, <1>16, <1>17, <1>18, <1>19, <2>1
  <2>2. CASE k \in 1 .. s
    <3>1. stack'[k] = stack[k] /\ stack[k].n \in 1 .. l
      BY <1>9, <1>18, <2>2
    <3>2. FrameOK(stack[k], events[stack[k].n], bound)
      BY <1>6, <1>7, <2>2
    <3>3. QED BY <1>17, <1>19, <3>1, <3>2
  <2>3. QED BY <1>19, <2>1, <2>2
<1>21. ASSUME NEW j \in 1 .. s + 1, NEW k \in 1 .. s + 1, j < k
       PROVE  stack'[j].n < stack'[k].n
  <2>1. j \in 1 .. s
    BY <1>7, <1>21
  <2>2. CASE k = s + 1
    <3>1. stack'[j].n \in 1 .. l
      BY <1>9, <1>18, <2>1
    <3>2. QED BY <1>7, <1>11, <1>18, <2>2, <3>1
  <2>3. CASE k \in 1 .. s
    BY <1>6, <1>7, <1>18, <1>21, <2>1, <2>3
  <2>4. QED BY <1>19, <2>2, <2>3
<1>22. ASSUME NEW n \in 1 .. l + 1 PROVE EventOK(events'[n], bound)
  BY <1>6, <1>7, <1>15, <1>17, <1>19
<1>23. ASSUME NEW n \in 1 .. l + 1, NEW m \in 1 .. n - 1, m \notin events'[n].during
       PROVE  /\ \A k \in 1 .. s + 1 : stack'[k].n # m
              /\ \A h \in ToSet(events'[m].heard) : bound[h].one => h \in events'[n].gone
  <2>1. m \in 1 .. l /\ m # l + 1 /\ events'[m] = events[m]
    BY <1>7, <1>17
  <2>2. CASE n = l + 1
    <3>1. \A k \in 1 .. s : stack[k].n # m
      BY <1>7, <1>10, <1>17, <1>23, <2>2
    <3>2. \A k \in 1 .. s + 1 : stack'[k].n # m
      BY <1>11, <1>18, <1>19, <2>1, <3>1
    <3>3. EventOK(events[m], bound)
      BY <1>6, <1>7, <2>1
    <3>4. \A h \in ToSet(events[m].heard) : h \in DOMAIN bound /\ (bound[h].one => bound[h].gone)
      BY <3>3 DEF EventOK
    <3>5. \A h \in ToSet(events[m].heard) : bound[h].one => h \in ev.gone
      BY <1>10, <3>4
    <3>6. QED BY <1>17, <2>1, <2>2, <3>2, <3>5
  <2>3. CASE n \in 1 .. l
    <3>1. /\ \A k \in 1 .. s : stack[k].n # m
          /\ \A h \in ToSet(events[m].heard) : bound[h].one => h \in events[n].gone
      BY <1>6, <1>7, <1>17, <1>23, <2>3 DEF DuringOK
    <3>2. \A k \in 1 .. s + 1 : stack'[k].n # m
      BY <1>11, <1>18, <1>19, <2>1, <3>1
    <3>3. QED BY <1>17, <2>1, <2>3, <3>1, <3>2
  <2>4. QED BY <1>19, <2>2, <2>3
<1>24. StackOK(stack', events', bound)
  <2>1. Len(events') <= MaxEvents
    BY <1>7, <1>17
  <2>2. DuringOK(stack', events', bound)
    BY <1>17, <1>18, <1>23 DEF DuringOK
  <2>3. QED BY <1>17, <1>18, <1>20, <1>21, <1>22, <2>1, <2>2 DEF StackOK
<1>25. UNCHANGED <<handlers, listener, bound, offs, throws>>
  BY DEF Start, handlerVars
<1>26. QED BY <1>24, <1>25 DEF EventsIInv

\* What holds of the innermost event.
LEMMA TopOK ==
  ASSUME EventsIInv, ~Idle, NEW ev, ev = events[Top.n]
  PROVE  /\ stack \in Seq(Frame) /\ Top \in Frame
         /\ Top.n \in DOMAIN events /\ ev \in Event
         /\ FrameOK(Top, ev, bound) /\ EventOK(ev, bound)
<1>1. stack \in Seq(Frame) /\ events \in Seq(Event)
  BY DEF EventsIInv, StackOK
<1>2. Len(stack) \in DOMAIN stack /\ Top \in Frame /\ Top = stack[Len(stack)]
  BY <1>1, TopFacts
<1>3. Top.n \in DOMAIN events /\ FrameOK(Top, ev, bound)
  BY <1>2 DEF EventsIInv, StackOK
<1>4. EventOK(ev, bound)
  BY <1>3 DEF EventsIInv, StackOK
<1>5. ev \in Event
  BY <1>1, <1>3, SeqFacts
<1>6. QED BY <1>1, <1>2, <1>3, <1>4, <1>5

LEMMA ReachStep ==
  ASSUME EventsIInv, Reach
  PROVE  EventsIInv'
<1>1. ~Idle /\ Top.running = 0 /\ Top.queue = <<>> /\ ~Top.stopped /\ Top.at < Elements
  BY DEF Reach
<1>2. PICK e : e = Top.at + 1
  OBVIOUS
<1>3. PICK here : here = IF Top.native THEN listener[e] ELSE handlers[e].list # <<>>
  OBVIOUS
<1>4. PICK q : q = IF here THEN HandlerQueue(e, Top.target, Top.ns) ELSE <<>>
  OBVIOUS
<1>5. PICK f : f = [Top EXCEPT !.at = e, !.queue = q]
  OBVIOUS
<1>6. stack' = Append(Below, f) /\ UNCHANGED <<handlerVars, historyVars>>
  <2>1. stack' = Append(Below, [Top EXCEPT !.at = e, !.queue = q])
    BY <1>2, <1>3, <1>4 DEF Reach
  <2>2. QED BY <1>5, <2>1 DEF Reach
<1>7. PICK ev : ev = events[Top.n]
  OBVIOUS
<1>8. /\ stack \in Seq(Frame) /\ Top \in Frame
      /\ Top.n \in DOMAIN events /\ ev \in Event
      /\ FrameOK(Top, ev, bound) /\ EventOK(ev, bound)
  BY <1>1, <1>7, TopOK
<1>9. /\ HandlersOK(handlers, listener, bound) /\ BindingsOK(bound)
  BY DEF EventsIInv, HandlersOK
<1>10. /\ e \in Elems /\ Top.at \in Nat /\ e \in Nat /\ e <= Elements
       /\ Top.target \in 1 .. e /\ Top.ns \in BOOLEAN
  <2>1. Top.at \in 0 .. Elements /\ Top.target \in 1 .. Elements /\ Top.ns \in BOOLEAN
    BY <1>8 DEF Frame, Elems
  <2>2. Top.target <= Top.at + 1
    BY <1>8 DEF FrameOK
  <2>3. QED BY <1>1, <1>2, <2>1, <2>2, EventsAssumption DEF Elems
<1>11. /\ f.n = Top.n /\ f.ns = Top.ns /\ f.target = Top.target /\ f.at = e
       /\ f.queue = q /\ f.running = 0 /\ f.stopped = Top.stopped
  BY <1>1, <1>5, <1>8 DEF Frame
<1>12. here <=> handlers[e].list # <<>>
  BY <1>3, <1>9, <1>10 DEF HandlersOK
<1>13. /\ q \in Queue /\ \A i \in DOMAIN q : q[i] # <<>>
       /\ Queued(q) = {h \in DOMAIN bound : /\ bound[h].elem = e /\ ~bound[h].gone
                                            /\ Meant(Top.target, Top.ns, h, bound)}
       /\ QueueInOrder(q, bound)
  <2>1. CASE here
    <3>1. q = HandlerQueue(e, Top.target, Top.ns)
      BY <1>4, <2>1
    <3>2. QED BY <1>9, <1>10, <3>1, HandlerQueueFacts
  <2>2. CASE ~here
    <3>1. q = <<>>
      BY <1>4, <2>2
    <3>2. ToSet(handlers[e].list) = {}
      BY <1>12, <2>2 DEF ToSet
    <3>3. {h \in DOMAIN bound : bound[h].elem = e /\ ~bound[h].gone} = {}
      BY <1>9, <1>10, <3>2 DEF HandlersOK, ListOK
    <3>4. DOMAIN q = {}
      BY <3>1
    <3>5. QED BY <3>1, <3>3, <3>4, NoGroup
  <2>3. QED BY <2>1, <2>2
<1>14. f \in Frame
  <2>1. e \in 0 .. Elements
    BY <1>10
  <2>2. QED BY <1>5, <1>8, <1>13, <2>1 DEF Frame, Queue
<1>15. \A h \in DOMAIN bound : bound[h].elem \in Nat
  BY <1>9, BindingFacts DEF Elems
<1>16. \A h \in ev.gone : bound[h].gone
  BY <1>8 DEF EventOK
<1>17. ASSUME NEW h \in ToSet(ev.heard)
       PROVE  bound[h].elem <= e /\ \A g \in Queued(q) : Precedes(h, g, bound)
  <2>1. bound[h].elem <= Top.at
    BY <1>8 DEF FrameOK
  <2>2. h \in DOMAIN bound
    BY <1>8 DEF EventOK
  <2>3. bound[h].elem < e
    BY <1>2, <1>10, <1>15, <2>1, <2>2
  <2>4. \A g \in Queued(q) : bound[g].elem = e
    BY <1>13
  <2>5. QED BY <1>10, <1>15, <2>2, <2>3, <2>4 DEF Precedes
<1>18. ASSUME NEW h \in ev.due
       PROVE  /\ Meant(Top.target, Top.ns, h, bound)
              /\ bound[h].gone \/ h \in ToSet(ev.heard) \/ h \in Queued(q) \/ bound[h].elem > e
  <2>1. Queued(Top.queue) = {}
    BY <1>1, NoGroup
  <2>2. /\ Meant(Top.target, Top.ns, h, bound)
        /\ bound[h].gone \/ h \in ToSet(ev.heard) \/ bound[h].elem > Top.at
    BY <1>8, <2>1 DEF FrameOK
  <2>3. h \in DOMAIN bound
    BY <1>8 DEF EventOK
  <2>4. bound[h].elem > Top.at => bound[h].elem = e \/ bound[h].elem > e
    BY <1>2, <1>10, <1>15, <2>3
  <2>5. QED BY <1>13, <2>2, <2>3, <2>4
<1>19. FrameOK(f, ev, bound)
  <2>1. Top.target <= e + 1
    BY <1>10
  <2>2. (Top.stopped => ev.due = {}) /\ ~ev.finished
    BY <1>8 DEF FrameOK
  <2>3. \A h \in Queued(q) : h \in DOMAIN bound /\ bound[h].elem = e /\ h \notin ev.gone
    BY <1>13, <1>16
  <2>4. QED BY <1>11, <1>13, <1>17, <1>18, <2>1, <2>2, <2>3 DEF FrameOK
<1>20. Keeps(bound, bound)
  BY DEF Keeps
<1>21. [events EXCEPT ![Top.n] = ev] = events
  <2>1. events \in Seq(Event)
    BY DEF EventsIInv, StackOK
  <2>2. QED BY <1>7, <1>8, <2>1
<1>22. StackOK(Append(Below, f), [events EXCEPT ![Top.n] = ev], bound)
  <2>1. StackOK(stack, events, bound) /\ f.n = Top.n
    BY <1>11 DEF EventsIInv
  <2>2. ev.gone = events[Top.n].gone /\ ev.during = events[Top.n].during
    BY <1>7
  <2>3. QED BY <1>1, <1>8, <1>14, <1>19, <1>20, <2>1, <2>2, TopStep
<1>23. StackOK(stack', events', bound')
  BY <1>6, <1>21, <1>22 DEF historyVars
<1>24. QED BY <1>6, <1>23 DEF EventsIInv, handlerVars, historyVars

LEMMA ReturnStep ==
  ASSUME EventsIInv, HandlerReturns
  PROVE  EventsIInv'
<1>1. ~Idle /\ Top.running # 0
  BY DEF HandlerReturns
<1>2. PICK how \in {"no", "stop", "immediate"} :
        /\ stack' = Append(Below,
              [Top EXCEPT !.running = 0, !.queue = Remaining(@, how),
                          !.stopped = @ \/ how # "no"])
        /\ events' = [events EXCEPT ![Top.n].due = IF how = "no" THEN @ ELSE {}]
  BY DEF HandlerReturns
<1>3. PICK q : q = Remaining(Top.queue, how)
  OBVIOUS
<1>4. PICK f : f = [Top EXCEPT !.running = 0, !.queue = q, !.stopped = Top.stopped \/ how # "no"]
  OBVIOUS
<1>5. PICK ev : ev = events[Top.n]
  OBVIOUS
<1>6. PICK due : due = IF how = "no" THEN ev.due ELSE {}
  OBVIOUS
<1>7. PICK ev2 : ev2 = [ev EXCEPT !.due = due]
  OBVIOUS
<1>8. /\ stack \in Seq(Frame) /\ Top \in Frame
      /\ Top.n \in DOMAIN events /\ ev \in Event
      /\ FrameOK(Top, ev, bound) /\ EventOK(ev, bound)
  BY <1>1, <1>5, TopOK
<1>9. stack' = Append(Below, f)
  <2>1. [Top EXCEPT !.running = 0, !.queue = Remaining(@, how), !.stopped = @ \/ how # "no"] = f
    BY <1>3, <1>4
  <2>2. QED BY <1>2, <2>1, Zenon
<1>10. events' = [events EXCEPT ![Top.n] = ev2]
  <2>1. events' = [events EXCEPT ![Top.n] = [ev EXCEPT !.due = IF how = "no" THEN @ ELSE {}]]
    BY <1>2, <1>5
  <2>2. [ev EXCEPT !.due = IF how = "no" THEN @ ELSE {}] = ev2
    BY <1>6, <1>7
  <2>3. QED BY <2>1, <2>2, Zenon
<1>11. /\ Top.queue \in Queue /\ Top.queue # <<>> /\ Top.stopped \in BOOLEAN
  BY <1>1, <1>8 DEF Frame, Queue, FrameOK
<1>12. /\ q \in Queue /\ Queued(q) \subseteq Queued(Top.queue)
       /\ how = "no" => Queued(q) = Queued(Top.queue)
       /\ \A i \in DOMAIN q : q[i] # <<>>
       /\ QueueInOrder(q, bound)
  <2>1. QueueInOrder(Top.queue, bound)
    BY <1>8 DEF FrameOK
  <2>2. QED BY <1>3, <1>11, <2>1, RemainingFacts
<1>13. /\ f.n = Top.n /\ f.ns = Top.ns /\ f.target = Top.target /\ f.at = Top.at
       /\ f.queue = q /\ f.running = 0 /\ f.stopped = (Top.stopped \/ how # "no")
  BY <1>4, <1>8 DEF Frame
<1>14. f \in Frame
  <2>1. 0 \in 0 .. MaxBound /\ (Top.stopped \/ how # "no") \in BOOLEAN
    BY EventsAssumption
  <2>2. QED BY <1>4, <1>8, <1>12, <2>1 DEF Frame, Queue
<1>15. /\ ev2.due = due /\ ev2.gone = ev.gone /\ ev2.during = ev.during
       /\ ev2.heard = ev.heard /\ ev2.finished = ev.finished
  BY <1>7, <1>8 DEF Event
<1>16. due \subseteq ev.due
  BY <1>6
<1>17. ev2 \in Event
  BY <1>7, <1>8, <1>16 DEF Event
<1>18. EventOK(ev2, bound)
  <2>1. ~ev.finished
    BY <1>8 DEF FrameOK
  <2>2. QED BY <1>8, <1>15, <1>16, <2>1 DEF EventOK
<1>19. FrameOK(f, ev2, bound)
  <2>1. f.stopped => ev2.due = {}
    BY <1>6, <1>8, <1>13, <1>15 DEF FrameOK
  <2>2. ASSUME NEW h \in ev2.due
        PROVE  /\ Meant(f.target, f.ns, h, bound)
               /\ bound[h].gone \/ h \in ToSet(ev2.heard) \/ h \in Queued(f.queue) \/ bound[h].elem > f.at
    <3>1. how = "no" /\ h \in ev.due
      BY <1>6, <1>15
    <3>2. QED BY <1>8, <1>12, <1>13, <1>15, <3>1 DEF FrameOK
  <2>3. ASSUME NEW h \in ToSet(ev2.heard)
        PROVE  bound[h].elem <= f.at /\ \A g \in Queued(f.queue) : Precedes(h, g, bound)
    BY <1>8, <1>12, <1>13, <1>15 DEF FrameOK
  <2>4. \A h \in Queued(f.queue) : h \in DOMAIN bound /\ bound[h].elem = f.at /\ h \notin ev2.gone
    BY <1>8, <1>12, <1>13, <1>15 DEF FrameOK
  <2>5. f.target <= f.at + 1 /\ ~ev2.finished
    BY <1>8, <1>13, <1>15 DEF FrameOK
  <2>6. f.running = 0 /\ QueueInOrder(f.queue, bound) /\ \A i \in DOMAIN f.queue : f.queue[i] # <<>>
    BY <1>12, <1>13
  <2>7. QED BY <2>1, <2>2, <2>3, <2>4, <2>5, <2>6 DEF FrameOK
<1>20. Keeps(bound, bound)
  BY DEF Keeps
<1>21. StackOK(Append(Below, f), [events EXCEPT ![Top.n] = ev2], bound)
  <2>1. StackOK(stack, events, bound) /\ f.n = Top.n
    BY <1>13 DEF EventsIInv
  <2>2. ev2.gone = events[Top.n].gone /\ ev2.during = events[Top.n].during
    BY <1>5, <1>15
  <2>3. QED BY <1>1, <1>14, <1>17, <1>18, <1>19, <1>20, <2>1, <2>2, TopStep
<1>22. UNCHANGED <<handlers, listener, bound, offs, throws>>
  BY DEF HandlerReturns, handlerVars
<1>23. StackOK(stack', events', bound')
  BY <1>9, <1>10, <1>21, <1>22
<1>24. QED BY <1>22, <1>23 DEF EventsIInv

\* The next handler is called; if it was bound with `one' it is unbound first.
LEMMA InvokeHandlers ==
  ASSUME HandlersOK(handlers, listener, bound), NEW h \in DOMAIN bound,
         IF bound[h].one /\ ~bound[h].gone
         THEN Removes(bound[h].elem, {h}) /\ Gone({h})
         ELSE UNCHANGED <<handlerVars, bound>>
  PROVE  /\ HandlersOK(handlers, listener, bound)' /\ Keeps(bound, bound')
         /\ bound'[h].one => bound'[h].gone
<1>1. BindingsOK(bound)
  BY DEF HandlersOK
<1>2. CASE bound[h].one /\ ~bound[h].gone
  <2>1. PICK e : e = bound[h].elem
    OBVIOUS
  <2>2. e \in Elems
    BY <1>1, <2>1, BindingFacts
  <2>3. {h} \subseteq ToSet(handlers[e].list)
    BY <1>2, <2>1, <2>2 DEF HandlersOK, ListOK
  <2>4. Removes(e, {h}) /\ Gone({h})
    BY <1>2, <2>1
  <2>5. HandlersOK(handlers, listener, bound)' /\ Keeps(bound, bound')
    BY <2>2, <2>3, <2>4, RemovesHandlers
  <2>6. bound' = Unbound(bound, {h})
    BY <2>4 DEF Gone, Unbound
  <2>7. bound'[h].gone
    BY <1>1, <2>6, UnboundFacts
  <2>8. QED BY <2>5, <2>7
<1>3. CASE ~(bound[h].one /\ ~bound[h].gone)
  <2>1. UNCHANGED <<handlers, listener, bound>>
    BY <1>3 DEF handlerVars
  <2>2. Keeps(bound, bound)
    BY DEF Keeps
  <2>3. bound[h].one => bound[h].gone
    BY <1>3
  <2>4. QED BY <2>1, <2>2, <2>3
<1>4. QED BY <1>2, <1>3

LEMMA InvokeStep ==
  ASSUME EventsIInv, Invoke
  PROVE  EventsIInv'
<1>1. ~Idle /\ Top.running = 0 /\ Top.queue # <<>>
  BY DEF Invoke
<1>2. PICK h : h = Top.queue[1][1]
  OBVIOUS
<1>3. PICK q : q = Dequeued(Top.queue)
  OBVIOUS
<1>4. PICK f : f = [Top EXCEPT !.running = h, !.queue = q]
  OBVIOUS
<1>5. PICK ev : ev = events[Top.n]
  OBVIOUS
<1>6. PICK heard : heard = Append(ev.heard, h)
  OBVIOUS
<1>7. PICK ev2 : ev2 = [ev EXCEPT !.heard = heard]
  OBVIOUS
<1>8. /\ stack \in Seq(Frame) /\ Top \in Frame
      /\ Top.n \in DOMAIN events /\ ev \in Event
      /\ FrameOK(Top, ev, bound) /\ EventOK(ev, bound)
  BY <1>1, <1>5, TopOK
<1>9. stack' = Append(Below, f)
  <2>1. stack' = Append(Below, [Top EXCEPT !.running = h, !.queue = Dequeued(@)])
    BY <1>2 DEF Invoke
  <2>2. [Top EXCEPT !.running = h, !.queue = Dequeued(@)] = f
    BY <1>3, <1>4
  <2>3. QED BY <2>1, <2>2, Zenon
<1>10. events' = [events EXCEPT ![Top.n] = ev2]
  <2>1. events' = [events EXCEPT ![Top.n].heard = Append(@, h)]
    BY <1>2 DEF Invoke
  <2>2. events' = [events EXCEPT ![Top.n] = [ev EXCEPT !.heard = Append(@, h)]]
    BY <1>5, <2>1
  <2>3. [ev EXCEPT !.heard = Append(@, h)] = ev2
    BY <1>6, <1>7
  <2>4. QED BY <2>2, <2>3, Zenon
<1>11. /\ Top.queue \in Queue /\ Top.queue[1] # <<>>
  <2>1. Top.queue \in Queue
    BY <1>8 DEF Frame, Queue
  <2>2. 1 \in DOMAIN Top.queue
    BY <1>1, <2>1 DEF Queue
  <2>3. Top.queue[1] # <<>>
    BY <1>1, <1>8, <2>2 DEF FrameOK
  <2>4. QED BY <2>1, <2>3
<1>12. /\ HandlersOK(handlers, listener, bound) /\ StackOK(stack, events, bound)
       /\ offs \in Nat /\ throws \in Nat
  BY DEF EventsIInv
<1>13. h \in Queued(Top.queue) /\ h \in DOMAIN bound /\ h \in Handler
  <2>1. h \in Queued(Top.queue) /\ h \in Handler
    BY <1>1, <1>2, <1>11, DequeuedFacts
  <2>2. QED BY <1>8, <2>1 DEF FrameOK
<1>14. /\ HandlersOK(handlers, listener, bound)' /\ Keeps(bound, bound')
       /\ bound'[h].one => bound'[h].gone
  <2>1. IF bound[h].one /\ ~bound[h].gone
        THEN Removes(bound[h].elem, {h}) /\ Gone({h})
        ELSE UNCHANGED <<handlerVars, bound>>
    BY <1>2 DEF Invoke
  <2>2. QED BY <1>12, <1>13, <2>1, InvokeHandlers
<1>15. PICK bd : bd = bound'
  OBVIOUS
<1>16. Keeps(bound, bd) /\ (bd[h].one => bd[h].gone)
  BY <1>14, <1>15
<1>17. EventOK(ev, bd) /\ FrameOK(Top, ev, bd)
  BY <1>8, <1>16, EventKept, FrameKept
<1>18. /\ QueueInOrder(Top.queue, bd)
       /\ \A g \in Queued(Top.queue) : g \in DOMAIN bd /\ bd[g].elem = Top.at /\ g \notin ev.gone
       /\ \A g \in ToSet(ev.heard) :
             bd[g].elem <= Top.at /\ \A i \in Queued(Top.queue) : Precedes(g, i, bd)
       /\ \A g \in ev.due :
             /\ Meant(Top.target, Top.ns, g, bd)
             /\ \/ bd[g].gone \/ g \in ToSet(ev.heard) \/ g \in Queued(Top.queue)
                \/ bd[g].elem > Top.at
       /\ Top.target <= Top.at + 1
       /\ Top.stopped => ev.due = {}
       /\ ~ev.finished
  BY <1>17 DEF FrameOK
<1>19. /\ q \in Queue /\ q # <<>> /\ Queued(q) \subseteq Queued(Top.queue)
       /\ Queued(Top.queue) \subseteq Queued(q) \cup {h}
       /\ QueueInOrder(q, bd) /\ \A g \in Queued(q) : Precedes(h, g, bd)
  BY <1>1, <1>2, <1>3, <1>11, <1>18, DequeuedFacts
<1>20. /\ f.n = Top.n /\ f.ns = Top.ns /\ f.target = Top.target /\ f.at = Top.at
       /\ f.queue = q /\ f.running = h /\ f.stopped = Top.stopped
  BY <1>4, <1>8 DEF Frame
<1>21. f \in Frame
  <2>1. h \in 0 .. MaxBound
    BY <1>13 DEF Handler
  <2>2. QED BY <1>4, <1>8, <1>19, <2>1 DEF Frame, Queue
<1>22. PICK l : l = Len(ev.heard)
  OBVIOUS
<1>23. /\ heard \in Seq(Handler) /\ DOMAIN heard = 1 .. l + 1 /\ heard[l + 1] = h
       /\ \A i \in 1 .. l : heard[i] = ev.heard[i]
       /\ l \in Nat /\ DOMAIN ev.heard = 1 .. l
  <2>1. ev.heard \in Seq(Handler)
    BY <1>8 DEF Event
  <2>2. l \in Nat /\ DOMAIN ev.heard = 1 .. l
    BY <1>22, <2>1, SeqFacts
  <2>3. QED BY <1>6, <1>13, <1>22, <2>1, <2>2, AppendFacts
<1>24. ToSet(heard) = ToSet(ev.heard) \cup {h}
  <2>1. \A i \in 1 .. l + 1 : i \in 1 .. l \/ i = l + 1
    BY <1>23
  <2>2. l + 1 \in 1 .. l + 1 /\ \A i \in 1 .. l : i \in 1 .. l + 1
    BY <1>23
  <2>3. \A x : x \in ToSet(heard) <=> x \in ToSet(ev.heard) \/ x = h
    BY <1>23, <2>1, <2>2, InToSet
  <2>4. QED BY <2>3
<1>25. /\ ev2.due = ev.due /\ ev2.gone = ev.gone /\ ev2.during = ev.during
       /\ ev2.heard = heard /\ ev2.finished = ev.finished
  BY <1>7, <1>8 DEF Event
<1>26. ev2 \in Event
  BY <1>7, <1>8, <1>23 DEF Event
<1>27. EventOK(ev2, bd)
  <2>1. /\ ev.due \subseteq DOMAIN bd /\ ToSet(ev.heard) \subseteq DOMAIN bd
        /\ \A j, k \in 1 .. l : j < k => Precedes(ev.heard[j], ev.heard[k], bd)
        /\ \A g \in ev.gone : g \in DOMAIN bd /\ bd[g].gone /\ g \notin ToSet(ev.heard)
        /\ \A g \in ToSet(ev.heard) : bd[g].one => bd[g].gone
    BY <1>17, <1>23 DEF EventOK
  <2>2. ASSUME NEW j \in 1 .. l + 1, NEW k \in 1 .. l + 1, j < k
        PROVE  Precedes(heard[j], heard[k], bd)
    <3>1. j \in 1 .. l /\ (k \in 1 .. l \/ k = l + 1)
      BY <1>23, <2>2
    <3>2. CASE k \in 1 .. l
      BY <1>23, <2>1, <2>2, <3>1, <3>2
    <3>3. CASE k = l + 1
      <4>1. heard[j] \in ToSet(ev.heard)
        BY <1>23, <3>1, InToSet
      <4>2. QED BY <1>13, <1>18, <1>23, <3>3, <4>1
    <3>4. QED BY <3>1, <3>2, <3>3
  <2>3. \A g \in ev.gone : g \notin ToSet(heard)
    BY <1>13, <1>18, <1>24, <2>1
  <2>4. \A g \in ToSet(heard) : g \in DOMAIN bd /\ (bd[g].one => bd[g].gone)
    BY <1>13, <1>16, <1>18, <1>24, <2>1
  <2>5. QED BY <1>18, <1>23, <1>25, <2>1, <2>2, <2>3, <2>4 DEF EventOK
<1>28. FrameOK(f, ev2, bd)
  <2>1. f.running # 0
    BY <1>13, <1>20, EventsAssumption DEF Handler
  <2>2. \A g \in Queued(q) : g \in DOMAIN bd /\ bd[g].elem = Top.at /\ g \notin ev.gone
    BY <1>18, <1>19
  <2>3. ASSUME NEW g \in ToSet(heard)
        PROVE  bd[g].elem <= Top.at /\ \A i \in Queued(q) : Precedes(g, i, bd)
    <3>1. CASE g \in ToSet(ev.heard)
      BY <1>18, <1>19, <3>1
    <3>2. CASE g = h
      <4>1. bd[h].elem = Top.at /\ Top.at \in Nat
        BY <1>8, <1>13, <1>18, EventsAssumption DEF Frame
      <4>2. bd[h].elem <= Top.at
        BY <4>1
      <4>3. QED BY <1>19, <3>2, <4>2
    <3>3. QED BY <1>24, <3>1, <3>2
  <2>4. ASSUME NEW g \in ev.due
        PROVE  /\ Meant(Top.target, Top.ns, g, bd)
               /\ bd[g].gone \/ g \in ToSet(heard) \/ g \in Queued(q) \/ bd[g].elem > Top.at
    BY <1>18, <1>19, <1>24
  <2>5. QED BY <1>18, <1>19, <1>20, <1>25, <2>1, <2>2, <2>3, <2>4 DEF FrameOK
<1>29. StackOK(Append(Below, f), [events EXCEPT ![Top.n] = ev2], bd)
  <2>1. StackOK(stack, events, bound) /\ f.n = Top.n
    BY <1>12, <1>20
  <2>2. ev2.gone = events[Top.n].gone /\ ev2.during = events[Top.n].during
    BY <1>5, <1>25
  <2>3. QED BY <1>1, <1>16, <1>21, <1>26, <1>27, <1>28, <2>1, <2>2, TopStep
<1>30. StackOK(stack', events', bound')
  BY <1>9, <1>10, <1>15, <1>29
<1>31. UNCHANGED <<offs, throws>>
  BY DEF Invoke
<1>32. QED BY <1>12, <1>14, <1>30, <1>31 DEF EventsIInv

-----------------------------------------------------------------------------
(* Events that end.                                                        *)

\* Frames leave the stack, and events end: what they did remains.
LEMMA StackEnds ==
  ASSUME StackOK(stack, events, bound), NEW st \in Seq(Frame), NEW evs \in Seq(Event),
         Len(evs) = Len(events),
         \A n \in DOMAIN events :
            /\ evs[n].heard = events[n].heard /\ evs[n].gone = events[n].gone
            /\ evs[n].during = events[n].during /\ EventOK(evs[n], bound),
         \A k \in DOMAIN st :
            /\ k \in DOMAIN stack /\ st[k].n = stack[k].n
            /\ FrameOK(st[k], evs[st[k].n], bound)
  PROVE  StackOK(st, evs, bound)
<1>1. DOMAIN evs = DOMAIN events /\ DOMAIN events = 1 .. Len(events) /\ Len(events) \in Nat
  <2>1. events \in Seq(Event)
    BY DEF StackOK
  <2>2. QED BY <2>1, SeqFacts
<1>2. \A k \in DOMAIN st : st[k].n \in DOMAIN evs /\ FrameOK(st[k], evs[st[k].n], bound)
  BY <1>1 DEF StackOK
<1>3. \A j, k \in DOMAIN st : j < k => st[j].n < st[k].n
  BY DEF StackOK
<1>4. ASSUME NEW n \in DOMAIN evs, NEW m \in 1 .. n - 1, m \notin evs[n].during
      PROVE  /\ \A k \in DOMAIN st : st[k].n # m
             /\ \A h \in ToSet(evs[m].heard) : bound[h].one => h \in evs[n].gone
  <2>1. m \in DOMAIN events /\ n \in DOMAIN events
    BY <1>1
  <2>2. /\ \A k \in DOMAIN stack : stack[k].n # m
        /\ \A h \in ToSet(events[m].heard) : bound[h].one => h \in events[n].gone
    BY <1>4, <2>1 DEF StackOK, DuringOK
  <2>3. QED BY <2>1, <2>2
<1>5. Len(evs) <= MaxEvents
  BY DEF StackOK
<1>6. QED BY <1>1, <1>2, <1>3, <1>4, <1>5 DEF StackOK, DuringOK

LEMMA FinishStep ==
  ASSUME EventsIInv, Finish
  PROVE  EventsIInv'
<1>1. /\ ~Idle /\ Top.queue = <<>> /\ (Top.stopped \/ Top.at = Elements)
      /\ stack' = Below
      /\ events' = [events EXCEPT ![Top.n].finished = TRUE]
      /\ UNCHANGED <<handlers, listener, bound, offs, throws>>
  BY DEF Finish, handlerVars
<1>2. PICK ev : ev = events[Top.n]
  OBVIOUS
<1>3. PICK ev2 : ev2 = [ev EXCEPT !.finished = TRUE]
  OBVIOUS
<1>4. PICK evs : evs = [events EXCEPT ![Top.n] = ev2]
  OBVIOUS
<1>5. PICK l : l = Len(stack)
  OBVIOUS
<1>6. /\ stack \in Seq(Frame) /\ Top \in Frame
      /\ Top.n \in DOMAIN events /\ ev \in Event
      /\ FrameOK(Top, ev, bound) /\ EventOK(ev, bound)
  BY <1>1, <1>2, TopOK
<1>7. events' = evs
  <2>1. events' = [events EXCEPT ![Top.n] = [ev EXCEPT !.finished = TRUE]]
    BY <1>1, <1>2
  <2>2. QED BY <1>3, <1>4, <2>1, Zenon
<1>8. /\ ev2.due = ev.due /\ ev2.gone = ev.gone /\ ev2.during = ev.during
      /\ ev2.heard = ev.heard /\ ev2.finished = TRUE /\ ev2 \in Event
  BY <1>3, <1>6 DEF Event
<1>9. /\ StackOK(stack, events, bound) /\ events \in Seq(Event)
      /\ BindingsOK(bound)
  BY DEF EventsIInv, StackOK, HandlersOK
<1>10. EventOK(ev2, bound)
  <2>1. ASSUME NEW h \in ev.due PROVE bound[h].gone \/ h \in ToSet(ev.heard)
    <3>1. Queued(Top.queue) = {}
      BY <1>1, NoGroup
    <3>2. bound[h].gone \/ h \in ToSet(ev.heard) \/ bound[h].elem > Top.at
      BY <1>6, <3>1 DEF FrameOK
    <3>3. ~Top.stopped
      BY <1>6 DEF FrameOK
    <3>4. Top.at = Elements
      BY <1>1, <3>3
    <3>5. h \in DOMAIN bound
      BY <1>6 DEF EventOK
    <3>6. bound[h].elem \in 1 .. Elements /\ Elements \in Nat
      BY <1>9, <3>5, BindingFacts, EventsAssumption DEF Elems
    <3>7. ~(bound[h].elem > Top.at)
      BY <3>4, <3>6
    <3>8. QED BY <3>2, <3>7
  <2>2. QED BY <1>6, <1>8, <2>1 DEF EventOK
<1>11. /\ evs \in Seq(Event) /\ Len(evs) = Len(events)
       /\ evs[Top.n] = ev2 /\ \A n \in DOMAIN events : n # Top.n => evs[n] = events[n]
  <2>1. Top.n \in 1 .. Len(events)
    BY <1>6, <1>9, SeqFacts
  <2>2. evs \in Seq(Event) /\ Len(evs) = Len(events)
    BY <1>4, <1>8, <1>9, <2>1, ExceptSeq
  <2>3. QED BY <1>4, <1>6, <2>2
<1>12. ASSUME NEW n \in DOMAIN events
       PROVE  /\ evs[n].heard = events[n].heard /\ evs[n].gone = events[n].gone
              /\ evs[n].during = events[n].during /\ EventOK(evs[n], bound)
  <2>1. CASE n = Top.n
    BY <1>2, <1>8, <1>10, <1>11, <2>1
  <2>2. CASE n # Top.n
    BY <1>9, <1>11, <2>2 DEF StackOK
  <2>3. QED BY <2>1, <2>2
<1>13. /\ Below \in Seq(Frame) /\ l \in Nat /\ DOMAIN stack = 1 .. l /\ l \in DOMAIN stack
       /\ DOMAIN Below = 1 .. l - 1
       /\ \A k \in 1 .. l - 1 : Below[k] = stack[k]
       /\ Top = stack[l]
  BY <1>1, <1>5, <1>6, TopFacts
<1>14. ASSUME NEW k \in DOMAIN Below
       PROVE  /\ k \in DOMAIN stack /\ Below[k].n = stack[k].n
              /\ FrameOK(Below[k], evs[Below[k].n], bound)
  <2>1. k \in DOMAIN stack /\ k < l /\ Below[k] = stack[k]
    BY <1>13
  <2>2. stack[k].n < Top.n
    BY <1>9, <1>13, <2>1 DEF StackOK
  <2>3. stack[k].n \in DOMAIN events /\ FrameOK(stack[k], events[stack[k].n], bound)
    BY <1>9, <2>1 DEF StackOK
  <2>4. stack[k].n # Top.n
    <3>1. stack[k].n \in Int /\ Top.n \in Int
      BY <1>6, <1>9, <2>3, SeqFacts
    <3>2. QED BY <2>2, <3>1
  <2>5. QED BY <1>11, <2>1, <2>3, <2>4
<1>15. StackOK(Below, evs, bound)
  BY <1>9, <1>11, <1>12, <1>13, <1>14, StackEnds
<1>16. StackOK(stack', events', bound')
  BY <1>1, <1>7, <1>15
<1>17. QED BY <1>1, <1>16 DEF EventsIInv

LEMMA MaxIn ==
  ASSUME NEW n \in Nat, NEW T, T \subseteq 1 .. n, T # {}
  PROVE  Max(T) \in T
<1> DEFINE U == {n - k : k \in T}
<1>1. \A k \in T : k \in Nat /\ n - k \in Nat
  OBVIOUS
<1>2. U \subseteq Nat /\ U # {}
  BY <1>1
<1>3. PICK u \in U : \A w \in U : u <= w
  BY <1>2, NatMin
<1>4. PICK k \in T : u = n - k
  OBVIOUS
<1>5. \A y \in T : k >= y
  <2>1. SUFFICES ASSUME NEW y \in T PROVE k >= y
    OBVIOUS
  <2>2. n - k <= n - y
    BY <1>3, <1>4
  <2>3. QED BY <1>1, <2>2
<1>6. QED BY <1>4, <1>5 DEF Max

\* A handler throws: the events down to the innermost native one are cut off,
\* and that one goes on.
LEMMA ThrowStep ==
  ASSUME EventsIInv, HandlerThrows
  PROVE  EventsIInv'
<1>1. PICK native : native = {k \in DOMAIN stack : stack[k].native}
  OBVIOUS
<1>2. PICK k : k = IF native = {} THEN 0 ELSE Max(native)
  OBVIOUS
<1>3. PICK from : from = IF k = 0 THEN 1 ELSE k
  OBVIOUS
<1>4. PICK cut : cut = {stack[j].n : j \in from .. Len(stack)}
  OBVIOUS
<1>5. PICK st : st = [j \in 1 .. k |->
                        IF j = k THEN [stack[j] EXCEPT !.running = 0, !.queue = <<>>]
                        ELSE stack[j]]
  OBVIOUS
<1>6. PICK evs : evs = [n \in DOMAIN events |->
                          IF n \in cut THEN [events[n] EXCEPT !.due = {}] ELSE events[n]]
  OBVIOUS
<1>7. stack' = st /\ events' = evs
  BY <1>1, <1>2, <1>3, <1>4, <1>5, <1>6, Zenon DEF HandlerThrows
<1>8. /\ UNCHANGED <<handlers, listener, bound, offs>> /\ throws' \in Nat
  <2>1. UNCHANGED <<handlerVars, bound, offs>> /\ throws' = throws + 1
    BY Zenon DEF HandlerThrows
  <2>2. throws \in Nat
    BY DEF EventsIInv
  <2>3. QED BY <2>1, <2>2 DEF handlerVars
<1>9. /\ StackOK(stack, events, bound) /\ events \in Seq(Event) /\ stack \in Seq(Frame)
  BY DEF EventsIInv, StackOK
<1>10. PICK l : l = Len(stack)
  OBVIOUS
<1>11. /\ l \in Nat /\ DOMAIN stack = 1 .. l
       /\ \A j \in 1 .. l : stack[j] \in Frame
  BY <1>9, <1>10, SeqFacts
<1>12. k \in 0 .. l
  <2>1. CASE native = {}
    BY <1>2, <1>11, <2>1
  <2>2. CASE native # {}
    <3>1. native \subseteq 1 .. l
      BY <1>1, <1>11
    <3>2. Max(native) \in native
      BY <1>11, <2>2, <3>1, MaxIn
    <3>3. QED BY <1>2, <1>11, <2>2, <3>1, <3>2
  <2>3. QED BY <2>1, <2>2
<1>13. /\ DOMAIN events = 1 .. Len(events) /\ Len(events) \in Nat
       /\ \A n \in DOMAIN events : events[n] \in Event
  BY <1>9, SeqFacts
<1>14. ASSUME NEW n \in DOMAIN events
       PROVE  /\ evs[n] \in Event
              /\ evs[n].heard = events[n].heard /\ evs[n].gone = events[n].gone
              /\ evs[n].during = events[n].during /\ evs[n].finished = events[n].finished
              /\ evs[n].due = IF n \in cut THEN {} ELSE events[n].due
  <2>1. events[n] \in Event
    BY <1>13
  <2>2. CASE n \in cut
    <3>1. evs[n] = [events[n] EXCEPT !.due = {}]
      BY <1>6, <2>2
    <3>2. QED BY <2>1, <2>2, <3>1 DEF Event
  <2>3. CASE n \notin cut
    <3>1. evs[n] = events[n]
      BY <1>6, <2>3
    <3>2. QED BY <2>1, <2>3, <3>1
  <2>4. QED BY <2>2, <2>3
<1>15. evs \in Seq(Event) /\ Len(evs) = Len(events) /\ DOMAIN evs = DOMAIN events
  <2>1. PICK m : m = Len(events)
    OBVIOUS
  <2>2. m \in Nat /\ DOMAIN evs = 1 .. m /\ \A n \in 1 .. m : evs[n] \in Event
    BY <1>6, <1>13, <1>14, <2>1
  <2>3. evs = [n \in 1 .. m |-> evs[n]]
    BY <1>6, <2>2
  <2>4. evs \in Seq(Event) /\ Len(evs) = m
    BY <2>2, <2>3
  <2>5. QED BY <1>6, <2>1, <2>4
<1>16. ASSUME NEW n \in DOMAIN events
       PROVE  /\ evs[n].heard = events[n].heard /\ evs[n].gone = events[n].gone
              /\ evs[n].during = events[n].during /\ EventOK(evs[n], bound)
  <2>1. EventOK(events[n], bound)
    BY <1>9 DEF StackOK
  <2>2. evs[n].due \subseteq events[n].due
    BY <1>14
  <2>3. EventOK(evs[n], bound)
    BY <1>14, <2>1, <2>2 DEF EventOK
  <2>4. QED BY <1>14, <2>3
<1>17. ASSUME NEW j \in 1 .. k
       PROVE  /\ j \in 1 .. l /\ st[j] \in Frame /\ st[j].n = stack[j].n
              /\ FrameOK(st[j], evs[st[j].n], bound)
  <2>1. j \in 1 .. l /\ stack[j] \in Frame
    BY <1>11, <1>12
  <2>2. stack[j].n \in DOMAIN events /\ FrameOK(stack[j], events[stack[j].n], bound)
    BY <1>9, <1>11, <2>1 DEF StackOK
  <2>3. CASE j = k
    <3>1. st[j] = [stack[j] EXCEPT !.running = 0, !.queue = <<>>]
      BY <1>5, <2>3
    <3>2. /\ st[j].n = stack[j].n /\ st[j].ns = stack[j].ns /\ st[j].target = stack[j].target
          /\ st[j].at = stack[j].at /\ st[j].running = 0 /\ st[j].queue = <<>>
          /\ st[j].stopped = stack[j].stopped
      BY <2>1, <3>1 DEF Frame
    <3>3. st[j] \in Frame
      <4>1. <<>> \in Seq(Seq(Handler)) /\ 0 \in 0 .. MaxBound
        BY EventsAssumption
      <4>2. QED BY <2>1, <3>1, <4>1 DEF Frame
    <3>4. stack[j].n \in cut
      BY <1>3, <1>4, <1>10, <1>11, <1>12, <2>3
    <3>5. PICK ev : ev = evs[stack[j].n]
      OBVIOUS
    <3>6. /\ ev.due = {} /\ ev.heard = events[stack[j].n].heard
          /\ ev.finished = events[stack[j].n].finished
      BY <1>14, <2>2, <3>4, <3>5
    <3>7. /\ stack[j].target <= stack[j].at + 1 /\ ~events[stack[j].n].finished
          /\ \A h \in ToSet(events[stack[j].n].heard) : bound[h].elem <= stack[j].at
      BY <2>2 DEF FrameOK
    <3>8. Queued(<<>>) = {} /\ QueueInOrder(<<>>, bound) /\ DOMAIN <<>> = {}
      BY NoGroup
    <3>9. FrameOK(st[j], ev, bound)
      BY <3>2, <3>6, <3>7, <3>8 DEF FrameOK
    <3>10. QED BY <2>1, <3>2, <3>3, <3>5, <3>9
  <2>4. CASE j # k
    <3>1. st[j] = stack[j]
      BY <1>5, <2>4
    <3>2. stack[j].n \notin cut
      <4>1. SUFFICES ASSUME NEW i \in from .. l, stack[i].n = stack[j].n PROVE FALSE
        BY <1>4, <1>10
      <4>2. i \in 1 .. l /\ j < i
        BY <1>3, <1>11, <1>12, <2>4
      <4>3. stack[j].n < stack[i].n
        BY <1>9, <1>11, <2>1, <4>2 DEF StackOK
      <4>4. stack[j].n \in Int
        BY <1>13, <2>2
      <4>5. QED BY <4>1, <4>3, <4>4
    <3>3. evs[stack[j].n] = events[stack[j].n]
      BY <1>6, <2>2, <3>2
    <3>4. QED BY <2>1, <2>2, <3>1, <3>3
  <2>5. QED BY <2>3, <2>4
<1>18. st \in Seq(Frame) /\ DOMAIN st = 1 .. k
  <2>1. k \in Nat
    BY <1>11, <1>12
  <2>2. DOMAIN st = 1 .. k
    BY <1>5
  <2>3. st = [j \in 1 .. k |-> st[j]]
    BY <1>5, <2>2
  <2>4. \A j \in 1 .. k : st[j] \in Frame
    BY <1>17
  <2>5. QED BY <2>1, <2>2, <2>3, <2>4
<1>19. \A j \in DOMAIN st :
         /\ j \in DOMAIN stack /\ st[j].n = stack[j].n
         /\ FrameOK(st[j], evs[st[j].n], bound)
  BY <1>11, <1>17, <1>18
<1>20. StackOK(st, evs, bound)
  BY <1>9, <1>15, <1>16, <1>18, <1>19, StackEnds
<1>21. StackOK(stack', events', bound')
  BY <1>7, <1>8, <1>20
<1>22. QED BY <1>8, <1>21 DEF EventsIInv

-----------------------------------------------------------------------------
(* The theorems.                                                           *)

LEMMA EventsStart == Init => EventsIInv
<1>1. SUFFICES ASSUME Init PROVE EventsIInv
  OBVIOUS
<1>2. handlers = [e \in Elems |-> [list |-> <<>>, delegateCount |-> 0]]
      /\ listener = [e \in Elems |-> FALSE] /\ stack = <<>> /\ bound = <<>>
      /\ events = <<>> /\ offs = 0 /\ throws = 0
  BY <1>1 DEF Init
<1>3. BindingsOK(bound)
  BY <1>2, EventsAssumption DEF BindingsOK
<1>4. /\ handlers \in [Elems -> [list : Seq(Handler), delegateCount : 0 .. MaxBound]]
      /\ listener \in [Elems -> BOOLEAN]
  BY <1>2, EventsAssumption
<1>5. ASSUME NEW e \in Elems
      PROVE  ListOK(e, handlers[e], bound) /\ (listener[e] <=> handlers[e].list # <<>>)
  <2>1. handlers[e].list = <<>> /\ handlers[e].delegateCount = 0 /\ ~listener[e]
    BY <1>2
  <2>2. ToSet(handlers[e].list) = {} /\ DOMAIN handlers[e].list = {}
    BY <2>1 DEF ToSet
  <2>3. QED BY <1>2, <2>1, <2>2 DEF ListOK
<1>6. StackOK(stack, events, bound)
  BY <1>2, EventsAssumption DEF StackOK, DuringOK
<1>7. QED BY <1>2, <1>3, <1>4, <1>5, <1>6 DEF EventsIInv, HandlersOK

LEMMA EventsStep == EventsIInv /\ [Next]_allVars => EventsIInv'
<1>1. SUFFICES ASSUME EventsIInv, [Next]_allVars PROVE EventsIInv'
  OBVIOUS
<1>2. CASE \E e \in Elems : On(e) \/ Off(e)
  BY <1>1, <1>2, OnStep, OffStep
<1>3. CASE NativeEvent
  BY <1>1, <1>3, StartStep DEF NativeEvent
<1>4. CASE Trigger
  BY <1>1, <1>4, StartStep DEF Trigger
<1>5. CASE Reach
  BY <1>1, <1>5, ReachStep
<1>6. CASE Invoke
  BY <1>1, <1>6, InvokeStep
<1>7. CASE HandlerReturns
  BY <1>1, <1>7, ReturnStep
<1>8. CASE HandlerThrows
  BY <1>1, <1>8, ThrowStep
<1>9. CASE Finish
  BY <1>1, <1>9, FinishStep
<1>10. CASE UNCHANGED allVars
  BY <1>1, <1>10 DEF allVars, handlerVars, historyVars, EventsIInv
<1>11. QED BY <1>1, <1>2, <1>3, <1>4, <1>5, <1>6, <1>7, <1>8, <1>9, <1>10 DEF Next

\* The lists of handlers, the native listeners and the queues of all events that
\* are going on fit each other, whatever handlers bind, unbind, trigger, stop or
\* throw (jQuery.event.add, remove, dispatch, handlers and trigger).
THEOREM EventsInductive == Spec => []EventsIInv
<1>1. Init => EventsIInv
  BY EventsStart
<1>2. EventsIInv /\ [Next]_allVars => EventsIInv'
  BY EventsStep
<1>3. QED BY <1>1, <1>2, PTL DEF Spec

\* An element is listened to by the browser exactly while it has handlers, and
\* delegateCount tells the delegated handlers from the direct ones.
THEOREM EventsSafe == Spec => []EventsInv
<1>1. ASSUME EventsIInv PROVE EventsInv
  <2>1. HandlersOK(handlers, listener, bound) /\ StackOK(stack, events, bound)
    BY <1>1 DEF EventsIInv
  <2>2. \A e \in Elems : ListOK(e, handlers[e], bound) /\ (listener[e] <=> handlers[e].list # <<>>)
    BY <2>1 DEF HandlersOK
  <2>3. EventsTypeOK
    BY <2>1, <2>2 DEF EventsTypeOK, HandlersOK, StackOK, ListOK
  <2>4. ListensIffHandled
    BY <2>2 DEF ListensIffHandled, ListOK
  <2>5. QED BY <2>3, <2>4 DEF EventsInv
<1>2. EventsIInv => EventsInv
  BY <1>1
<1>3. QED BY <1>2, EventsInductive, PTL

LEMMA PrecedesFacts ==
  ASSUME NEW bd, BindingsOK(bd), NEW h \in DOMAIN bd, NEW g \in DOMAIN bd, Precedes(h, g, bd)
  PROVE  /\ h # g /\ bd[h].elem <= bd[g].elem
         /\ bd[h].elem = bd[g].elem =>
               \/ bd[h].sel = bd[g].sel /\ h < g
               \/ bd[h].sel # 0 /\ (bd[g].sel = 0 \/ bd[h].sel < bd[g].sel)
<1>1. /\ h \in Int /\ g \in Int
      /\ bd[h].elem \in Int /\ bd[g].elem \in Int /\ bd[h].sel \in Int /\ bd[g].sel \in Int
  BY BindingFacts DEF Elems
<1>2. QED BY <1>1 DEF Precedes

\* Who was bound when an event began and is not unbound before its end hears of
\* it, if no handler stops it or throws; nobody hears of it twice.
THEOREM AllHear == Spec => []NoneMissed
<1>1. ASSUME EventsIInv PROVE NoneMissed
  <2>1. SUFFICES ASSUME NEW n \in DOMAIN events
                 PROVE  /\ IsInjective(events[n].heard)
                        /\ events[n].finished =>
                              {h \in events[n].due : ~bound[h].gone} \subseteq ToSet(events[n].heard)
    BY DEF NoneMissed
  <2>2. EventOK(events[n], bound) /\ BindingsOK(bound) /\ events[n] \in Event
    <3>1. events \in Seq(Event)
      BY <1>1 DEF EventsIInv, StackOK
    <3>2. events[n] \in Event
      BY <3>1, SeqFacts
    <3>3. QED BY <1>1, <3>2 DEF EventsIInv, HandlersOK, StackOK
  <2>3. PICK heard : heard = events[n].heard
    OBVIOUS
  <2>4. /\ ToSet(heard) \subseteq DOMAIN bound
        /\ \A j, k \in DOMAIN heard : j < k => Precedes(heard[j], heard[k], bound)
    BY <2>2, <2>3 DEF EventOK
  <2>5. DOMAIN heard \subseteq Int
    <3>1. heard \in Seq(Handler)
      BY <2>2, <2>3 DEF Event
    <3>2. QED BY <3>1, SeqFacts
  <2>6. \A j, k \in DOMAIN heard : j < k => heard[j] # heard[k]
    <3>1. SUFFICES ASSUME NEW j \in DOMAIN heard, NEW k \in DOMAIN heard, j < k
                   PROVE  heard[j] # heard[k]
      OBVIOUS
    <3>2. heard[j] \in DOMAIN bound /\ heard[k] \in DOMAIN bound
      BY <2>4, InToSet
    <3>3. Precedes(heard[j], heard[k], bound)
      BY <2>4, <3>1
    <3>4. QED BY <2>2, <3>2, <3>3, PrecedesFacts
  <2>7. IsInjective(heard)
    <3>1. ASSUME NEW j \in DOMAIN heard, NEW k \in DOMAIN heard, heard[j] = heard[k] PROVE j = k
      BY <2>5, <2>6, <3>1
    <3>2. QED BY <3>1 DEF IsInjective
  <2>8. QED BY <2>2, <2>3, <2>7 DEF EventOK
<1>2. EventsIInv => NoneMissed
  BY <1>1
<1>3. QED BY <1>2, EventsInductive, PTL

\* Who was unbound does not hear of an event that begins later; and of two
\* events only one reaches who was bound with `one', unless the second was
\* triggered while the first was going on.
THEOREM UnboundIsOver == Spec => []NotAfterOff
<1>1. ASSUME EventsIInv PROVE NotAfterOff
  <2>1. StackOK(stack, events, bound) /\ events \in Seq(Event)
    BY <1>1 DEF EventsIInv, StackOK
  <2>2. \A n \in DOMAIN events : EventOK(events[n], bound)
    BY <2>1 DEF StackOK
  <2>3. ASSUME NEW n \in DOMAIN events PROVE events[n].gone \cap ToSet(events[n].heard) = {}
    BY <2>2 DEF EventOK
  <2>4. ASSUME NEW n \in DOMAIN events, NEW m \in 1 .. n - 1,
               NEW h \in ToSet(events[m].heard) \cap ToSet(events[n].heard), bound[h].one
        PROVE  m \in events[n].during
    <3>1. SUFFICES ASSUME m \notin events[n].during PROVE FALSE
      OBVIOUS
    <3>2. h \in events[n].gone
      BY <2>1, <2>4, <3>1 DEF StackOK, DuringOK
    <3>3. QED BY <2>3, <3>2
  <2>5. QED BY <2>3, <2>4 DEF NotAfterOff
<1>2. EventsIInv => NotAfterOff
  BY <1>1
<1>3. QED BY <1>2, EventsInductive, PTL

\* An event reaches the elements from the inside out; at one element delegated
\* handlers hear of it first, those further in before the others, and otherwise
\* in the order they were bound in.
THEOREM HeardInsideOut == Spec => []HeardInOrder
<1>1. ASSUME EventsIInv PROVE HeardInOrder
  <2>1. SUFFICES ASSUME NEW n \in DOMAIN events,
                        NEW j \in DOMAIN events[n].heard, NEW k \in DOMAIN events[n].heard, j < k
                 PROVE  LET a == bound[events[n].heard[j]]
                            b == bound[events[n].heard[k]]
                        IN  /\ a.elem <= b.elem
                            /\ a.elem = b.elem =>
                                  \/ a.sel = b.sel /\ events[n].heard[j] < events[n].heard[k]
                                  \/ a.sel # 0 /\ (b.sel = 0 \/ a.sel < b.sel)
    BY DEF HeardInOrder
  <2>2. EventOK(events[n], bound) /\ BindingsOK(bound)
    BY <1>1 DEF EventsIInv, HandlersOK, StackOK
  <2>3. PICK h : h = events[n].heard[j]
    OBVIOUS
  <2>4. PICK g : g = events[n].heard[k]
    OBVIOUS
  <2>5. h \in DOMAIN bound /\ g \in DOMAIN bound /\ Precedes(h, g, bound)
    BY <2>1, <2>2, <2>3, <2>4, InToSet DEF EventOK
  <2>6. /\ bound[h].elem <= bound[g].elem
        /\ bound[h].elem = bound[g].elem =>
              \/ bound[h].sel = bound[g].sel /\ h < g
              \/ bound[h].sel # 0 /\ (bound[g].sel = 0 \/ bound[h].sel < bound[g].sel)
    BY <2>2, <2>5, PrecedesFacts
  <2>7. QED BY <2>3, <2>4, <2>6
<1>2. EventsIInv => HeardInOrder
  BY <1>1
<1>3. QED BY <1>2, EventsInductive, PTL
=============================================================================
