----------------------------- MODULE ConsoleProofs -----------------------------
(***************************************************************************)
(* Proofs about the console: of its two views that keep state between a    *)
(* request and its answer, and of the panel whose slides jQuery queues.    *)
(*                                                                         *)
(* Executions: several presses of rerun share currentExecCheckboxID.  Since*)
(* checkboxes are only unchecked, the first one that is checked stays the  *)
(* current one until it is unchecked, whichever press got there, and the   *)
(* calls for it that are on their way are all it was rerun by.             *)
(*                                                                         *)
(* Data storage: a call that is made while no other of its key is going on *)
(* is the only one of its key until it is answered; how far it is tells    *)
(* how the documents of the key relate to the row of it that a page shows. *)
(*                                                                         *)
(* Panel: one slide is on at a time, behind the sentinel, and those that   *)
(* are queued lead from it to what was asked last.  Nothing the views do   *)
(* depends on the panel, so its part is about jQuery's effects alone.      *)
(***************************************************************************)
EXTENDS Console, Effects, FilterProofs, FiniteSetTheorems, SequenceTheorems, TLAPS

-----------------------------------------------------------------------------
(* The invariant of the executions view.                                   *)

\* With one press there is one chain: the execution at which it is has a call on
\* its way or an answer that waits, and a failure has ended it.
ChainInv ==
    /\ RerunsTypeOK
    /\ presses = 0 => /\ current = 0 /\ calls = <<>> /\ thens = <<>> /\ ~broken
                      /\ results = [e \in Execs |-> <<>>]
    /\ presses = 1 =>
          /\ \A e \in Execs : \A k \in DOMAIN results[e] : results[e][k] = e
          /\ Len(calls) + Len(thens) <= 1
          /\ calls # <<>> => current # 0 /\ calls[1] = current /\ ~broken
          /\ thens # <<>> => /\ current # 0 /\ thens[1].exec = current
                             /\ broken => thens[1].status # "ok"

\* No box was clicked but those that were checked at the first press.
OnlyChecked == presses > 0 /\ clicks = Cardinality(pressed)

\* Boxes are checked by clicks; a press has one call or answer on its way at most.
ClicksInv ==
    /\ IsFiniteSet(checked) /\ IsFiniteSet(pressed)
    /\ presses = 0 =>
          /\ pressed = {} /\ Cardinality(checked) <= clicks
          /\ \A e \in Execs : reruns[e] = 0
    /\ presses > 0 => Cardinality(pressed) <= clicks
    /\ Len(calls) + Len(thens) <= presses

\* No answer that waits is a failure, and the rerun goes on.
GoesOn ==
    /\ \A k \in DOMAIN thens : thens[k].status = "ok"
    /\ checked # {} => calls # <<>> \/ thens # <<>>

\* The boxes are rerun from the first that is checked, which is the current one
\* from its first call to the answer that unchecks it.
FirstIsCurrent ==
    /\ checked \subseteq pressed
    /\ current \in checked => current = Min(checked) /\ reruns[current] <= Len(calls)
    /\ current = 0 => checked = {}
    /\ current # 0 => reruns[current] > 0
    /\ \A e \in checked \ {current} : reruns[e] = 0
    /\ \A e \in pressed \ checked : reruns[e] > 0
    /\ \A e \in Execs : reruns[e] <= presses
    /\ ~broken => GoesOn

RerunInv == ClicksInv /\ (OnlyChecked => FirstIsCurrent)

-----------------------------------------------------------------------------
(* The invariant of the data storage view.                                 *)

\* The variables have their types, and what was added is in the form.
StorageTypes ==
    /\ StorageTypeOK
    /\ elem \in [Pages -> [row : Nat, oldValue : Values]]
    /\ \A q \in requests : q.new => entry[q.page] \in Entry

\* Two upserts of an entry that have both found nothing, or one that has while
\* there is a document now, have raced.
UpsertsInv ==
    /\ UniqueUnlessRaced
    /\ \A q \in requests : q.step = "missed" =>
          /\ docs[q.name] # <<>> => q.name \in raced
          /\ \A o \in requests \ {q} : o.step = "missed" /\ o.name = q.name => q.name \in raced

RowsOf(p, k) == {r \in DOMAIN rows[p] : rows[p][r].name.key = k}
Calls(k) == {q \in requests : q.name.key = k}
Called(k) == {n \in Names : n.key = k}

\* Only one page has posted the key, one call after the other, and was told of no
\* failure.
Orderly(p, k) == k \notin mixed \cup told /\ writers[k] \subseteq {p}

\* The page has one row of the key at most.
OneRow(p, k) == \A r1, r2 \in RowsOf(p, k) : r1 = r2

\* A call that was made when no other of its key was going on is the only one, and
\* what it adds is in the form.
OneByOne ==
    \A k \in Keys :
        /\ \A q \in Calls(k) :
              /\ q.page \in writers[k]
              /\ q.new => entry[q.page].name.key \in mixed \cup {k}
        /\ k \notin mixed =>
              /\ \A q, o \in Calls(k) : q = o
              /\ \A q \in Calls(k) :
                    ~q.lost /\ (q.new => entry[q.page] = [name |-> q.name, text |-> q.value])

\* The documents of an entry whose row shows this value.
Content(t) == IF t = Empty THEN <<>> ELSE <<t>>

\* The page shows what is stored under the key.
Shows(p, k) ==
    \A n \in Called(k) :
        IF \E r \in RowsOf(p, k) : rows[p][r].name = n
        THEN \A r \in RowsOf(p, k) : docs[n] = Content(rows[p][r].text)
        ELSE docs[n] = <<>>

\* An edit, or an undo, is on its way: the row shows its value already.
EditUnderway(p, q) ==
    \E r \in RowsOf(p, q.name.key) :
        /\ rows[p][r].text = q.value
        /\ q.name = Plain(q.name.key)
        /\ Len(docs[rows[p][r].name]) <= 1
        /\ \A n \in Called(q.name.key) : n # rows[p][r].name => docs[n] = <<>>
        /\ q.step = "saved" => Shows(p, q.name.key)

\* An added entry is on its way: it has no row yet.
AddUnderway(q) ==
    \A n \in Called(q.name.key) :
        /\ n # q.name \/ q.step \in {"sent", "missed"} => docs[n] = <<>>
        /\ n = q.name /\ q.step = "saved" => q.value # Empty /\ docs[n] = <<q.value>>

\* How far the call of a key is, if there is one, and what a page shows of it.
ShownAt(p, k) ==
    Orderly(p, k) /\ OneRow(p, k) =>
        /\ Calls(k) = {} => Shows(p, k)
        /\ \A q \in Calls(k) :
              IF q.new THEN RowsOf(p, k) = {} => AddUnderway(q) ELSE EditUnderway(p, q)

ShownInv == \A p \in Pages, k \in Keys : ShownAt(p, k)

-----------------------------------------------------------------------------
(* Sets and sequences.                                                     *)

\* Numbers have a least one.
LEMMA MinOf ==
    ASSUME NEW S, S \subseteq Nat, S # {}
    PROVE  Min(S) \in S /\ \A y \in S : Min(S) <= y
<1>. DEFINE R == OpToRel(<, Nat)
<1>1. IsWellFoundedOn(R, Nat)
  BY NatLessThanWellFounded
<1>2. \A x, y \in Nat : <<y, x>> \in R <=> y < x
  BY DEF OpToRel
<1>. HIDE DEF R
<1>3. PICK x \in S : \A y \in S : <<y, x>> \notin R
  BY <1>1, WFMin
<1>4. ASSUME NEW y \in S PROVE x <= y
  <2>1. x \in Nat /\ y \in Nat
    OBVIOUS
  <2>2. ~(y < x)
    BY <2>1, <1>2, <1>3
  <2>. QED  BY <2>1, <2>2
<1>. QED  BY <1>3, <1>4 DEF Min

\* A sequence without one of its elements.
LEMMA RemoveOne ==
    ASSUME NEW S, NEW q \in Seq(S), NEW k \in 1 .. Len(q)
    PROVE  /\ SubSeq(q, 1, k - 1) \o SubSeq(q, k + 1, Len(q)) \in Seq(S)
           /\ Len(SubSeq(q, 1, k - 1) \o SubSeq(q, k + 1, Len(q))) = Len(q) - 1
<1>. DEFINE a == SubSeq(q, 1, k - 1)
            b == SubSeq(q, k + 1, Len(q))
<1>1. Len(q) \in Nat /\ k \in Nat /\ 1 <= k /\ k <= Len(q)
      /\ \A i \in 1 .. Len(q) : q[i] \in S
  OBVIOUS
<1>2. a \in Seq(S) /\ Len(a) = k - 1
  <2>1. a = [i \in 1 .. k - 1 |-> q[i]]
    BY <1>1
  <2>2. \A i \in 1 .. k - 1 : q[i] \in S
    BY <1>1
  <2>3. k - 1 \in Nat
    BY <1>1
  <2>. HIDE DEF a
  <2>. QED  BY <2>1, <2>2, <2>3
<1>3. b \in Seq(S) /\ Len(b) = Len(q) - k
  <2>. DEFINE n == Len(q) - k
  <2>1. b = [i \in 1 .. n |-> q[i + k]]
    BY <1>1
  <2>2. \A i \in 1 .. n : q[i + k] \in S
    BY <1>1
  <2>3. n \in Nat
    BY <1>1
  <2>. HIDE DEF b, n
  <2>4. b \in Seq(S) /\ Len(b) = n
    BY <2>1, <2>2, <2>3
  <2>. QED  BY <2>4 DEF n
<1>. HIDE DEF a, b
<1>4. a \o b \in Seq(S) /\ Len(a \o b) = Len(a) + Len(b)
  BY <1>2, <1>3
<1>5. Len(a \o b) = Len(q) - 1
  BY <1>1, <1>2, <1>3, <1>4
<1>. QED  BY <1>4, <1>5 DEF a, b

\* The first element of a sequence, and the others.
LEMMA HeadTail ==
    ASSUME NEW S, NEW q \in Seq(S), q # <<>>
    PROVE  /\ Head(q) \in S /\ Head(q) = q[1] /\ Len(q) \in Nat \ {0}
           /\ Tail(q) \in Seq(S) /\ Len(Tail(q)) = Len(q) - 1
           /\ \A i \in 1 .. Len(Tail(q)) : Tail(q)[i] = q[i + 1] /\ i + 1 \in 1 .. Len(q)
  OBVIOUS

-----------------------------------------------------------------------------
(* The executions view.                                                    *)

\* Initially nothing is checked or rerun.
LEMMA ChainInit == RerunsInit => ChainInv
<1>. SUFFICES ASSUME RerunsInit PROVE ChainInv
  OBVIOUS
<1>1. <<>> \in Seq(Execs) /\ <<>> \in Seq([exec : Execs, status : Statuses])
  OBVIOUS
<1>2. RerunsTypeOK
  <2>1. results \in [Execs -> Seq(Execs)] /\ reruns \in [Execs -> Nat]
    BY <1>1 DEF RerunsInit
  <2>2. calls \in Seq(Execs) /\ thens \in Seq([exec : Execs, status : Statuses])
    BY <1>1 DEF RerunsInit
  <2>3. presses \in 0 .. MaxPresses /\ clicks \in 0 .. MaxClicks
    BY RerunsAssumption DEF RerunsInit
  <2>4. checked \subseteq Execs /\ pressed \subseteq Execs /\ broken \in BOOLEAN
        /\ current \in Execs \cup {0}
    BY DEF RerunsInit
  <2>. QED  BY <2>1, <2>2, <2>3, <2>4 DEF RerunsTypeOK
<1>. QED  BY <1>2 DEF RerunsInit, ChainInv

\* The executions are numbers.
LEMMA ExecsNat == Execs \subseteq Nat \ {0} /\ 0 \notin Execs
  BY RerunsAssumption DEF Execs

\* The first of the boxes that are checked is rerun, if there is one.
LEMMA RerunMoves ==
    ASSUME RerunsTypeOK, Rerun(checked)
    PROVE  /\ checked = {} => current' = 0 /\ reruns' = reruns
           /\ checked # {} =>
                 /\ current' = Min(checked) /\ current' \in checked /\ current' \in Execs
                 /\ \A e \in checked : Min(checked) <= e
                 /\ reruns'[current'] = reruns[current'] + 1
                 /\ \A e \in Execs \ {current'} : reruns'[e] = reruns[e]
           /\ current' \in Execs \cup {0} /\ reruns' \in [Execs -> Nat]
<1>1. checked \subseteq Nat
  BY ExecsNat DEF RerunsTypeOK
<1>2. CASE checked = {}
  BY <1>2 DEF Rerun, RerunsTypeOK
<1>3. CASE checked # {}
  <2>1. Min(checked) \in checked /\ \A e \in checked : Min(checked) <= e
    BY <1>1, <1>3, MinOf
  <2>2. current' = Min(checked) /\ reruns' = [reruns EXCEPT ![Min(checked)] = @ + 1]
    BY <1>3 DEF Rerun
  <2>3. reruns' \in [Execs -> Nat] /\ Min(checked) \in Execs
    BY <2>1, <2>2 DEF RerunsTypeOK
  <2>. QED  BY <2>1, <2>2, <2>3, <1>3 DEF RerunsTypeOK
<1>. QED  BY <1>2, <1>3

\* Its call is sent after the others.
LEMMA SentMoves ==
    ASSUME RerunsTypeOK, Rerun(checked), calls' = Sent(checked, calls)
    PROVE  /\ calls' \in Seq(Execs)
           /\ checked = {} => calls' = calls
           /\ checked # {} => /\ calls' = Append(calls, current')
                              /\ Len(calls') = Len(calls) + 1 /\ calls' # <<>>
                              /\ calls = <<>> => calls'[1] = current'
<1>1. CASE checked = {}
  BY <1>1 DEF Sent, RerunsTypeOK
<1>2. CASE checked # {}
  <2>1. calls' = Append(calls, current') /\ current' \in Execs /\ calls \in Seq(Execs)
    BY <1>2, RerunMoves DEF Sent, RerunsTypeOK
  <2>. QED  BY <2>1, <1>2
<1>. QED  BY <1>1, <1>2

\* The steps of the view keep the types.
LEMMA RerunsTypeKept == RerunsTypeOK /\ [RerunsNext]_rerunVars => RerunsTypeOK'
<1>. SUFFICES ASSUME RerunsTypeOK, [RerunsNext]_rerunVars PROVE RerunsTypeOK'
  OBVIOUS
<1>1. CASE UNCHANGED rerunVars
  BY <1>1 DEF rerunVars, RerunsTypeOK
<1>2. ASSUME NEW e \in Execs, Click(e) PROVE RerunsTypeOK'
  BY <1>2, RerunsAssumption DEF Click, RerunsTypeOK
<1>3. CASE Press
  <2>1. current' \in Execs \cup {0} /\ reruns' \in [Execs -> Nat] /\ calls' \in Seq(Execs)
    BY <1>3, RerunMoves, SentMoves DEF Press
  <2>. QED  BY <1>3, <2>1, RerunsAssumption DEF Press, RerunsTypeOK
<1>4. ASSUME NEW k \in DOMAIN calls, Answered(k) PROVE RerunsTypeOK'
  <2>1. k \in 1 .. Len(calls) /\ calls[k] \in Execs /\ calls \in Seq(Execs)
    BY DEF RerunsTypeOK
  <2>2. calls' \in Seq(Execs)
    BY <1>4, <2>1, RemoveOne DEF Answered
  <2>3. thens' \in Seq([exec : Execs, status : Statuses]) /\ checked' \subseteq Execs
    <3>1. CASE current = 0
      BY <3>1, <1>4 DEF Answered, RerunsTypeOK
    <3>2. CASE current # 0
      <4>1. PICK status \in Statuses :
               thens' = Append(thens, [exec |-> calls[k], status |-> status])
        BY <3>2, <1>4 DEF Answered
      <4>2. [exec |-> calls[k], status |-> status] \in [exec : Execs, status : Statuses]
        BY <2>1
      <4>3. checked' = checked \ {current}
        BY <3>2, <1>4 DEF Answered, Unchecked
      <4>. QED  BY <4>1, <4>2, <4>3 DEF RerunsTypeOK
    <3>. QED  BY <3>1, <3>2
  <2>4. broken' \in BOOLEAN
    BY <1>4 DEF Answered, RerunsTypeOK
  <2>. QED  BY <1>4, <2>2, <2>3, <2>4 DEF Answered, RerunsTypeOK
<1>5. CASE Then
  <2>1. thens \in Seq([exec : Execs, status : Statuses]) /\ thens # <<>>
    BY <1>5 DEF Then, RerunsTypeOK
  <2>2. thens' \in Seq([exec : Execs, status : Statuses]) /\ Head(thens).exec \in Execs
    <3>. DEFINE T == [exec : Execs, status : Statuses]
    <3>1. Head(thens) \in T /\ Tail(thens) \in Seq(T)
      BY <2>1, HeadTail
    <3>. QED  BY <3>1, <1>5 DEF Then
  <2>3. current' \in Execs \cup {0} /\ reruns' \in [Execs -> Nat] /\ calls' \in Seq(Execs)
    <3>1. CASE Continues(Head(thens).status)
      BY <3>1, <1>5, RerunMoves, SentMoves DEF Then
    <3>2. CASE ~Continues(Head(thens).status)
      BY <3>2, <1>5 DEF Then, RerunsTypeOK
    <3>. QED  BY <3>1, <3>2
  <2>4. results' \in [Execs -> Seq(Execs)]
    <3>1. CASE results' = results
      BY <3>1 DEF RerunsTypeOK
    <3>2. CASE current # 0 /\ results' = [results EXCEPT ![current] = Append(@, Head(thens).exec)]
      <4>1. current \in Execs
        BY <3>2 DEF RerunsTypeOK
      <4>2. results[current] \in Seq(Execs)
        BY <4>1 DEF RerunsTypeOK
      <4>3. Append(results[current], Head(thens).exec) \in Seq(Execs)
        BY <4>2, <2>2
      <4>. QED  BY <3>2, <4>1, <4>3 DEF RerunsTypeOK
    <3>. QED  BY <3>1, <3>2, <1>5 DEF Then
  <2>. QED  BY <1>5, <2>2, <2>3, <2>4 DEF Then, RerunsTypeOK
<1>. QED  BY <1>1, <1>2, <1>3, <1>4, <1>5 DEF RerunsNext

\* Every step keeps one press to one chain.
LEMMA ChainNext == ChainInv /\ [RerunsNext]_rerunVars => ChainInv'
<1>. SUFFICES ASSUME ChainInv, [RerunsNext]_rerunVars PROVE ChainInv'
  OBVIOUS
<1>. DEFINE T == [exec : Execs, status : Statuses]
<1>0. /\ RerunsTypeOK /\ RerunsTypeOK'
      /\ calls \in Seq(Execs) /\ thens \in Seq(T) /\ presses \in Nat
      /\ Len(calls) \in Nat /\ Len(thens) \in Nat
  <2>1. RerunsTypeOK /\ RerunsTypeOK'
    BY RerunsTypeKept DEF ChainInv
  <2>2. calls \in Seq(Execs) /\ thens \in Seq(T) /\ presses \in Nat
    BY <2>1, RerunsAssumption DEF RerunsTypeOK
  <2>. QED  BY <2>1, <2>2
<1>. HIDE DEF T
<1>1. CASE UNCHANGED rerunVars
  BY <1>1, <1>0 DEF rerunVars, ChainInv
<1>2. ASSUME NEW e \in Execs, Click(e) PROVE ChainInv'
  BY <1>2, <1>0 DEF Click, ChainInv
<1>3. CASE Press
  <2>1. presses' = presses + 1 /\ UNCHANGED <<thens, results, broken>> /\ Rerun(checked)
        /\ calls' = Sent(checked, calls)
    BY <1>3 DEF Press
  <2>2. presses' # 0
    BY <2>1, <1>0
  <2>3. CASE presses' = 1
    <3>1. presses = 0
      BY <2>3, <2>1, <1>0
    <3>2. /\ current = 0 /\ calls = <<>> /\ thens = <<>> /\ ~broken
          /\ results = [e \in Execs |-> <<>>]
      BY <3>1 DEF ChainInv
    <3>3. \A e \in Execs : \A k \in DOMAIN results'[e] : results'[e][k] = e
      <4>1. DOMAIN <<>> = {}
        OBVIOUS
      <4>. QED  BY <2>1, <3>2, <4>1
    <3>4. Len(calls') + Len(thens') <= 1 /\ (calls' # <<>> => current' # 0 /\ calls'[1] = current')
      <4>1. Len(calls) = 0 /\ Len(thens') = 0
        BY <2>1, <3>2
      <4>2. CASE checked = {}
        <5>1. calls' = calls
          BY <4>2, <2>1, <1>0, SentMoves
        <5>. QED  BY <5>1, <4>1, <3>2
      <4>3. CASE checked # {}
        <5>1. calls'[1] = current' /\ Len(calls') = 1 /\ current' # 0
          BY <4>1, <4>3, <2>1, <3>2, <1>0, SentMoves, RerunMoves, ExecsNat
        <5>. QED  BY <5>1, <4>1
      <4>. QED  BY <4>2, <4>3
    <3>. QED  BY <2>1, <2>2, <2>3, <3>2, <3>3, <3>4, <1>0 DEF ChainInv
  <2>. QED  BY <2>2, <2>3, <1>0 DEF ChainInv
<1>4. ASSUME NEW k \in DOMAIN calls, Answered(k) PROVE ChainInv'
  <2>1. k \in 1 .. Len(calls) /\ calls # <<>>
    BY <1>0
  <2>2. presses # 0 /\ presses' = presses /\ current' = current /\ results' = results
    BY <1>4, <2>1 DEF ChainInv, Answered
  <2>3. CASE presses = 1
    <3>1. /\ Len(calls) + Len(thens) <= 1 /\ current # 0 /\ calls[1] = current /\ ~broken
          /\ \A e \in Execs : \A i \in DOMAIN results[e] : results[e][i] = e
      BY <2>1, <2>3 DEF ChainInv
    <3>2. Len(calls) = 1 /\ Len(thens) = 0 /\ k = 1
      <4>1. Len(calls) >= 1 /\ k <= Len(calls) /\ k >= 1 /\ k \in Nat
        BY <2>1, <1>0
      <4>2. Len(calls) + Len(thens) <= 1 /\ Len(calls) \in Nat /\ Len(thens) \in Nat
        BY <3>1, <1>0
      <4>. QED  BY <4>1, <4>2
    <3>3. calls' \in Seq(Execs) /\ Len(calls') = 0
      BY <1>4, <1>0, <3>2, RemoveOne DEF Answered
    <3>4. PICK status \in Statuses :
             /\ broken' = (broken \/ status # "ok")
             /\ thens' = Append(thens, [exec |-> calls[k], status |-> status])
      BY <1>4, <3>1 DEF Answered
    <3>5. Len(thens') = 1 /\ thens'[1] = [exec |-> calls[k], status |-> status]
      BY <3>2, <3>4, <1>0
    <3>6. calls' = <<>> /\ Len(calls') + Len(thens') <= 1
      BY <3>3, <3>5
    <3>7. thens'[1].exec = current /\ (broken' => thens'[1].status # "ok")
      <4>1. calls[k] = current /\ (broken' => status # "ok")
        BY <3>1, <3>2, <3>4
      <4>2. thens'[1].exec = calls[k] /\ thens'[1].status = status
        BY <3>5
      <4>. QED  BY <4>1, <4>2
    <3>. QED  BY <2>2, <2>3, <3>1, <3>6, <3>7, <1>0 DEF ChainInv
  <2>. QED  BY <2>2, <2>3, <1>0 DEF ChainInv
<1>5. CASE Then
  <2>1. presses # 0 /\ presses' = presses /\ broken' = broken /\ thens # <<>> /\ thens' = Tail(thens)
    BY <1>5 DEF ChainInv, Then
  <2>2. CASE presses = 1
    <3>1. /\ Len(calls) + Len(thens) <= 1 /\ current # 0 /\ thens[1].exec = current
          /\ broken => thens[1].status # "ok"
          /\ \A e \in Execs : \A i \in DOMAIN results[e] : results[e][i] = e
      BY <2>1, <2>2 DEF ChainInv
    <3>2. Head(thens) = thens[1] /\ Len(thens) = 1 /\ Len(calls) = 0 /\ Len(thens') = 0
          /\ thens' \in Seq(T)
      <4>1. /\ Head(thens) = thens[1] /\ Len(thens) \in Nat \ {0}
            /\ Tail(thens) \in Seq(T) /\ Len(Tail(thens)) = Len(thens) - 1
        BY <2>1, <1>0, HeadTail
      <4>2. Len(thens) = 1 /\ Len(calls) = 0
        BY <4>1, <3>1, <1>0
      <4>. QED  BY <4>1, <4>2, <2>1
    <3>3. thens' = <<>> /\ calls = <<>>
      BY <3>2, <1>0
    <3>4. \A e \in Execs : \A i \in DOMAIN results'[e] : results'[e][i] = e
      <4>1. CASE results' = results
        BY <4>1, <3>1
      <4>2. CASE results' = [results EXCEPT ![current] = Append(@, current)]
        <5>1. current \in Execs /\ results[current] \in Seq(Execs) /\ results \in [Execs -> Seq(Execs)]
          BY <3>1, <1>0 DEF RerunsTypeOK
        <5>2. \A i \in DOMAIN Append(results[current], current) :
                 Append(results[current], current)[i] = current
          BY <5>1, <3>1
        <5>. QED  BY <4>2, <5>1, <5>2, <3>1
      <4>. QED  BY <4>1, <4>2, <1>5, <3>1, <3>2 DEF Then
    <3>5. CASE Continues(Head(thens).status)
      <4>1. Rerun(checked) /\ calls' = Sent(checked, calls) /\ ~broken
        BY <3>5, <3>1, <3>2, <1>5 DEF Then, Continues
      <4>2. Len(calls') + Len(thens') <= 1 /\ (calls' # <<>> => current' # 0 /\ calls'[1] = current')
        <5>1. CASE checked = {}
          BY <5>1, <4>1, <3>2, <3>3, <1>0, SentMoves
        <5>2. CASE checked # {}
          <6>1. calls'[1] = current' /\ Len(calls') = 1 /\ current' # 0
            BY <5>2, <4>1, <3>2, <3>3, <1>0, SentMoves, RerunMoves, ExecsNat
          <6>. QED  BY <6>1, <3>2
        <5>. QED  BY <5>1, <5>2
      <4>. QED  BY <4>1, <4>2, <3>3, <3>4, <2>1, <2>2, <1>0 DEF ChainInv
    <3>6. CASE ~Continues(Head(thens).status)
      <4>1. calls' = calls /\ Len(calls') + Len(thens') <= 1
        BY <3>6, <3>2, <1>5 DEF Then
      <4>. QED  BY <4>1, <3>3, <3>4, <2>1, <2>2, <1>0 DEF ChainInv
    <3>. QED  BY <3>5, <3>6
  <2>. QED  BY <2>1, <2>2, <1>0 DEF ChainInv
<1>. QED  BY <1>1, <1>2, <1>3, <1>4, <1>5 DEF RerunsNext

\* With one press no row shows another execution's result, and so on.
LEMMA ChainIsOne == ChainInv => OneChain
  BY DEF ChainInv, OneChain

\* Initially nothing was clicked.
LEMMA RerunInit == RerunsInit => RerunInv
<1>. SUFFICES ASSUME RerunsInit PROVE RerunInv
  OBVIOUS
<1>1. IsFiniteSet(checked) /\ IsFiniteSet(pressed) /\ Cardinality(checked) = 0
  BY FS_EmptySet DEF RerunsInit
<1>2. Len(calls) = 0 /\ Len(thens) = 0 /\ presses = 0 /\ clicks = 0
  BY DEF RerunsInit
<1>. QED  BY <1>1, <1>2 DEF RerunsInit, RerunInv, ClicksInv, OnlyChecked

\* What is on its way has its length.
LEMMA RerunsSorts ==
    ASSUME RerunsTypeOK
    PROVE  /\ calls \in Seq(Execs) /\ Len(calls) \in Nat /\ Len(thens) \in Nat
           /\ thens \in Seq([exec : Execs, status : Statuses])
           /\ presses \in Nat /\ clicks \in Nat
           /\ checked \subseteq Execs /\ pressed \subseteq Execs
           /\ current \in Execs \cup {0} /\ broken \in BOOLEAN
           /\ reruns \in [Execs -> Nat]
  BY RerunsAssumption DEF RerunsTypeOK

\* The first one is rerun: again, if it was the current one already.
LEMMA RerunKeepsFirst ==
    ASSUME RerunsTypeOK, RerunsTypeOK',
           Rerun(checked), calls' = Sent(checked, calls), checked' = checked,
           checked \subseteq pressed',
           current \in checked => current = Min(checked) /\ reruns[current] <= Len(calls),
           \A e \in checked \ {current} : reruns[e] = 0,
           \A e \in pressed' \ checked : reruns[e] > 0,
           \A e \in Execs : reruns[e] <= presses',
           Len(calls') + Len(thens') <= presses',
           ~broken' => \A k \in DOMAIN thens' : thens'[k].status = "ok"
    PROVE  FirstIsCurrent'
<1>1. CASE checked = {}
  <2>1. current' = 0 /\ reruns' = reruns /\ checked' = {}
    BY <1>1, RerunMoves
  <2>2. \A e \in pressed' \ checked' : reruns'[e] > 0
    BY <2>1, <1>1
  <2>. QED  BY <2>1, <2>2 DEF FirstIsCurrent, GoesOn
<1>2. CASE checked # {}
  <2>. DEFINE m == Min(checked)
  <2>1. /\ current' = m /\ m \in checked /\ m \in Execs /\ m # 0
        /\ reruns'[m] = reruns[m] + 1
        /\ \A e \in Execs \ {m} : reruns'[e] = reruns[e]
    BY <1>2, RerunMoves, ExecsNat
  <2>2. Len(calls') = Len(calls) + 1 /\ calls' # <<>>
    BY <1>2, SentMoves
  <2>. HIDE DEF m
  <2>3. reruns[m] \in Nat /\ Len(calls) \in Nat /\ Len(thens') \in Nat /\ presses' \in Nat
        /\ Len(calls') \in Nat
    <3>1. reruns[m] \in Nat /\ Len(calls) \in Nat
      BY <2>1, RerunsSorts
    <3>2. Len(thens') \in Nat /\ Len(calls') \in Nat
      BY SMTT(20) DEF RerunsTypeOK
    <3>3. presses' \in Nat
      BY RerunsAssumption DEF RerunsTypeOK
    <3>. QED  BY <3>1, <3>2, <3>3
  <2>4. reruns[m] <= Len(calls)
    <3>1. CASE m = current
      BY <3>1, <2>1
    <3>2. CASE m # current
      <4>1. reruns[m] = 0
        BY <3>2, <2>1
      <4>. QED  BY <4>1, <2>3
    <3>. QED  BY <3>1, <3>2
  <2>5. reruns'[m] <= Len(calls') /\ reruns'[m] <= presses' /\ reruns'[m] > 0
    BY <2>1, <2>2, <2>3, <2>4
  <2>6. \A e \in checked \ {m} : reruns'[e] = 0
    <3>. SUFFICES ASSUME NEW e \in checked \ {m} PROVE reruns'[e] = 0
      OBVIOUS
    <3>1. e # current
      BY DEF m
    <3>. QED  BY <3>1, <2>1, RerunsSorts
  <2>7. \A e \in pressed' \ checked : reruns'[e] > 0
    BY <2>1 DEF RerunsTypeOK
  <2>8. \A e \in Execs : reruns'[e] <= presses'
    BY <2>1, <2>5
  <2>9. m = Min(checked')
    BY DEF m
  <2>. QED  BY <2>1, <2>2, <2>5, <2>6, <2>7, <2>8, <2>9 DEF FirstIsCurrent, GoesOn
<1>. QED  BY <1>1, <1>2

\* How many calls and answers are on their way.
LEMMA ClicksNext == ChainInv /\ RerunInv /\ [RerunsNext]_rerunVars => ClicksInv'
<1>. SUFFICES ASSUME ChainInv, RerunInv, [RerunsNext]_rerunVars PROVE ClicksInv'
  OBVIOUS
<1>0. RerunsTypeOK /\ RerunsTypeOK'
  BY RerunsTypeKept DEF ChainInv
<1>1. CASE UNCHANGED rerunVars
  BY <1>1 DEF rerunVars, RerunInv, ClicksInv
<1>2. ASSUME NEW e \in Execs, Click(e) PROVE ClicksInv'
  <2>1. IsFiniteSet(checked) /\ IsFiniteSet(pressed) /\ Cardinality(checked) \in Nat
        /\ Cardinality(pressed) \in Nat /\ clicks \in Nat
    BY <1>0, FS_CardinalityType, RerunsSorts DEF RerunInv, ClicksInv
  <2>2. IsFiniteSet(checked') /\ Cardinality(checked') <= Cardinality(checked) + 1
    <3>1. CASE e \in checked
      <4>1. checked' = checked \ {e}
        BY <3>1, <1>2 DEF Click
      <4>2. IsFiniteSet(checked') /\ Cardinality(checked') = Cardinality(checked) - 1
        BY <4>1, <3>1, <2>1, FS_RemoveElement
      <4>. QED  BY <4>2, <2>1
    <3>2. CASE e \notin checked
      <4>1. checked' = checked \cup {e}
        BY <3>2, <1>2 DEF Click
      <4>2. IsFiniteSet(checked') /\ Cardinality(checked') = Cardinality(checked) + 1
        BY <4>1, <3>2, <2>1, FS_AddElement
      <4>. QED  BY <4>2, <2>1
    <3>. QED  BY <3>1, <3>2
  <2>3. clicks' = clicks + 1 /\ UNCHANGED <<pressed, presses, reruns, calls, thens>>
    BY <1>2 DEF Click
  <2>4. Cardinality(checked') \in Nat
    BY <2>2, FS_CardinalityType
  <2>5. presses = 0 => Cardinality(checked') <= clicks'
    BY <2>1, <2>2, <2>3, <2>4 DEF RerunInv, ClicksInv
  <2>6. presses > 0 => Cardinality(pressed) <= clicks'
    BY <2>1, <2>3 DEF RerunInv, ClicksInv
  <2>. QED  BY <2>1, <2>2, <2>3, <2>5, <2>6 DEF RerunInv, ClicksInv
<1>3. CASE Press
  <2>1. presses' = presses + 1 /\ UNCHANGED <<checked, clicks, thens>> /\ presses \in Nat
        /\ pressed' = IF presses = 0 THEN checked ELSE pressed
    BY <1>0, <1>3, RerunsSorts DEF Press
  <2>2. Len(calls') <= Len(calls) + 1
    <3>1. Len(calls) \in Nat
      BY <1>0, RerunsSorts
    <3>. QED  BY <3>1, <1>0, <1>3, SentMoves DEF Press
  <2>3. IsFiniteSet(pressed') /\ Cardinality(pressed') <= clicks
    BY <2>1 DEF RerunInv, ClicksInv
  <2>4. Len(calls') + Len(thens') <= presses' /\ presses' # 0
    <3>1. Len(calls) + Len(thens) <= presses
      BY DEF RerunInv, ClicksInv
    <3>2. Len(calls) \in Nat /\ Len(thens) \in Nat /\ Len(calls') \in Nat
      BY <1>0, RerunsSorts
    <3>. QED  BY <2>1, <2>2, <3>1, <3>2
  <2>. QED  BY <2>1, <2>3, <2>4 DEF RerunInv, ClicksInv
<1>4. ASSUME NEW k \in DOMAIN calls, Answered(k) PROVE ClicksInv'
  <2>1. k \in 1 .. Len(calls) /\ calls \in Seq(Execs) /\ calls # <<>>
    BY <1>0, RerunsSorts
  <2>2. Len(calls') = Len(calls) - 1
    BY <1>4, <2>1, RemoveOne DEF Answered
  <2>3. presses # 0 /\ UNCHANGED <<presses, pressed, clicks>>
    BY <1>4, <2>1 DEF ChainInv, Answered
  <2>4. checked' \subseteq checked
    BY <1>4 DEF Answered, Unchecked
  <2>5. IsFiniteSet(checked')
    BY <2>4, FS_Subset DEF RerunInv, ClicksInv
  <2>6. Len(thens') <= Len(thens) + 1
    <3>1. Len(thens) \in Nat
      BY <1>0, RerunsSorts
    <3>2. CASE current = 0
      BY <3>1, <3>2, <1>4 DEF Answered
    <3>3. CASE current # 0
      <4>1. PICK status \in Statuses :
               thens' = Append(thens, [exec |-> calls[k], status |-> status])
        BY <3>3, <1>4 DEF Answered
      <4>. QED  BY <4>1, <1>0, RerunsSorts
    <3>. QED  BY <3>2, <3>3
  <2>7. Len(calls') + Len(thens') <= presses'
    <3>1. Len(calls) + Len(thens) <= presses
      BY DEF RerunInv, ClicksInv
    <3>2. Len(calls) \in Nat /\ Len(thens) \in Nat /\ Len(thens') \in Nat /\ presses \in Nat
      BY <1>0, RerunsSorts
    <3>. QED  BY <2>2, <2>3, <2>6, <3>1, <3>2
  <2>. QED  BY <2>3, <2>5, <2>7 DEF RerunInv, ClicksInv
<1>5. CASE Then
  <2>1. presses # 0 /\ UNCHANGED <<presses, pressed, clicks, checked>>
    BY <1>5 DEF ChainInv, Then
  <2>2. Len(calls') <= Len(calls) + 1
    <3>1. Len(calls) \in Nat
      BY <1>0, RerunsSorts
    <3>2. CASE Continues(Head(thens).status)
      BY <3>1, <3>2, <1>0, <1>5, SentMoves DEF Then
    <3>3. CASE ~Continues(Head(thens).status)
      BY <3>1, <3>3, <1>5 DEF Then
    <3>. QED  BY <3>2, <3>3
  <2>3. Len(thens') = Len(thens) - 1
    BY <1>0, <1>5, HeadTail, RerunsSorts DEF Then
  <2>4. Len(calls') + Len(thens') <= presses'
    <3>1. Len(calls) + Len(thens) <= presses
      BY DEF RerunInv, ClicksInv
    <3>2. Len(calls) \in Nat /\ Len(thens) \in Nat /\ Len(calls') \in Nat /\ presses \in Nat
      BY <1>0, RerunsSorts
    <3>. QED  BY <2>1, <2>2, <2>3, <3>1, <3>2
  <2>. QED  BY <2>1, <2>4 DEF RerunInv, ClicksInv
<1>. QED  BY <1>1, <1>2, <1>3, <1>4, <1>5 DEF RerunsNext

\* A press that starts the first chain, or another one.
LEMMA PressKeepsFirst ==
    ASSUME RerunsTypeOK, RerunsTypeOK', ChainInv, RerunInv, ClicksInv', Press, OnlyChecked'
    PROVE  FirstIsCurrent'
<1>1. /\ presses' = presses + 1 /\ presses \in Nat
      /\ pressed' = IF presses = 0 THEN checked ELSE pressed
      /\ Rerun(checked) /\ calls' = Sent(checked, calls)
      /\ UNCHANGED <<checked, thens, clicks, broken>>
      /\ reruns \in [Execs -> Nat]
  BY RerunsSorts DEF Press
<1>2. Len(calls') + Len(thens') <= presses'
  BY DEF ClicksInv
<1>3. CASE presses = 0
  <2>1. /\ current = 0 /\ thens = <<>> /\ \A e \in Execs : reruns[e] = 0
        /\ pressed' = checked
    BY <1>1, <1>3 DEF ChainInv, RerunInv, ClicksInv
  <2>2. checked \subseteq Execs /\ 0 \notin checked
    BY ExecsNat, RerunsSorts
  <2>3. \A k \in DOMAIN thens' : thens'[k].status = "ok"
    BY <1>1, <2>1
  <2>4. \A e \in Execs : reruns[e] <= presses'
    BY <2>1, <1>1
  <2>. QED  BY <1>1, <1>2, <2>1, <2>2, <2>3, <2>4, RerunKeepsFirst
<1>4. CASE presses # 0
  <2>1. OnlyChecked /\ FirstIsCurrent /\ pressed' = pressed
    BY <1>1, <1>4 DEF OnlyChecked, RerunInv
  <2>2. \A e \in Execs : reruns[e] <= presses'
    BY <2>1, <1>1 DEF FirstIsCurrent
  <2>3. ~broken' => \A k \in DOMAIN thens' : thens'[k].status = "ok"
    BY <2>1, <1>1 DEF FirstIsCurrent, GoesOn
  <2>. QED  BY <1>1, <1>2, <2>1, <2>2, <2>3, RerunKeepsFirst DEF FirstIsCurrent
<1>. QED  BY <1>3, <1>4

\* An answer unchecks the current one.
LEMMA AnsweredKeepsFirst ==
    ASSUME RerunsTypeOK, RerunsTypeOK', FirstIsCurrent, NEW k \in DOMAIN calls, Answered(k)
    PROVE  FirstIsCurrent'
<1>1. PICK status \in Statuses :
         /\ broken' = (broken \/ status # "ok")
         /\ IF current = 0 THEN UNCHANGED <<checked, thens>>
            ELSE /\ checked' = checked \ {current}
                 /\ thens' = Append(thens, [exec |-> calls[k], status |-> status])
  BY DEF Answered, Unchecked
<1>2. UNCHANGED <<current, pressed, presses, reruns>>
  BY DEF Answered
<1>3. CASE current = 0
  <2>1. checked = {} /\ checked' = {} /\ thens' = thens
    BY <1>1, <1>3 DEF FirstIsCurrent
  <2>2. ~broken' => ~broken
    BY <1>1
  <2>. QED  BY <1>2, <1>3, <2>1, <2>2 DEF FirstIsCurrent, GoesOn
<1>4. CASE current # 0
  <2>1. checked' = checked \ {current}
    BY <1>1, <1>4
  <2>2. /\ thens' # <<>>
        /\ ~broken' => \A j \in DOMAIN thens' : thens'[j].status = "ok"
    <3>. DEFINE T == [exec : Execs, status : Statuses]
                a == [exec |-> calls[k], status |-> status]
    <3>1. thens \in Seq(T) /\ a \in T
      BY RerunsSorts
    <3>2. thens' = Append(thens, a) /\ a.status = status
      BY <1>1, <1>4
    <3>. HIDE DEF T, a
    <3>3. thens' # <<>> /\ \A j \in DOMAIN thens' : thens'[j] = a \/ \E i \in DOMAIN thens : thens'[j] = thens[i]
      BY <3>1, <3>2
    <3>4. ~broken' => status = "ok" /\ \A i \in DOMAIN thens : thens[i].status = "ok"
      BY <1>1 DEF FirstIsCurrent, GoesOn
    <3>. QED  BY <3>2, <3>3, <3>4
  <2>3. \A e \in pressed' \ checked' : reruns'[e] > 0
    BY <1>2, <1>4, <2>1 DEF FirstIsCurrent
  <2>. QED  BY <1>2, <1>4, <2>1, <2>2, <2>3 DEF FirstIsCurrent, GoesOn
<1>. QED  BY <1>3, <1>4

\* A callback of then reruns the next one, or ends the chain.
LEMMA ThenKeepsFirst ==
    ASSUME RerunsTypeOK, RerunsTypeOK', FirstIsCurrent, ClicksInv', Then
    PROVE  FirstIsCurrent'
<1>. DEFINE T == [exec : Execs, status : Statuses]
<1>1. UNCHANGED <<checked, pressed, presses, broken>> /\ thens # <<>> /\ thens' = Tail(thens)
      /\ thens \in Seq(T)
  BY RerunsSorts DEF Then
<1>. HIDE DEF T
<1>2. Head(thens) = thens[1] /\ 1 \in DOMAIN thens
      /\ \A i \in DOMAIN thens' : thens'[i] = thens[i + 1] /\ i + 1 \in DOMAIN thens
  <2>1. /\ Head(thens) = thens[1] /\ Len(thens) \in Nat \ {0} /\ Tail(thens) \in Seq(T)
        /\ \A i \in 1 .. Len(Tail(thens)) : Tail(thens)[i] = thens[i + 1] /\ i + 1 \in 1 .. Len(thens)
    BY <1>1, HeadTail
  <2>. QED  BY <1>1, <2>1
<1>3. ~broken => \A i \in DOMAIN thens : thens[i].status = "ok"
  BY DEF FirstIsCurrent, GoesOn
<1>4. CASE Continues(Head(thens).status)
  <2>1. Rerun(checked) /\ calls' = Sent(checked, calls)
    BY <1>4 DEF Then
  <2>2. ~broken' => \A i \in DOMAIN thens' : thens'[i].status = "ok"
    BY <1>1, <1>2, <1>3
  <2>3. Len(calls') + Len(thens') <= presses'
    BY DEF ClicksInv
  <2>. QED  BY <1>1, <2>1, <2>2, <2>3, RerunKeepsFirst DEF FirstIsCurrent
<1>5. CASE ~Continues(Head(thens).status)
  <2>1. UNCHANGED <<current, calls, reruns>>
    BY <1>5 DEF Then
  <2>2. broken'
    BY <1>1, <1>2, <1>3, <1>5 DEF Continues
  <2>. QED  BY <1>1, <2>1, <2>2 DEF FirstIsCurrent
<1>. QED  BY <1>4, <1>5

\* Every step keeps it.
LEMMA RerunNext == ChainInv /\ RerunInv /\ [RerunsNext]_rerunVars => RerunInv'
<1>. SUFFICES ASSUME ChainInv, RerunInv, [RerunsNext]_rerunVars PROVE RerunInv'
  OBVIOUS
<1>0. RerunsTypeOK /\ RerunsTypeOK' /\ ClicksInv' /\ ClicksInv
  BY RerunsTypeKept, ClicksNext DEF ChainInv, RerunInv
<1>. SUFFICES ASSUME OnlyChecked' PROVE FirstIsCurrent'
  BY <1>0 DEF RerunInv
<1>1. CASE UNCHANGED rerunVars
  BY <1>1 DEF rerunVars, RerunInv, OnlyChecked, FirstIsCurrent, GoesOn
<1>2. ASSUME NEW e \in Execs, Click(e) PROVE FALSE
  <2>1. clicks' = clicks + 1 /\ UNCHANGED <<presses, pressed>> /\ clicks \in Nat /\ presses \in Nat
    BY <1>0, <1>2, RerunsSorts DEF Click
  <2>2. presses > 0 /\ clicks' = Cardinality(pressed)
    BY <2>1 DEF OnlyChecked
  <2>3. Cardinality(pressed) <= clicks
    BY <2>2 DEF RerunInv, ClicksInv
  <2>4. Cardinality(pressed) \in Nat
    BY <1>0, FS_CardinalityType DEF ClicksInv
  <2>. QED  BY <2>1, <2>2, <2>3, <2>4
<1>3. CASE Press
  BY <1>0, <1>3, PressKeepsFirst
<1>4. ASSUME NEW k \in DOMAIN calls, Answered(k) PROVE FirstIsCurrent'
  <2>1. OnlyChecked
    BY <1>4 DEF Answered, OnlyChecked
  <2>. QED  BY <1>0, <1>4, <2>1, AnsweredKeepsFirst DEF RerunInv
<1>5. CASE Then
  <2>1. OnlyChecked
    BY <1>5 DEF Then, OnlyChecked
  <2>. QED  BY <1>0, <1>5, <2>1, ThenKeepsFirst DEF RerunInv
<1>. QED  BY <1>1, <1>2, <1>3, <1>4, <1>5 DEF RerunsNext

\* Nothing is left to do but for the boxes that were checked.
LEMMA RerunsEach == ChainInv /\ RerunInv => RerunEach
<1>. SUFFICES ASSUME ChainInv, RerunInv, clicks = Cardinality(pressed)
              PROVE  /\ calls = <<>> /\ thens = <<>> /\ ~broken =>
                           \A e \in pressed : e \notin checked /\ reruns[e] > 0
                     /\ \A e \in Execs : reruns[e] <= presses
  BY DEF RerunEach
<1>1. presses \in Nat
  BY RerunsSorts DEF ChainInv
<1>2. CASE presses = 0
  <2>1. pressed = {} /\ \A e \in Execs : reruns[e] = 0
    BY <1>2 DEF RerunInv, ClicksInv
  <2>. QED  BY <2>1, <1>2
<1>3. CASE presses # 0
  <2>1. FirstIsCurrent
    BY <1>1, <1>3 DEF RerunInv, OnlyChecked
  <2>. QED  BY <2>1 DEF FirstIsCurrent, GoesOn
<1>. QED  BY <1>2, <1>3

-----------------------------------------------------------------------------
(* What a page is loaded with.                                             *)

\* There are finitely many names.
LEMMA NamesFinite == IsFiniteSet(Names)
<1>. DEFINE Pairs == Keys \X BOOLEAN
            f == [x \in Pairs |-> [key |-> x[1], padded |-> x[2]]]
            All == [key : Keys, padded : BOOLEAN]
<1>1. IsFiniteSet(BOOLEAN)
  <2>1. BOOLEAN = {TRUE} \cup {FALSE}
    OBVIOUS
  <2>2. IsFiniteSet({TRUE}) /\ IsFiniteSet({FALSE})
    BY FS_Singleton, Zenon
  <2>3. IsFiniteSet({TRUE} \cup {FALSE})
    BY <2>2, FS_Union, Zenon
  <2>. QED  BY <2>1, <2>3, Zenon
<1>2. IsFiniteSet(Pairs)
  BY <1>1, DataStorageAssumption, FS_Product
<1>3. f \in Surjection(Pairs, All)
  <2>1. f \in [Pairs -> All]
    OBVIOUS
  <2>2. ASSUME NEW a \in All PROVE \E x \in Pairs : f[x] = a
    <3>1. <<a.key, a.padded>> \in Pairs /\ f[<<a.key, a.padded>>] = a
      OBVIOUS
    <3>. QED  BY <3>1
  <2>. HIDE DEF f, Pairs, All
  <2>. QED  BY <2>1, <2>2 DEF Surjection
<1>. HIDE DEF f, Pairs
<1>4. IsFiniteSet(All)
  BY <1>2, <1>3, FS_Surjection
<1>5. Names \subseteq All
  BY DEF Names
<1>. QED  BY <1>4, <1>5, FS_Subset

\* There are finitely many documents.
LEMMA DocumentsFinite ==
    ASSUME NEW ds \in [Names -> Seq(Texts)]
    PROVE  IsFiniteSet(Documents(ds))
<1>. DEFINE of(n) == {<<n, k>> : k \in DOMAIN ds[n]}
            All == {of(n) : n \in Names}
<1>1. ASSUME NEW n \in Names PROVE IsFiniteSet(of(n))
  <2>1. Len(ds[n]) \in Nat /\ DOMAIN ds[n] = 1 .. Len(ds[n])
    OBVIOUS
  <2>2. IsFiniteSet(DOMAIN ds[n])
    BY <2>1, FS_Interval
  <2>. DEFINE g == [k \in DOMAIN ds[n] |-> <<n, k>>]
  <2>3. g \in Surjection(DOMAIN ds[n], of(n))
    BY DEF Surjection
  <2>. HIDE DEF g, of
  <2>. QED  BY <2>2, <2>3, FS_Surjection
<1>2. IsFiniteSet(All)
  <2>. DEFINE h == [n \in Names |-> of(n)]
  <2>. HIDE DEF of
  <2>1. h \in Surjection(Names, All)
    BY DEF Surjection
  <2>. HIDE DEF h, All
  <2>. QED  BY <2>1, NamesFinite, FS_Surjection
<1>3. IsFiniteSet(UNION All)
  <2>1. \A S \in All : IsFiniteSet(S)
    BY <1>1
  <2>. HIDE DEF All
  <2>. QED  BY <1>2, <2>1, FS_UNION
<1>. QED  BY <1>3 DEF Documents

\* A page is loaded with one row for every document.
LEMMA ListingOf ==
    ASSUME NEW ds \in [Names -> Seq(Texts)]
    PROVE  /\ Listing(ds) \in Seq(Row)
           /\ \E of \in [1 .. Len(Listing(ds)) -> Documents(ds)] :
                 /\ \A i, j \in 1 .. Len(Listing(ds)) : of[i] = of[j] => i = j
                 /\ \A d \in Documents(ds) : \E i \in 1 .. Len(Listing(ds)) : of[i] = d
                 /\ \A i \in 1 .. Len(Listing(ds)) :
                       /\ Listing(ds)[i].name = of[i][1]
                       /\ Listing(ds)[i].text = ds[of[i][1]][of[i][2]]
<1>. DEFINE D == Documents(ds)
            c == Cardinality(D)
            order == SetToSeq(D)
<1>1. IsFiniteSet(D) /\ c \in Nat /\ ExistsBijection(1 .. c, D)
  BY DocumentsFinite, FS_CardinalityType
<1>2. \E f \in [1 .. c -> D] : IsInjective(f)
  BY <1>1 DEF ExistsBijection, Bijection, Injection
<1>3. order \in [1 .. c -> D] /\ IsInjective(order)
  BY <1>2 DEF SetToSeq
<1>4. \A d \in D : \E i \in 1 .. c : order[i] = d
  <2>1. order \in Injection(1 .. c, D)
    BY <1>3 DEF Injection
  <2>2. Cardinality(1 .. c) = c
    BY <1>1, FS_Interval
  <2>3. order \in Surjection(1 .. c, D)
    <3>. HIDE DEF order
    <3>. QED  BY <1>1, <2>1, <2>2, FS_Injection
  <2>. QED  BY <2>3 DEF Surjection
<1>. DEFINE row(i) == [name |-> order[i][1], text |-> ds[order[i][1]][order[i][2]], editable |-> TRUE]
<1>5. Listing(ds) = [i \in 1 .. c |-> row(i)]
  BY <1>3 DEF Listing
<1>6. ASSUME NEW i \in 1 .. c PROVE row(i) \in Row
  <2>1. PICK n \in Names : \E k \in DOMAIN ds[n] : order[i] = <<n, k>>
    <3>1. order[i] \in D
      BY <1>3
    <3>2. \A d \in D : \E n \in Names : \E k \in DOMAIN ds[n] : d = <<n, k>>
      BY DEF Documents
    <3>. HIDE DEF order, D
    <3>. QED  BY <3>1, <3>2
  <2>2. PICK k \in DOMAIN ds[n] : order[i] = <<n, k>>
    BY <2>1
  <2>3. ds[n][k] \in Values
    BY DEF Values
  <2>. QED  BY <2>2, <2>3 DEF Row
<1>. HIDE DEF order, D, c
<1>7. Listing(ds) \in Seq(Row) /\ Len(Listing(ds)) = c
  <2>. HIDE DEF row
  <2>. QED  BY <1>1, <1>5, <1>6
<1>8. \A i, j \in 1 .. c : order[i] = order[j] => i = j
  BY <1>3 DEF IsInjective
<1>9. \A i \in 1 .. c : /\ Listing(ds)[i].name = order[i][1]
                        /\ Listing(ds)[i].text = ds[order[i][1]][order[i][2]]
  BY <1>5
<1>. QED  BY <1>3, <1>4, <1>7, <1>8, <1>9 DEF D

-----------------------------------------------------------------------------
(* Rows and calls.                                                         *)

Steps == {"sent", "missed", "saved", "failed"}

\* What a call consists of.
LEMMA RequestFields ==
    ASSUME NEW q \in Request
    PROVE  /\ q.n \in 1 .. MaxRequests /\ q.page \in Pages /\ q.lost \in BOOLEAN
           /\ q.new \in BOOLEAN /\ q.name \in Names /\ q.value \in Values /\ q.step \in Steps
           /\ q.name.key \in Keys
  BY DEF Request, Steps, Names

\* A call that is served.
LEMMA RequestServed ==
    ASSUME NEW q \in Request, NEW step \in Steps
    PROVE  LET o == [q EXCEPT !.step = step]
           IN  /\ o \in Request /\ o.step = step
               /\ o.page = q.page /\ o.lost = q.lost /\ o.new = q.new
               /\ o.name = q.name /\ o.value = q.value
  BY DEF Request, Steps

\* A call whose page is loaded again.
LEMMA RequestLost ==
    ASSUME NEW q \in Request
    PROVE  LET o == [q EXCEPT !.lost = TRUE]
           IN  /\ o \in Request /\ o.step = q.step
               /\ o.page = q.page /\ o.lost /\ o.new = q.new
               /\ o.name = q.name /\ o.value = q.value
  BY DEF Request

\* A key without blanks is a name.
LEMMA PlainName == \A k \in Keys : Plain(k) \in Names /\ Plain(k).key = k
  BY DEF Plain, Names

\* A cell gets another text.
LEMMA SetTextMoves ==
    ASSUME rows \in [Pages -> Seq(Row)], NEW p \in Pages, NEW r \in DOMAIN rows[p],
           NEW t \in Values, SetText(p, r, t)
    PROVE  /\ rows' \in [Pages -> Seq(Row)]
           /\ \A x \in Pages \ {p} : rows'[x] = rows[x]
           /\ Len(rows'[p]) = Len(rows[p]) /\ DOMAIN rows'[p] = DOMAIN rows[p]
           /\ \A i \in DOMAIN rows[p] : rows'[p][i].name = rows[p][i].name
           /\ rows'[p][r].text = t
           /\ \A i \in DOMAIN rows[p] \ {r} : rows'[p][i] = rows[p][i]
<1>. DEFINE new == [rows[p][r] EXCEPT !.text = t]
            s == [rows[p] EXCEPT ![r] = new]
<1>1. rows[p] \in Seq(Row) /\ rows[p][r] \in Row /\ r \in 1 .. Len(rows[p])
  OBVIOUS
<1>2. new \in Row /\ new.name = rows[p][r].name /\ new.text = t
  BY <1>1 DEF Row
<1>3. rows' = [rows EXCEPT ![p] = s]
  BY DEF SetText
<1>. HIDE DEF new
<1>4. s \in Seq(Row) /\ Len(s) = Len(rows[p]) /\ s[r] = new
      /\ DOMAIN s = DOMAIN rows[p]
      /\ \A i \in DOMAIN rows[p] \ {r} : s[i] = rows[p][i]
  BY <1>1, <1>2
<1>. HIDE DEF s
<1>5. rows'[p] = s /\ rows' \in [Pages -> Seq(Row)] /\ \A x \in Pages \ {p} : rows'[x] = rows[x]
  BY <1>3, <1>4
<1>6. \A i \in DOMAIN rows[p] : s[i].name = rows[p][i].name
  BY <1>2, <1>4
<1>. QED  BY <1>2, <1>4, <1>5, <1>6

\* A row is added.
LEMMA AddRowMoves ==
    ASSUME rows \in [Pages -> Seq(Row)], NEW p \in Pages, NEW new \in Row,
           rows' = [rows EXCEPT ![p] = Append(@, new)]
    PROVE  /\ rows' \in [Pages -> Seq(Row)]
           /\ \A x \in Pages \ {p} : rows'[x] = rows[x]
           /\ Len(rows'[p]) = Len(rows[p]) + 1 /\ Len(rows[p]) \in Nat
           /\ DOMAIN rows'[p] = DOMAIN rows[p] \cup {Len(rows[p]) + 1}
           /\ DOMAIN rows[p] = 1 .. Len(rows[p])
           /\ \A i \in DOMAIN rows[p] : rows'[p][i] = rows[p][i]
           /\ rows'[p][Len(rows[p]) + 1] = new
<1>1. rows[p] \in Seq(Row) /\ rows'[p] = Append(rows[p], new)
  OBVIOUS
<1>. QED  BY <1>1

\* A call is made.
LEMMA PostMoves ==
    ASSUME StorageTypeOK, NEW p \in Pages, NEW new \in BOOLEAN, NEW name \in Names,
           NEW value \in Values, Post(p, new, name, value)
    PROVE  /\ \E x \in Request :
                 /\ x.page = p /\ ~x.lost /\ x.new = new /\ x.name = name /\ x.value = value
                 /\ x.step = "sent"
                 /\ requests' = requests \cup {x}
           /\ sent' \in 0 .. MaxRequests
           /\ writers' \in [Keys -> SUBSET Pages]
           /\ writers' = [writers EXCEPT ![name.key] = @ \cup {p}]
           /\ mixed \subseteq mixed' /\ mixed' \subseteq Keys
           /\ \A q \in requests :
                 q.name.key = name.key \/ (new /\ q.new /\ q.page = p)
                 => q.name.key \in mixed' /\ name.key \in mixed'
<1>. DEFINE x == [n |-> sent + 1, page |-> p, lost |-> FALSE, new |-> new, name |-> name,
                  value |-> value, step |-> "sent"]
            beside == {q \in requests : \/ q.name.key = name.key
                                        \/ (new /\ q.new /\ q.page = p)}
<1>1. sent \in Nat /\ sent < MaxRequests /\ sent + 1 \in 1 .. MaxRequests /\ sent' = sent + 1
  BY DataStorageAssumption DEF Post, StorageTypeOK
<1>2. x \in Request
  BY <1>1 DEF Request
<1>3. requests' = requests \cup {x}
  BY DEF Post
<1>4. name.key \in Keys
  BY DEF Names
<1>5. writers' = [writers EXCEPT ![name.key] = @ \cup {p}]
  BY DEF Post
<1>6. mixed' = IF beside = {} THEN mixed
               ELSE mixed \cup {name.key} \cup {q.name.key : q \in beside}
  BY DEF Post
<1>7. \A q \in requests : q.name.key \in Keys
  BY RequestFields DEF StorageTypeOK
<1>8. mixed \subseteq mixed' /\ mixed' \subseteq Keys
  <2>1. mixed \subseteq Keys
    BY DEF StorageTypeOK
  <2>2. CASE beside = {}
    BY <2>1, <2>2, <1>6
  <2>3. CASE beside # {}
    BY <2>1, <2>3, <1>4, <1>6, <1>7
  <2>. QED  BY <2>2, <2>3
<1>9. ASSUME NEW q \in requests, q.name.key = name.key \/ (new /\ q.new /\ q.page = p)
      PROVE  q.name.key \in mixed' /\ name.key \in mixed'
  <2>1. q \in beside
    BY <1>9
  <2>. HIDE DEF beside
  <2>. QED  BY <2>1, <1>6
<1>10. writers' \in [Keys -> SUBSET Pages] /\ sent' \in 0 .. MaxRequests
  BY <1>1, <1>4, <1>5, DataStorageAssumption DEF StorageTypeOK
<1>11. x.page = p /\ ~x.lost /\ x.new = new /\ x.name = name /\ x.value = value /\ x.step = "sent"
  OBVIOUS
<1>. HIDE DEF x, beside
<1>. QED  BY <1>2, <1>3, <1>5, <1>8, <1>9, <1>10, <1>11

\* What has become of a call that was served, and of the documents of its name.
Outcome(q, x) ==
    /\ x \in Request /\ x.page = q.page /\ x.lost = q.lost /\ x.new = q.new
    /\ x.name = q.name /\ x.value = q.value
    /\ requests' = (requests \ {q}) \cup {x}
    /\ docs' \in [Names -> Seq(Texts)]
    /\ \A n \in Names \ {q.name} : docs'[n] = docs[n]
    /\ LET was == docs[q.name]
           is == docs'[q.name]
       IN  \/ q.step = "sent" /\ x.step = "failed" /\ is = was
           \/ /\ q.step = "sent" /\ x.step = "missed" /\ q.new /\ q.value # Empty
              /\ was = <<>> /\ is = was
           \/ /\ q.step = "sent" /\ x.step = "saved" /\ q.value = Empty
              /\ Len(was) > 0 /\ Len(is) = Len(was) - 1
           \/ /\ q.step = "sent" /\ x.step = "saved" /\ q.value # Empty
              /\ Len(was) > 0 /\ Len(is) = Len(was) /\ (Len(was) = 1 => is = <<q.value>>)
           \/ /\ q.step = "missed" /\ x.step = "saved" /\ q.new /\ q.value # Empty
              /\ is = Append(was, q.value)

\* A text is a value that is not empty.
LEMMA TextOf == \A t \in Values : t # Empty => t \in Texts
  BY DEF Values

\* A call is moved on.
LEMMA MovedOn ==
    ASSUME StorageTypeOK, NEW q \in requests, NEW step \in Steps, Moved(q, step)
    PROVE  \E x \in Request :
              /\ x.page = q.page /\ x.lost = q.lost /\ x.new = q.new
              /\ x.name = q.name /\ x.value = q.value /\ x.step = step
              /\ requests' = (requests \ {q}) \cup {x}
<1>. DEFINE x == [q EXCEPT !.step = step]
<1>1. q \in Request
  BY DEF StorageTypeOK
<1>2. requests' = (requests \ {q}) \cup {x}
  BY DEF Moved
<1>3. /\ x \in Request /\ x.step = step
      /\ x.page = q.page /\ x.lost = q.lost /\ x.new = q.new
      /\ x.name = q.name /\ x.value = q.value
  BY <1>1, RequestServed
<1>. HIDE DEF x
<1>. QED  BY <1>2, <1>3

\* The documents of one name change.
LEMMA DocsMove ==
    ASSUME docs \in [Names -> Seq(Texts)], NEW n \in Names, NEW s \in Seq(Texts),
           docs' = [docs EXCEPT ![n] = s]
    PROVE  /\ docs' \in [Names -> Seq(Texts)] /\ docs'[n] = s
           /\ \A m \in Names \ {n} : docs'[m] = docs[m]
  OBVIOUS

\* A call is served in one of these ways.
LEMMA ServeMoves ==
    ASSUME StorageTypeOK, NEW q \in requests,
           Refused(q) \/ Delete(q) \/ Replace(q) \/ Insert(q)
    PROVE  \E x \in Request : Outcome(q, x)
<1>. DEFINE was == docs[q.name]
<1>1. q \in Request /\ q.name \in Names /\ q.value \in Values /\ docs \in [Names -> Seq(Texts)]
  BY RequestFields DEF StorageTypeOK
<1>2. was \in Seq(Texts) /\ Len(was) \in Nat /\ DOMAIN was = 1 .. Len(was)
  BY <1>1
<1>3. {"missed", "saved", "failed"} \subseteq Steps
  BY DEF Steps
<1>4. CASE Refused(q)
  <2>1. q.step = "sent" /\ Moved(q, "failed") /\ docs' = docs
    BY <1>4 DEF Refused
  <2>2. PICK x \in Request :
              /\ x.page = q.page /\ x.lost = q.lost /\ x.new = q.new
              /\ x.name = q.name /\ x.value = q.value /\ x.step = "failed"
              /\ requests' = (requests \ {q}) \cup {x}
    BY <1>3, <2>1, MovedOn
  <2>3. Outcome(q, x)
    BY <1>1, <2>1, <2>2 DEF Outcome
  <2>. QED  BY <2>3
<1>5. CASE Delete(q) /\ was = <<>>
  <2>1. q.step = "sent" /\ Moved(q, "failed") /\ docs' = docs
    BY <1>5 DEF Delete
  <2>2. PICK x \in Request :
              /\ x.page = q.page /\ x.lost = q.lost /\ x.new = q.new
              /\ x.name = q.name /\ x.value = q.value /\ x.step = "failed"
              /\ requests' = (requests \ {q}) \cup {x}
    BY <1>3, <2>1, MovedOn
  <2>3. Outcome(q, x)
    BY <1>1, <2>1, <2>2 DEF Outcome
  <2>. QED  BY <2>3
<1>6. CASE Delete(q) /\ was # <<>>
  <2>1. q.step = "sent" /\ q.value = Empty /\ Moved(q, "saved")
    BY <1>6 DEF Delete
  <2>2. PICK k \in DOMAIN was : docs' = [docs EXCEPT ![q.name] = RemoveAt(was, k)]
    BY <1>1, <1>6 DEF Delete
  <2>. DEFINE s == RemoveAt(was, k)
  <2>3. s \in Seq(Texts) /\ Len(s) = Len(was) - 1 /\ Len(was) > 0
    <3>1. k \in 1 .. Len(was) /\ Len(was) > 0
      BY <1>2
    <3>. HIDE DEF was
    <3>2. s = SubSeq(was, 1, k - 1) \o SubSeq(was, k + 1, Len(was))
      BY DEF RemoveAt
    <3>. HIDE DEF s
    <3>. QED  BY <1>2, <3>1, <3>2, RemoveOne
  <2>4. PICK x \in Request :
              /\ x.page = q.page /\ x.lost = q.lost /\ x.new = q.new
              /\ x.name = q.name /\ x.value = q.value /\ x.step = "saved"
              /\ requests' = (requests \ {q}) \cup {x}
    BY <1>3, <2>1, MovedOn
  <2>. HIDE DEF s, was
  <2>5. docs' \in [Names -> Seq(Texts)] /\ docs'[q.name] = s
        /\ \A m \in Names \ {q.name} : docs'[m] = docs[m]
    BY <1>1, <2>2, <2>3, DocsMove DEF s
  <2>6. Outcome(q, x)
    BY <2>1, <2>3, <2>4, <2>5 DEF Outcome, was
  <2>. QED  BY <2>6
<1>7. CASE Replace(q) /\ was # <<>>
  <2>1. q.step = "sent" /\ q.value # Empty /\ Moved(q, "saved")
    BY <1>7 DEF Replace, Finds
  <2>2. PICK k \in DOMAIN was : docs' = [docs EXCEPT ![q.name][k] = q.value]
    BY <1>7 DEF Replace, Finds
  <2>. DEFINE s == [was EXCEPT ![k] = q.value]
  <2>3. q.value \in Texts
    BY <1>1, <2>1, TextOf
  <2>4. s \in Seq(Texts) /\ Len(s) = Len(was) /\ Len(was) > 0 /\ s[k] = q.value
    BY <1>2, <2>3
  <2>5. Len(was) = 1 => s = <<q.value>>
    <3>1. SUFFICES ASSUME Len(was) = 1 PROVE s = <<q.value>>
      OBVIOUS
    <3>2. k = 1
      BY <1>2, <3>1
    <3>. HIDE DEF s
    <3>. QED  BY <2>4, <3>1, <3>2
  <2>6. docs' = [docs EXCEPT ![q.name] = s]
    BY <2>2
  <2>7. PICK x \in Request :
              /\ x.page = q.page /\ x.lost = q.lost /\ x.new = q.new
              /\ x.name = q.name /\ x.value = q.value /\ x.step = "saved"
              /\ requests' = (requests \ {q}) \cup {x}
    BY <1>3, <2>1, MovedOn
  <2>. HIDE DEF s, was
  <2>8. docs' \in [Names -> Seq(Texts)] /\ docs'[q.name] = s
        /\ \A m \in Names \ {q.name} : docs'[m] = docs[m]
    BY <1>1, <2>4, <2>6, DocsMove
  <2>9. Outcome(q, x)
    BY <2>1, <2>4, <2>5, <2>7, <2>8 DEF Outcome, was
  <2>. QED  BY <2>9
<1>8. CASE Replace(q) /\ was = <<>>
  <2>1. q.step = "sent" /\ q.value # Empty /\ docs' = docs
        /\ Moved(q, IF q.new THEN "missed" ELSE "failed")
    BY <1>8 DEF Replace, Finds, Unmatched
  <2>2. PICK x \in Request :
              /\ x.page = q.page /\ x.lost = q.lost /\ x.new = q.new
              /\ x.name = q.name /\ x.value = q.value
              /\ x.step = IF q.new THEN "missed" ELSE "failed"
              /\ requests' = (requests \ {q}) \cup {x}
    BY <1>3, <2>1, MovedOn
  <2>3. Outcome(q, x)
    BY <1>1, <1>8, <2>1, <2>2 DEF Outcome
  <2>. QED  BY <2>3
<1>9. CASE Insert(q)
  <2>1. q.step = "missed" /\ Moved(q, "saved") /\ docs' = [docs EXCEPT ![q.name] = Append(@, q.value)]
    BY <1>9 DEF Insert
  <2>2. q.new /\ q.value # Empty
    BY <2>1 DEF StorageTypeOK
  <2>. DEFINE s == Append(was, q.value)
  <2>3. s \in Seq(Texts)
    BY <1>1, <1>2, <2>2, TextOf
  <2>4. docs' = [docs EXCEPT ![q.name] = s]
    BY <2>1
  <2>5. PICK x \in Request :
              /\ x.page = q.page /\ x.lost = q.lost /\ x.new = q.new
              /\ x.name = q.name /\ x.value = q.value /\ x.step = "saved"
              /\ requests' = (requests \ {q}) \cup {x}
    BY <1>3, <2>1, MovedOn
  <2>6. docs' \in [Names -> Seq(Texts)] /\ docs'[q.name] = s
        /\ \A m \in Names \ {q.name} : docs'[m] = docs[m]
    <3>. HIDE DEF s
    <3>. QED  BY <1>1, <2>3, <2>4, DocsMove
  <2>7. Outcome(q, x)
    BY <2>1, <2>2, <2>5, <2>6 DEF Outcome
  <2>. QED  BY <2>7
<1>. QED  BY <1>4, <1>5, <1>6, <1>7, <1>8, <1>9

-----------------------------------------------------------------------------
(* The types of the data storage view.                                     *)

\* A page is opened with what is stored.
LEMMA StorageTypesInit == StorageInit => StorageTypes
<1>. SUFFICES ASSUME StorageInit PROVE StorageTypes
  OBVIOUS
<1>1. <<>> \in Seq(Texts) /\ \A t \in Texts : <<t>> \in Seq(Texts)
  OBVIOUS
<1>2. docs \in [Names -> Seq(Texts)]
  BY <1>1 DEF StorageInit
<1>3. rows \in [Pages -> Seq(Row)]
  <2>1. Listing(docs) \in Seq(Row)
    BY <1>2, ListingOf
  <2>2. rows = [p \in Pages |-> Listing(docs)]
    BY DEF StorageInit
  <2>. QED  BY <2>1, <2>2
<1>4. elem \in [Pages -> [row : Nat, oldValue : Values]]
      /\ \A p \in Pages : elem[p].row \in 0 .. Len(rows[p]) /\ elem[p].oldValue \in Values
  <2>1. elem = [p \in Pages |-> NoElem]
    BY DEF StorageInit
  <2>2. NoElem \in [row : Nat, oldValue : Values] /\ NoElem.row = 0 /\ NoElem.oldValue \in Values
    BY DEF NoElem, Values
  <2>3. \A p \in Pages : Len(rows[p]) \in Nat
    BY <1>3
  <2>. QED  BY <2>1, <2>2, <2>3
<1>5. requests = {} /\ sent = 0 /\ reloads = 0 /\ mixed = {} /\ told = {} /\ raced = {}
      /\ writers \in [Keys -> SUBSET Pages] /\ offered \in [Pages -> BOOLEAN]
      /\ entry \in [Pages -> Entry \cup {NoEntry}]
  BY DEF StorageInit
<1>6. sent \in 0 .. MaxRequests /\ reloads \in 0 .. MaxReloads
  BY <1>5, DataStorageAssumption
<1>. QED  BY <1>2, <1>3, <1>4, <1>5, <1>6 DEF StorageTypes, StorageTypeOK

\* The types of the calls are kept by one more call.
LEMMA PostTypes ==
    ASSUME StorageTypes, NEW p \in Pages, NEW new \in BOOLEAN, NEW name \in Names,
           NEW value \in Values, Post(p, new, name, value)
    PROVE  /\ requests' \subseteq Request
           /\ \A q \in requests' : q.step = "missed" => q.new /\ q.value # Empty
           /\ \A q \in requests' : q.new => (new /\ q.page = p) \/ entry[q.page] \in Entry
           /\ sent' \in 0 .. MaxRequests /\ writers' \in [Keys -> SUBSET Pages]
           /\ mixed' \subseteq Keys
<1>1. /\ StorageTypeOK /\ requests \subseteq Request
      /\ \A q \in requests : q.step = "missed" => q.new /\ q.value # Empty
      /\ \A q \in requests : q.new => entry[q.page] \in Entry
  BY DEF StorageTypes, StorageTypeOK
<1>2. PICK x \in Request :
         /\ x.page = p /\ ~x.lost /\ x.new = new /\ x.name = name /\ x.value = value
         /\ x.step = "sent"
         /\ requests' = requests \cup {x}
  BY <1>1, PostMoves
<1>3. sent' \in 0 .. MaxRequests /\ writers' \in [Keys -> SUBSET Pages] /\ mixed' \subseteq Keys
  BY <1>1, PostMoves
<1>4. requests' \subseteq Request
  BY <1>1, <1>2
<1>5. \A q \in requests' : q \in requests \/ q = x
  BY <1>2
<1>6. \A q \in requests' : q.step = "missed" => q.new /\ q.value # Empty
  BY <1>1, <1>2, <1>5
<1>7. ASSUME NEW q \in requests', q.new PROVE (new /\ q.page = p) \/ entry[q.page] \in Entry
  <2>1. CASE q \in requests
    <3>1. entry[q.page] \in Entry
      BY <1>1, <1>7, <2>1
    <3>. QED  BY <3>1, Zenon
  <2>2. CASE q = x
    <3>1. x.new /\ q.page = p
      BY <1>2, <1>7, <2>2
    <3>2. x.new = new
      BY <1>2
    <3>. QED  BY <3>1, <3>2, Zenon
  <2>. QED  BY <1>5, <2>1, <2>2
<1>. QED  BY <1>3, <1>4, <1>6, <1>7

\* Every step keeps the types.
LEMMA StorageTypesNext == StorageTypes /\ [StorageNext]_storageVars => StorageTypes'
<1>. SUFFICES ASSUME StorageTypes, [StorageNext]_storageVars PROVE StorageTypes'
  OBVIOUS
<1>1. StorageTypeOK /\ elem \in [Pages -> [row : Nat, oldValue : Values]]
      /\ \A q \in requests : q.new => entry[q.page] \in Entry
  BY DEF StorageTypes
<1>2. /\ docs \in [Names -> Seq(Texts)] /\ rows \in [Pages -> Seq(Row)]
      /\ \A p \in Pages : elem[p].row \in 0 .. Len(rows[p]) /\ elem[p].oldValue \in Values
      /\ entry \in [Pages -> Entry \cup {NoEntry}] /\ offered \in [Pages -> BOOLEAN]
      /\ requests \subseteq Request
      /\ \A q \in requests : q.step = "missed" => q.new /\ q.value # Empty
      /\ reloads \in 0 .. MaxReloads /\ told \subseteq Keys /\ raced \subseteq Names
      /\ sent \in 0 .. MaxRequests /\ writers \in [Keys -> SUBSET Pages] /\ mixed \subseteq Keys
  BY <1>1 DEF StorageTypeOK
<1>3. \A p \in Pages : rows[p] \in Seq(Row) /\ Len(rows[p]) \in Nat
  BY <1>2
<1>4. ASSUME NEW p \in Pages, NEW r \in DOMAIN rows[p], NEW t \in Values, Edit(p, r, t)
      PROVE  StorageTypes'
  <2>. DEFINE name == Plain(rows[p][r].name.key)
              new == [row |-> r, oldValue |-> rows[p][r].text]
  <2>1. rows[p][r] \in Row /\ rows[p][r].text \in Values /\ r \in 1 .. Len(rows[p])
    <3>1. rows[p][r] \in Row /\ r \in 1 .. Len(rows[p])
      BY <1>3
    <3>. QED  BY <3>1 DEF Row
  <2>2. name \in Names
    BY <2>1, PlainName DEF Row, Names
  <2>3. new \in [row : Nat, oldValue : Values] /\ new.row = r /\ new.oldValue \in Values
    BY <1>3, <2>1
  <2>4. /\ SetText(p, r, t) /\ Post(p, FALSE, name, t) /\ elem' = [elem EXCEPT ![p] = new]
        /\ UNCHANGED <<docs, entry, offered, reloads, told, raced>>
    BY <1>4 DEF Edit
  <2>. HIDE DEF name, new
  <2>5. rows' \in [Pages -> Seq(Row)] /\ \A x \in Pages : Len(rows'[x]) = Len(rows[x])
    BY <1>2, <2>4, SetTextMoves
  <2>6. elem' \in [Pages -> [row : Nat, oldValue : Values]]
        /\ \A x \in Pages : elem'[x].row \in 0 .. Len(rows'[x]) /\ elem'[x].oldValue \in Values
    BY <1>1, <1>2, <1>3, <2>1, <2>3, <2>4, <2>5
  <2>7. /\ requests' \subseteq Request
        /\ \A q \in requests' : q.step = "missed" => q.new /\ q.value # Empty
        /\ \A q \in requests' : q.new => entry[q.page] \in Entry
        /\ sent' \in 0 .. MaxRequests /\ writers' \in [Keys -> SUBSET Pages]
        /\ mixed' \subseteq Keys
    BY <2>2, <2>4, PostTypes
  <2>. QED  BY <1>2, <2>4, <2>5, <2>6, <2>7 DEF StorageTypes, StorageTypeOK
<1>5. ASSUME NEW p \in Pages, Undo(p) PROVE StorageTypes'
  <2>. DEFINE r == elem[p].row
              name == Plain(rows[p][r].name.key)
              t == elem[p].oldValue
  <2>1. r \in DOMAIN rows[p] /\ t \in Values
    BY <1>2, <1>3, <1>5 DEF Undo
  <2>2. rows[p][r] \in Row
    BY <1>3, <2>1
  <2>3. name \in Names
    BY <2>2, PlainName DEF Row, Names
  <2>4. /\ SetText(p, r, t) /\ Post(p, FALSE, name, t)
        /\ UNCHANGED <<docs, elem, entry, offered, reloads, told, raced>>
    BY <1>5 DEF Undo, Undone
  <2>. HIDE DEF name, r, t
  <2>5. rows' \in [Pages -> Seq(Row)] /\ \A x \in Pages : Len(rows'[x]) = Len(rows[x])
    BY <1>2, <2>1, <2>4, SetTextMoves
  <2>7. /\ requests' \subseteq Request
        /\ \A q \in requests' : q.step = "missed" => q.new /\ q.value # Empty
        /\ \A q \in requests' : q.new => entry[q.page] \in Entry
        /\ sent' \in 0 .. MaxRequests /\ writers' \in [Keys -> SUBSET Pages]
        /\ mixed' \subseteq Keys
    BY <2>1, <2>3, <2>4, PostTypes
  <2>. QED  BY <1>1, <1>2, <2>4, <2>5, <2>7 DEF StorageTypes, StorageTypeOK
<1>6. ASSUME NEW p \in Pages, Reload(p) PROVE StorageTypes'
  <2>1. /\ rows' = [rows EXCEPT ![p] = Listing(docs)] /\ elem' = [elem EXCEPT ![p] = NoElem]
        /\ offered' = [offered EXCEPT ![p] = FALSE]
        /\ requests' = {IF q.page = p THEN [q EXCEPT !.lost = TRUE] ELSE q : q \in requests}
        /\ mixed' = mixed \cup {q.name.key : q \in requests}
        /\ UNCHANGED <<docs, entry, sent, writers, told, raced>>
    BY <1>6 DEF Reload
  <2>2. reloads < MaxReloads /\ reloads' = reloads + 1
    BY <1>6 DEF Reload
  <2>3. reloads' \in 0 .. MaxReloads
    BY <1>2, <2>2, DataStorageAssumption
  <2>4. rows' \in [Pages -> Seq(Row)] /\ \A x \in Pages : Len(rows'[x]) \in Nat
    BY <1>2, <2>1, ListingOf
  <2>5. NoElem \in [row : Nat, oldValue : Values] /\ NoElem.row = 0 /\ NoElem.oldValue \in Values
    BY DEF NoElem, Values
  <2>6. elem' \in [Pages -> [row : Nat, oldValue : Values]]
        /\ \A x \in Pages : elem'[x].row \in 0 .. Len(rows'[x]) /\ elem'[x].oldValue \in Values
    BY <1>1, <1>2, <2>1, <2>4, <2>5
  <2>7. offered' \in [Pages -> BOOLEAN]
    BY <1>2, <2>1, Zenon
  <2>8. ASSUME NEW x \in requests'
        PROVE  /\ x \in Request
               /\ \E q \in requests : /\ x.step = q.step /\ x.new = q.new
                                      /\ x.value = q.value /\ x.page = q.page
    <3>1. PICK q \in requests : x = IF q.page = p THEN [q EXCEPT !.lost = TRUE] ELSE q
      BY <2>1
    <3>2. q \in Request
      BY <1>2
    <3>3. CASE q.page = p
      BY <3>1, <3>2, <3>3, RequestLost
    <3>4. CASE q.page # p
      BY <3>1, <3>2, <3>4
    <3>. QED  BY <3>3, <3>4
  <2>9. /\ requests' \subseteq Request
        /\ \A q \in requests' : q.step = "missed" => q.new /\ q.value # Empty
        /\ \A q \in requests' : q.new => entry[q.page] \in Entry
    <3>1. ASSUME NEW x \in requests'
          PROVE  /\ x \in Request
                 /\ x.step = "missed" => x.new /\ x.value # Empty
                 /\ x.new => entry[x.page] \in Entry
      <4>1. x \in Request
        BY <2>8
      <4>2. PICK q \in requests : x.step = q.step /\ x.new = q.new
                                  /\ x.value = q.value /\ x.page = q.page
        BY <2>8
      <4>3. x.step = "missed" => x.new /\ x.value # Empty
        <5>1. q.step = "missed" => q.new /\ q.value # Empty
          BY <1>2
        <5>. QED  BY <4>2, <5>1, Zenon
      <4>4. x.new => entry[x.page] \in Entry
        <5>1. q.new => entry[q.page] \in Entry
          BY <1>1
        <5>. QED  BY <4>2, <5>1, Zenon
      <4>. QED  BY <4>1, <4>3, <4>4
    <3>. QED  BY <3>1
  <2>10. mixed' \subseteq Keys
    <3>1. \A q \in requests : q.name.key \in Keys
      BY <1>2, RequestFields
    <3>. QED  BY <1>2, <2>1, <3>1
  <2>. QED  BY <1>2, <2>1, <2>3, <2>4, <2>6, <2>7, <2>9, <2>10 DEF StorageTypes, StorageTypeOK
<1>7. ASSUME NEW p \in Pages, NEW n \in Names, NEW t \in Values, AddNew(p, n, t)
      PROVE  StorageTypes'
  <2>. DEFINE new == [name |-> n, text |-> t]
  <2>1. new \in Entry
    BY DEF Entry
  <2>2. /\ entry' = [entry EXCEPT ![p] = new] /\ Post(p, TRUE, n, t)
        /\ UNCHANGED <<docs, rows, elem, offered, reloads, told, raced>>
    BY <1>7 DEF AddNew
  <2>. HIDE DEF new
  <2>3. entry' \in [Pages -> Entry \cup {NoEntry}] /\ entry'[p] \in Entry
        /\ \A x \in Pages \ {p} : entry'[x] = entry[x]
    BY <1>2, <2>1, <2>2
  <2>4. /\ requests' \subseteq Request
        /\ \A q \in requests' : q.step = "missed" => q.new /\ q.value # Empty
        /\ \A q \in requests' : q.new => q.page = p \/ entry[q.page] \in Entry
        /\ sent' \in 0 .. MaxRequests /\ writers' \in [Keys -> SUBSET Pages]
        /\ mixed' \subseteq Keys
    BY <2>2, PostTypes
  <2>5. \A q \in requests' : q.page \in Pages
    BY <2>4, RequestFields
  <2>6. \A q \in requests' : q.new => entry'[q.page] \in Entry
    BY <2>3, <2>4, <2>5
  <2>. QED  BY <1>1, <1>2, <2>2, <2>3, <2>4, <2>6 DEF StorageTypes, StorageTypeOK
<1>8. ASSUME Serve PROVE StorageTypes'
  <2>1. PICK q \in requests :
           /\ Refused(q) \/ Delete(q) \/ Replace(q) \/ Insert(q)
           /\ raced' = IF q.new /\ Overlapping(q) THEN raced \cup {q.name} ELSE raced
    BY <1>8 DEF Serve
  <2>2. UNCHANGED <<rows, elem, entry, offered, reloads, sent, mixed, writers, told>>
    BY <1>8 DEF Serve
  <2>3. PICK x \in Request : Outcome(q, x)
    BY <1>1, <2>1, ServeMoves
  <2>4. q \in Request /\ q.name \in Names
    BY <1>2, RequestFields
  <2>5. raced' \subseteq Names
    BY <1>2, <2>1, <2>4
  <2>6. /\ requests' = (requests \ {q}) \cup {x} /\ docs' \in [Names -> Seq(Texts)]
        /\ x.step = "missed" => x.new /\ x.value # Empty
        /\ x.page = q.page /\ x.new = q.new
    BY <2>3 DEF Outcome
  <2>7. requests' \subseteq Request
        /\ \A o \in requests' : o.step = "missed" => o.new /\ o.value # Empty
    BY <1>2, <2>6
  <2>8. \A o \in requests' : o.new => entry[o.page] \in Entry
    BY <1>1, <2>6
  <2>. QED  BY <1>1, <1>2, <2>2, <2>5, <2>6, <2>7, <2>8 DEF StorageTypes, StorageTypeOK
<1>9. ASSUME Complete PROVE StorageTypes'
  <2>1. PICK q \in requests :
          /\ requests' = requests \ {q}
          /\ told' = IF q.step = "failed" THEN told \cup {q.name.key} ELSE told
          /\ LET shown == q.step = "saved" /\ ~q.lost
             IN  /\ offered' = IF shown /\ ~q.new
                             THEN [offered EXCEPT ![q.page] = TRUE] ELSE offered
                 /\ rows' = IF shown /\ q.new
                            THEN [rows EXCEPT ![q.page] =
                                    Append(@, [name |-> entry[q.page].name,
                                               text |-> entry[q.page].text,
                                               editable |-> FALSE])]
                            ELSE rows
    BY <1>9 DEF Complete
  <2>2. UNCHANGED <<docs, elem, entry, reloads, sent, mixed, writers, raced>>
    BY <1>9 DEF Complete
  <2>3. q \in Request /\ q.page \in Pages /\ q.name.key \in Keys
    BY <1>2, RequestFields
  <2>4. told' \subseteq Keys
    BY <1>2, <2>1, <2>3
  <2>5. offered' \in [Pages -> BOOLEAN]
    <3>1. offered' = [offered EXCEPT ![q.page] = TRUE] \/ offered' = offered
      BY <2>1
    <3>. QED  BY <1>2, <3>1, Zenon
  <2>6. rows' \in [Pages -> Seq(Row)] /\ \A x \in Pages : Len(rows'[x]) \in Nat
        /\ Len(rows[x]) <= Len(rows'[x])
    <3>1. CASE rows' = rows
      BY <1>2, <1>3, <3>1
    <3>2. CASE rows' # rows
      <4>. DEFINE new == [name |-> entry[q.page].name, text |-> entry[q.page].text,
                          editable |-> FALSE]
      <4>1. q.new /\ rows' = [rows EXCEPT ![q.page] = Append(@, new)]
        BY <2>1, <3>2
      <4>2. new \in Row
        <5>1. entry[q.page] \in Entry
          BY <1>1, <4>1
        <5>. QED  BY <5>1 DEF Entry, Row
      <4>. HIDE DEF new
      <4>3. rows' \in [Pages -> Seq(Row)] /\ \A x \in Pages \ {q.page} : rows'[x] = rows[x]
        BY <1>2, <2>3, <4>1, <4>2, AddRowMoves
      <4>4. Len(rows'[q.page]) = Len(rows[q.page]) + 1
        BY <1>2, <2>3, <4>1, <4>2, AddRowMoves
      <4>5. ASSUME NEW y \in Pages PROVE Len(rows'[y]) \in Nat /\ Len(rows[y]) <= Len(rows'[y])
        <5>1. CASE y = q.page
          BY <1>3, <4>4, <5>1
        <5>2. CASE y # q.page
          BY <1>3, <4>3, <5>2
        <5>. QED  BY <5>1, <5>2
      <4>. QED  BY <4>3, <4>5
    <3>. QED  BY <3>1, <3>2
  <2>7. \A x \in Pages : elem[x].row \in 0 .. Len(rows'[x])
    BY <1>2, <1>3, <2>6
  <2>. QED  BY <1>1, <1>2, <2>1, <2>2, <2>4, <2>5, <2>6, <2>7 DEF StorageTypes, StorageTypeOK
<1>10. ASSUME UNCHANGED storageVars PROVE StorageTypes'
  BY <1>1, <1>2, <1>10 DEF StorageTypes, StorageTypeOK, storageVars
<1>. QED  BY <1>4, <1>5, <1>6, <1>7, <1>8, <1>9, <1>10 DEF StorageNext

-----------------------------------------------------------------------------
(* One document of a name.                                                 *)

\* A page is opened with one document of a name at most, and no upsert.
LEMMA UpsertsInit == StorageInit => UpsertsInv
<1>. SUFFICES ASSUME StorageInit PROVE UpsertsInv
  OBVIOUS
<1>1. requests = {}
  BY DEF StorageInit
<1>2. PICK t \in Texts, loaded \in Loaded :
         docs = [n \in Names |-> IF ~n.padded /\ n.key \in loaded THEN <<t>> ELSE <<>>]
  BY DEF StorageInit
<1>3. Len(<<t>>) = 1 /\ Len(<<>>) = 0
  OBVIOUS
<1>4. ASSUME NEW n \in Names PROVE ~(Len(docs[n]) > 1)
  <2>1. docs[n] = <<t>> \/ docs[n] = <<>>
    BY <1>2
  <2>2. Len(docs[n]) = 1 \/ Len(docs[n]) = 0
    BY <1>3, <2>1, Zenon
  <2>. DEFINE m == Len(docs[n])
  <2>3. m = 1 \/ m = 0
    BY <2>2
  <2>. HIDE DEF m
  <2>4. ~(m > 1)
    BY <2>3
  <2>. QED  BY <2>4 DEF m
<1>. QED  BY <1>1, <1>4 DEF UpsertsInv, UniqueUnlessRaced

\* A step that changes no document and adds no upsert that has found nothing.
LEMMA UpsertsKept ==
    ASSUME UpsertsInv, UNCHANGED <<docs, raced>>,
           \A x \in requests' : x.step = "missed" =>
              \E q \in requests : q.step = "missed" /\ q.name = x.name,
           \A x, y \in requests' :
              x # y /\ x.step = "missed" /\ y.step = "missed" /\ y.name = x.name =>
              \E q, o \in requests : /\ q # o /\ q.step = "missed" /\ o.step = "missed"
                                     /\ q.name = x.name /\ o.name = x.name
    PROVE  UpsertsInv'
<1>1. UniqueUnlessRaced'
  BY DEF UpsertsInv, UniqueUnlessRaced
<1>2. ASSUME NEW x \in requests', x.step = "missed", docs'[x.name] # <<>>
      PROVE  x.name \in raced'
  <2>1. PICK q \in requests : q.step = "missed" /\ q.name = x.name
    BY <1>2
  <2>. QED  BY <1>2, <2>1 DEF UpsertsInv
<1>3. ASSUME NEW x \in requests', x.step = "missed",
             NEW y \in requests' \ {x}, y.step = "missed", y.name = x.name
      PROVE  x.name \in raced'
  <2>1. PICK q \in requests, o \in requests :
           /\ q # o /\ q.step = "missed" /\ o.step = "missed"
           /\ q.name = x.name /\ o.name = x.name
    BY <1>3
  <2>. QED  BY <1>3, <2>1 DEF UpsertsInv
<1>. QED  BY <1>1, <1>2, <1>3 DEF UpsertsInv

\* A call that is made has found nothing yet.
LEMMA UpsertsPosted ==
    ASSUME StorageTypeOK, UpsertsInv, UNCHANGED <<docs, raced>>,
           NEW p \in Pages, NEW new \in BOOLEAN, NEW name \in Names, NEW value \in Values,
           Post(p, new, name, value)
    PROVE  UpsertsInv'
<1>1. PICK x \in Request : x.step = "sent" /\ requests' = requests \cup {x}
  BY PostMoves
<1>2. \A y \in requests' : y.step = "missed" => y \in requests
  BY <1>1
<1>. QED  BY <1>2, UpsertsKept

\* A call that is served keeps it.
LEMMA UpsertsServed ==
    ASSUME StorageTypeOK, UpsertsInv, NEW q \in requests, NEW x \in Request, Outcome(q, x),
           raced' = IF q.new /\ Overlapping(q) THEN raced \cup {q.name} ELSE raced
    PROVE  UpsertsInv'
<1>. DEFINE was == docs[q.name]
            is == docs'[q.name]
<1>1. /\ raced \subseteq raced'
      /\ q.new /\ Overlapping(q) => q.name \in raced'
  OBVIOUS
<1>2. /\ requests' = (requests \ {q}) \cup {x} /\ x.name = q.name
      /\ docs' \in [Names -> Seq(Texts)]
      /\ \A n \in Names \ {q.name} : docs'[n] = docs[n]
  BY DEF Outcome
<1>3. /\ docs \in [Names -> Seq(Texts)]
      /\ \A o \in requests : o.step = "missed" => o.new
      /\ \A o \in requests : o.name \in Names
      /\ q.name \in Names
  BY RequestFields DEF StorageTypeOK
<1>4. /\ was \in Seq(Texts) /\ Len(was) \in Nat /\ is \in Seq(Texts) /\ Len(is) \in Nat
      /\ was = <<>> <=> Len(was) = 0
      /\ is = <<>> <=> Len(is) = 0
  BY <1>2, <1>3
<1>5. \/ is = was
      \/ Len(was) > 0 /\ Len(is) <= Len(was)
      \/ q.step = "missed" /\ Len(is) = Len(was) + 1
  <2>1. \/ is = was
        \/ Len(was) > 0 /\ Len(is) = Len(was) - 1
        \/ Len(was) > 0 /\ Len(is) = Len(was)
        \/ q.step = "missed" /\ is = Append(was, q.value)
    BY Zenon DEF Outcome
  <2>2. q.step = "missed" => Append(was, q.value) \in Seq(Texts) /\ Len(Append(was, q.value)) = Len(was) + 1
    <3>1. q.step = "missed" => q.value \in Texts
      BY TextOf, RequestFields DEF StorageTypeOK
    <3>. QED  BY <1>4, <3>1
  <2>. QED  BY <1>4, <2>1, <2>2
<1>6. \A n \in Names : Len(docs[n]) > 1 => n \in raced
  BY DEF UpsertsInv, UniqueUnlessRaced
<1>7. /\ \A o \in requests : o.step = "missed" /\ docs[o.name] # <<>> => o.name \in raced
      /\ \A o, r \in requests : o # r /\ o.step = "missed" /\ r.step = "missed" /\ r.name = o.name
                                => o.name \in raced
  BY DEF UpsertsInv
<1>8. UniqueUnlessRaced'
  <2>1. SUFFICES ASSUME NEW n \in Names, Len(docs'[n]) > 1 PROVE n \in raced'
    BY DEF UniqueUnlessRaced
  <2>2. CASE n # q.name
    BY <1>1, <1>2, <1>6, <2>1, <2>2
  <2>3. CASE n = q.name
    <3>1. Len(is) > 1
      BY <2>1, <2>3
    <3>2. CASE Len(was) > 1
      BY <1>1, <1>3, <1>6, <2>3, <3>2
    <3>3. CASE ~(Len(was) > 1)
      <4>1. q.step = "missed" /\ was # <<>>
        <5>. HIDE DEF was, is
        <5>. QED  BY <1>4, <1>5, <3>1, <3>3
      <4>. QED  BY <1>1, <1>7, <2>3, <4>1
    <3>. QED  BY <3>2, <3>3
  <2>. QED  BY <2>2, <2>3
<1>9. ASSUME NEW o \in requests \ {q}, o.step = "missed", docs'[o.name] # <<>>
      PROVE  o.name \in raced'
  <2>1. CASE o.name # q.name
    BY <1>1, <1>2, <1>3, <1>7, <1>9, <2>1
  <2>2. CASE o.name = q.name /\ was # <<>>
    BY <1>1, <1>7, <1>9, <2>2
  <2>3. CASE o.name = q.name /\ was = <<>>
    <3>1. q.step = "missed"
      <4>1. is # <<>>
        BY <1>9, <2>3
      <4>2. was = <<>>
        BY <2>3
      <4>. HIDE DEF was, is
      <4>. QED  BY <1>4, <1>5, <4>1, <4>2
    <3>. QED  BY <1>1, <1>7, <1>9, <2>3, <3>1
  <2>. QED  BY <2>1, <2>2, <2>3
<1>10. ASSUME x.step = "missed"
       PROVE  q.new /\ is = <<>>
  <2>1. q.new /\ was = <<>> /\ is = was
    BY <1>10, Zenon DEF Outcome
  <2>. QED  BY <2>1
<1>11. ASSUME x.step = "missed", NEW o \in requests \ {q}, o.step = "missed", o.name = q.name
       PROVE  q.name \in raced'
  <2>1. Overlapping(q)
    BY <1>3, <1>11 DEF Overlapping
  <2>2. q.new
    BY <1>10, <1>11
  <2>. QED  BY <1>1, <2>1, <2>2
<1>12. ASSUME NEW y \in requests', y.step = "missed"
       PROVE  /\ docs'[y.name] # <<>> => y.name \in raced'
              /\ \A o \in requests' \ {y} : o.step = "missed" /\ o.name = y.name => y.name \in raced'
  <2>1. CASE y = x
    <3>1. docs'[y.name] = <<>>
      BY <1>2, <1>10, <1>12, <2>1
    <3>2. ASSUME NEW o \in requests' \ {y}, o.step = "missed", o.name = y.name
          PROVE  y.name \in raced'
      <4>1. o \in requests \ {q}
        BY <1>2, <2>1, <3>2
      <4>. QED  BY <1>2, <1>11, <1>12, <2>1, <3>2, <4>1
    <3>. QED  BY <3>1, <3>2
  <2>2. CASE y # x
    <3>1. y \in requests \ {q}
      BY <1>2, <2>2
    <3>2. docs'[y.name] # <<>> => y.name \in raced'
      BY <1>9, <1>12, <3>1
    <3>3. ASSUME NEW o \in requests' \ {y}, o.step = "missed", o.name = y.name
          PROVE  y.name \in raced'
      <4>1. CASE o = x
        BY <1>2, <1>11, <1>12, <3>1, <3>3, <4>1
      <4>2. CASE o # x
        <5>1. o \in requests
          BY <1>2, <4>2
        <5>. QED  BY <1>1, <1>7, <1>12, <3>1, <3>3, <5>1
      <4>. QED  BY <4>1, <4>2
    <3>. QED  BY <3>2, <3>3
  <2>. QED  BY <2>1, <2>2
<1>. QED  BY <1>8, <1>12 DEF UpsertsInv

\* Every step keeps one document of a name, unless upserts raced.
LEMMA UpsertsNext == StorageTypes /\ UpsertsInv /\ [StorageNext]_storageVars => UpsertsInv'
<1>. SUFFICES ASSUME StorageTypes, UpsertsInv, [StorageNext]_storageVars PROVE UpsertsInv'
  OBVIOUS
<1>1. StorageTypeOK /\ requests \subseteq Request
  BY DEF StorageTypes, StorageTypeOK
<1>2. \A p \in Pages : \A r \in DOMAIN rows[p] : Plain(rows[p][r].name.key) \in Names
  <2>1. ASSUME NEW p \in Pages, NEW r \in DOMAIN rows[p]
        PROVE  Plain(rows[p][r].name.key) \in Names
    <3>1. rows[p] \in Seq(Row)
      BY <1>1 DEF StorageTypeOK
    <3>2. rows[p][r] \in Row
      BY <3>1
    <3>. QED  BY <3>2, PlainName DEF Row, Names
  <2>. QED  BY <2>1
<1>3. ASSUME NEW p \in Pages, NEW r \in DOMAIN rows[p], NEW t \in Values, Edit(p, r, t)
      PROVE  UpsertsInv'
  <2>1. Post(p, FALSE, Plain(rows[p][r].name.key), t) /\ UNCHANGED <<docs, raced>>
    BY <1>3 DEF Edit
  <2>. QED  BY <1>1, <1>2, <2>1, UpsertsPosted
<1>4. ASSUME NEW p \in Pages, Undo(p) PROVE UpsertsInv'
  <2>. DEFINE r == elem[p].row
  <2>1. r \in DOMAIN rows[p] /\ elem[p].oldValue \in Values
    <3>1. rows[p] \in Seq(Row) /\ r \in 0 .. Len(rows[p]) /\ elem[p].oldValue \in Values
      BY <1>1 DEF StorageTypeOK
    <3>2. r # 0
      BY <1>4 DEF Undo
    <3>. QED  BY <3>1, <3>2
  <2>2. Post(p, FALSE, Plain(rows[p][r].name.key), elem[p].oldValue) /\ UNCHANGED <<docs, raced>>
    BY <1>4 DEF Undo, Undone
  <2>. QED  BY <1>1, <1>2, <2>1, <2>2, UpsertsPosted
<1>5. ASSUME NEW p \in Pages, Reload(p) PROVE UpsertsInv'
  <2>1. requests' = {IF q.page = p THEN [q EXCEPT !.lost = TRUE] ELSE q : q \in requests}
        /\ UNCHANGED <<docs, raced>>
    BY <1>5 DEF Reload
  <2>2. ASSUME NEW x \in requests'
        PROVE  \E q \in requests : /\ x = IF q.page = p THEN [q EXCEPT !.lost = TRUE] ELSE q
                                   /\ x.step = q.step /\ x.name = q.name
    <3>1. PICK q \in requests : x = IF q.page = p THEN [q EXCEPT !.lost = TRUE] ELSE q
      BY <2>1
    <3>2. q \in Request
      BY <1>1
    <3>3. CASE q.page = p
      BY <3>1, <3>2, <3>3, RequestLost
    <3>4. CASE q.page # p
      BY <3>1, <3>2, <3>4
    <3>. QED  BY <3>3, <3>4
  <2>3. ASSUME NEW x \in requests', NEW y \in requests', x # y, x.step = "missed",
               y.step = "missed", y.name = x.name
        PROVE  \E q, o \in requests : /\ q # o /\ q.step = "missed" /\ o.step = "missed"
                                      /\ q.name = x.name /\ o.name = x.name
    <3>1. PICK q \in requests : /\ x = IF q.page = p THEN [q EXCEPT !.lost = TRUE] ELSE q
                                /\ x.step = q.step /\ x.name = q.name
      BY <2>2
    <3>2. PICK o \in requests : /\ y = IF o.page = p THEN [o EXCEPT !.lost = TRUE] ELSE o
                                /\ y.step = o.step /\ y.name = o.name
      BY <2>2
    <3>3. q # o
      BY <2>3, <3>1, <3>2
    <3>. QED  BY <2>3, <3>1, <3>2, <3>3
  <2>. QED  BY <2>1, <2>2, <2>3, UpsertsKept
<1>6. ASSUME NEW p \in Pages, NEW n \in Names, NEW t \in Values, AddNew(p, n, t)
      PROVE  UpsertsInv'
  <2>1. Post(p, TRUE, n, t) /\ UNCHANGED <<docs, raced>>
    BY <1>6 DEF AddNew
  <2>. QED  BY <1>1, <2>1, UpsertsPosted
<1>7. ASSUME Serve PROVE UpsertsInv'
  <2>1. PICK q \in requests :
           /\ Refused(q) \/ Delete(q) \/ Replace(q) \/ Insert(q)
           /\ raced' = IF q.new /\ Overlapping(q) THEN raced \cup {q.name} ELSE raced
    BY <1>7 DEF Serve
  <2>2. PICK x \in Request : Outcome(q, x)
    BY <1>1, <2>1, ServeMoves
  <2>. QED  BY <1>1, <2>1, <2>2, UpsertsServed
<1>8. ASSUME Complete PROVE UpsertsInv'
  <2>1. requests' \subseteq requests /\ UNCHANGED <<docs, raced>>
    BY <1>8 DEF Complete
  <2>. QED  BY <2>1, UpsertsKept
<1>9. ASSUME UNCHANGED storageVars PROVE UpsertsInv'
  BY <1>9, UpsertsKept DEF storageVars
<1>. QED  BY <1>3, <1>4, <1>5, <1>6, <1>7, <1>8, <1>9 DEF StorageNext

-----------------------------------------------------------------------------
(* One call after the other.                                               *)

\* The entry that is in the form has a name.
LEMMA EntryName == \A e \in Entry : e.name \in Names /\ e.text \in Values
  BY DEF Entry

\* The names of a key.
LEMMA CallFields ==
    ASSUME StorageTypes, NEW q \in requests
    PROVE  /\ q \in Request /\ q.page \in Pages /\ q.name \in Names /\ q.name.key \in Keys
           /\ q.value \in Values /\ q.new \in BOOLEAN /\ q.lost \in BOOLEAN
  BY RequestFields DEF StorageTypes, StorageTypeOK

\* A call is made: of its key, or of a key that is not mixed, it is the only one.
LEMMA OneByOnePosted ==
    ASSUME StorageTypes, OneByOne, NEW p \in Pages, NEW new \in BOOLEAN, NEW name \in Names,
           NEW value \in Values, Post(p, new, name, value),
           IF new THEN entry' = [entry EXCEPT ![p] = [name |-> name, text |-> value]]
                  ELSE entry' = entry
    PROVE  OneByOne'
<1>1. StorageTypeOK /\ entry \in [Pages -> Entry \cup {NoEntry}] /\ writers \in [Keys -> SUBSET Pages]
  BY DEF StorageTypes, StorageTypeOK
<1>2. PICK x \in Request :
         /\ x.page = p /\ ~x.lost /\ x.new = new /\ x.name = name /\ x.value = value
         /\ x.step = "sent"
         /\ requests' = requests \cup {x}
  BY <1>1, PostMoves
<1>3. /\ writers' = [writers EXCEPT ![name.key] = @ \cup {p}]
      /\ mixed \subseteq mixed'
      /\ \A q \in requests :
            q.name.key = name.key \/ (new /\ q.new /\ q.page = p)
            => q.name.key \in mixed' /\ name.key \in mixed'
  BY <1>1, PostMoves
<1>4. name.key \in Keys
  BY DEF Names
<1>5. \A k \in Keys : writers[k] \subseteq writers'[k]
  BY <1>1, <1>3, <1>4
<1>6. p \in writers'[name.key]
  BY <1>1, <1>3, <1>4
<1>7. \A e \in Pages \ {p} : entry'[e] = entry[e]
  BY <1>1
<1>8. new => entry'[p] = [name |-> name, text |-> value]
  BY <1>1
<1>9. ~new => entry' = entry
  OBVIOUS
<1>10. SUFFICES ASSUME NEW k \in Keys
       PROVE  /\ \A q \in Calls(k)' :
                    /\ q.page \in writers'[k]
                    /\ q.new => entry'[q.page].name.key \in mixed' \cup {k}
              /\ k \notin mixed' =>
                    /\ \A q, o \in Calls(k)' : q = o
                    /\ \A q \in Calls(k)' :
                          ~q.lost /\ (q.new => entry'[q.page] = [name |-> q.name, text |-> q.value])
  BY DEF OneByOne
<1>11. /\ \A q \in Calls(k) : q.page \in writers[k]
       /\ \A q \in Calls(k) : q.new => entry[q.page].name.key \in mixed \cup {k}
       /\ k \notin mixed => \A q, o \in Calls(k) : q = o
       /\ k \notin mixed => \A q \in Calls(k) : ~q.lost
       /\ k \notin mixed => \A q \in Calls(k) :
             q.new => entry[q.page] = [name |-> q.name, text |-> q.value]
  BY Zenon DEF OneByOne
<1>12. \A q \in Calls(k)' : q.name.key = k /\ (q \in Calls(k) \/ q = x)
  BY <1>2 DEF Calls
<1>13. \A q \in Calls(k) : q \in requests /\ q.name.key = k /\ q.page \in Pages
  BY CallFields DEF Calls
<1>14. \A q \in Calls(k)' : q.page \in writers'[k]
  <2>1. SUFFICES ASSUME NEW q \in Calls(k)' PROVE q.page \in writers'[k]
    OBVIOUS
  <2>2. CASE q \in Calls(k)
    BY <1>5, <1>11, <2>2
  <2>3. CASE q = x
    BY <1>2, <1>6, <1>12, <2>3
  <2>. QED  BY <1>12, <2>2, <2>3
<1>15. ASSUME NEW q \in Calls(k)', q.new PROVE entry'[q.page].name.key \in mixed' \cup {k}
  <2>1. CASE q = x
    <3>1. new /\ q.page = p
      BY <1>2, <1>15, <2>1
    <3>2. entry'[q.page].name.key = name.key
      BY <1>8, <3>1
    <3>. QED  BY <1>2, <1>12, <2>1, <3>2
  <2>2. CASE q \in Calls(k) /\ (new => q.page # p)
    <3>1. entry'[q.page] = entry[q.page]
      BY <1>7, <1>9, <1>13, <2>2
    <3>2. entry[q.page].name.key \in mixed \cup {k}
      BY <1>11, <1>15, <2>2
    <3>. QED  BY <1>3, <3>1, <3>2
  <2>3. CASE q \in Calls(k) /\ new /\ q.page = p
    <3>1. name.key \in mixed'
      BY <1>3, <1>13, <1>15, <2>3
    <3>2. entry'[q.page].name.key = name.key
      BY <1>8, <2>3
    <3>. QED  BY <3>1, <3>2
  <2>. QED  BY <1>12, <2>1, <2>2, <2>3
<1>16. ASSUME k \notin mixed'
       PROVE  /\ \A q, o \in Calls(k)' : q = o
              /\ \A q \in Calls(k)' : ~q.lost
              /\ \A q \in Calls(k)' : q.new => entry'[q.page] = [name |-> q.name, text |-> q.value]
  <2>1. k \notin mixed
    BY <1>3, <1>16
  <2>2. CASE name.key = k
    <3>1. Calls(k) = {}
      BY <1>3, <1>13, <1>16, <2>2
    <3>2. \A q \in Calls(k)' : q = x
      BY <1>12, <3>1
    <3>3. x.new => entry'[x.page] = [name |-> x.name, text |-> x.value]
      BY <1>2, <1>8
    <3>. QED  BY <1>2, <3>2, <3>3
  <2>3. CASE name.key # k
    <3>1. \A q \in Calls(k)' : q \in Calls(k)
      BY <1>2, <1>12, <2>3
    <3>2. ASSUME NEW q \in Calls(k), q.new
          PROVE  entry'[q.page] = [name |-> q.name, text |-> q.value]
      <4>1. entry[q.page] = [name |-> q.name, text |-> q.value]
        BY <1>11, <2>1, <3>2
      <4>2. new => q.page # p
        BY <1>3, <1>13, <1>16, <3>2
      <4>3. entry'[q.page] = entry[q.page]
        BY <1>7, <1>9, <1>13, <4>2
      <4>. QED  BY <4>1, <4>3
    <3>. QED  BY <1>11, <2>1, <3>1, <3>2
  <2>. QED  BY <2>2, <2>3
<1>. QED  BY <1>14, <1>15, <1>16

\* A step after which the calls of each key are those before it, or fewer.
LEMMA OneByOneKept ==
    ASSUME OneByOne, UNCHANGED <<entry, mixed, writers>>,
           NEW f, \A x \in requests' :
              /\ f[x] \in requests /\ x.page = f[x].page /\ x.lost = f[x].lost /\ x.new = f[x].new
              /\ x.name = f[x].name /\ x.value = f[x].value,
           \A x, y \in requests' : f[x] = f[y] => x = y
    PROVE  OneByOne'
<1>1. SUFFICES ASSUME NEW k \in Keys
      PROVE  /\ \A q \in Calls(k)' :
                   /\ q.page \in writers[k]
                   /\ q.new => entry[q.page].name.key \in mixed \cup {k}
             /\ k \notin mixed =>
                   /\ \A q, o \in Calls(k)' : q = o
                   /\ \A q \in Calls(k)' :
                         ~q.lost /\ (q.new => entry[q.page] = [name |-> q.name, text |-> q.value])
  BY DEF OneByOne
<1>2. /\ \A q \in Calls(k) : q.page \in writers[k]
      /\ \A q \in Calls(k) : q.new => entry[q.page].name.key \in mixed \cup {k}
      /\ k \notin mixed => \A q, o \in Calls(k) : q = o
      /\ k \notin mixed => \A q \in Calls(k) : ~q.lost
      /\ k \notin mixed => \A q \in Calls(k) :
            q.new => entry[q.page] = [name |-> q.name, text |-> q.value]
  BY Zenon DEF OneByOne
<1>3. ASSUME NEW q \in Calls(k)'
      PROVE  /\ f[q] \in Calls(k) /\ q \in requests' /\ q.page = f[q].page /\ q.lost = f[q].lost
             /\ q.new = f[q].new /\ q.name = f[q].name /\ q.value = f[q].value
  BY DEF Calls
<1>4. ASSUME NEW q \in Calls(k)' PROVE q.page \in writers[k]
  BY <1>2, <1>3
<1>5. ASSUME NEW q \in Calls(k)', q.new PROVE entry[q.page].name.key \in mixed \cup {k}
  BY <1>2, <1>3, <1>5
<1>6. ASSUME k \notin mixed, NEW q \in Calls(k)', NEW o \in Calls(k)' PROVE q = o
  BY <1>2, <1>3, <1>6
<1>7. ASSUME k \notin mixed, NEW q \in Calls(k)' PROVE ~q.lost
  BY <1>2, <1>3, <1>7
<1>8. ASSUME k \notin mixed, NEW q \in Calls(k)', q.new
      PROVE  entry[q.page] = [name |-> q.name, text |-> q.value]
  BY <1>2, <1>3, <1>8
<1>. QED  BY <1>4, <1>5, <1>6, <1>7, <1>8

\* Initially there is no call.
LEMMA OneByOneInit == StorageInit => OneByOne
  BY DEF StorageInit, OneByOne, Calls

\* What an edit or an undo does to a cell and posts.
Sets(p, r, t) ==
    /\ r \in DOMAIN rows[p] /\ t \in Values
    /\ Plain(rows[p][r].name.key) \in Names
    /\ SetText(p, r, t)
    /\ Post(p, FALSE, Plain(rows[p][r].name.key), t)
    /\ UNCHANGED <<docs, entry, told>>

\* Edits and undos set a cell and post it.
LEMMA SetsByEditOrUndo ==
    ASSUME StorageTypes, NEW p \in Pages
    PROVE  /\ \A r \in DOMAIN rows[p] : \A t \in Values : Edit(p, r, t) => Sets(p, r, t)
           /\ Undo(p) => Sets(p, elem[p].row, elem[p].oldValue)
<1>1. /\ rows[p] \in Seq(Row) /\ elem[p].row \in 0 .. Len(rows[p]) /\ elem[p].oldValue \in Values
  BY DEF StorageTypes, StorageTypeOK
<1>2. ASSUME NEW r \in DOMAIN rows[p] PROVE Plain(rows[p][r].name.key) \in Names
  <2>1. rows[p][r] \in Row
    BY <1>1
  <2>. QED  BY <2>1, PlainName DEF Row, Names
<1>3. ASSUME NEW r \in DOMAIN rows[p], NEW t \in Values, Edit(p, r, t) PROVE Sets(p, r, t)
  BY <1>2, <1>3 DEF Edit, Sets
<1>4. ASSUME Undo(p) PROVE Sets(p, elem[p].row, elem[p].oldValue)
  <2>1. elem[p].row \in DOMAIN rows[p]
    BY <1>1, <1>4 DEF Undo
  <2>. QED  BY <1>1, <1>2, <1>4, <2>1 DEF Undo, Undone, Sets
<1>. QED  BY <1>3, <1>4

\* Calls about a key stay one after the other, unless the key is mixed.
LEMMA OneByOneNext == StorageTypes /\ OneByOne /\ [StorageNext]_storageVars => OneByOne'
<1>. SUFFICES ASSUME StorageTypes, OneByOne, [StorageNext]_storageVars PROVE OneByOne'
  OBVIOUS
<1>1. StorageTypeOK
  BY DEF StorageTypes
<1>2. ASSUME NEW p \in Pages, NEW r, NEW t, Sets(p, r, t) PROVE OneByOne'
  <2>. DEFINE name == Plain(rows[p][r].name.key)
  <2>1. name \in Names /\ t \in Values /\ Post(p, FALSE, name, t) /\ entry' = entry
    BY <1>2 DEF Sets
  <2>. HIDE DEF name
  <2>. QED  BY <2>1, OneByOnePosted
<1>3. ASSUME NEW p \in Pages, NEW r \in DOMAIN rows[p], NEW t \in Values, Edit(p, r, t)
      PROVE  OneByOne'
  BY <1>2, <1>3, SetsByEditOrUndo
<1>4. ASSUME NEW p \in Pages, Undo(p) PROVE OneByOne'
  BY <1>2, <1>4, SetsByEditOrUndo
<1>5. ASSUME NEW p \in Pages, NEW n \in Names, NEW t \in Values, AddNew(p, n, t)
      PROVE  OneByOne'
  <2>1. Post(p, TRUE, n, t) /\ entry' = [entry EXCEPT ![p] = [name |-> n, text |-> t]]
    BY <1>5 DEF AddNew
  <2>. QED  BY <2>1, OneByOnePosted
<1>6. ASSUME NEW p \in Pages, Reload(p) PROVE OneByOne'
  <2>1. /\ requests' = {IF q.page = p THEN [q EXCEPT !.lost = TRUE] ELSE q : q \in requests}
        /\ mixed' = mixed \cup {q.name.key : q \in requests}
        /\ UNCHANGED <<entry, writers>>
    BY <1>6 DEF Reload
  <2>2. ASSUME NEW x \in requests'
        PROVE  \E q \in requests : x.name = q.name /\ x.page = q.page /\ x.new = q.new
    <3>1. PICK q \in requests : x = IF q.page = p THEN [q EXCEPT !.lost = TRUE] ELSE q
      BY <2>1
    <3>2. q \in Request
      BY CallFields
    <3>3. CASE q.page = p
      BY <3>1, <3>2, <3>3, RequestLost
    <3>4. CASE q.page # p
      BY <3>1, <3>2, <3>4
    <3>. QED  BY <3>3, <3>4
  <2>3. \A x \in requests' : x.name.key \in mixed'
    BY <2>1, <2>2
  <2>4. ASSUME NEW k \in Keys, NEW x \in Calls(k)'
        PROVE  /\ k \in mixed' /\ x.page \in writers'[k]
               /\ x.new => entry'[x.page].name.key \in mixed' \cup {k}
    <3>1. x \in requests' /\ x.name.key = k
      BY <2>4 DEF Calls
    <3>2. PICK q \in requests : x.name = q.name /\ x.page = q.page /\ x.new = q.new
      BY <2>2, <3>1
    <3>3. q \in Calls(k)
      BY <3>1, <3>2 DEF Calls
    <3>4. q.page \in writers[k] /\ (q.new => entry[q.page].name.key \in mixed \cup {k})
      BY <3>3, Zenon DEF OneByOne
    <3>. QED  BY <2>1, <2>3, <3>1, <3>2, <3>4
  <2>. QED  BY <2>4 DEF OneByOne
<1>7. ASSUME Serve PROVE OneByOne'
  <2>1. PICK q \in requests : Refused(q) \/ Delete(q) \/ Replace(q) \/ Insert(q)
    BY <1>7 DEF Serve
  <2>2. UNCHANGED <<entry, mixed, writers>>
    BY <1>7 DEF Serve
  <2>3. PICK x \in Request : Outcome(q, x)
    BY <1>1, <2>1, ServeMoves
  <2>. DEFINE f == [y \in requests' |-> IF y \in requests \ {q} THEN y ELSE q]
  <2>4. /\ requests' = (requests \ {q}) \cup {x}
        /\ x.page = q.page /\ x.lost = q.lost /\ x.new = q.new
        /\ x.name = q.name /\ x.value = q.value
    BY <2>3 DEF Outcome
  <2>5. \A y \in requests' :
           /\ f[y] \in requests /\ y.page = f[y].page /\ y.lost = f[y].lost /\ y.new = f[y].new
           /\ y.name = f[y].name /\ y.value = f[y].value
    BY <2>4
  <2>6. \A y, z \in requests' : f[y] = f[z] => y = z
    BY <2>4
  <2>. HIDE DEF f
  <2>. QED  BY <2>2, <2>5, <2>6, OneByOneKept
<1>8. ASSUME Complete \/ UNCHANGED storageVars PROVE OneByOne'
  <2>1. requests' \subseteq requests /\ UNCHANGED <<entry, mixed, writers>>
    BY <1>8 DEF Complete, storageVars
  <2>. DEFINE f == [y \in requests' |-> y]
  <2>2. \A y \in requests' :
           /\ f[y] \in requests /\ y.page = f[y].page /\ y.lost = f[y].lost /\ y.new = f[y].new
           /\ y.name = f[y].name /\ y.value = f[y].value
    BY <2>1
  <2>3. \A y, z \in requests' : f[y] = f[z] => y = z
    OBVIOUS
  <2>. HIDE DEF f
  <2>. QED  BY <2>1, <2>2, <2>3, OneByOneKept
<1>. QED  BY <1>3, <1>4, <1>5, <1>6, <1>7, <1>8 DEF StorageNext

-----------------------------------------------------------------------------
(* What a page shows is what is stored.                                    *)

\* A page that is loaded shows what is stored.
LEMMA ListingShows ==
    ASSUME NEW ds \in [Names -> Seq(Texts)], NEW k,
           \A i, j \in DOMAIN Listing(ds) :
              Listing(ds)[i].name.key = k /\ Listing(ds)[j].name.key = k => i = j
    PROVE  \A n \in Called(k) :
              IF \E i \in DOMAIN Listing(ds) : Listing(ds)[i].name = n
              THEN \A i \in DOMAIN Listing(ds) :
                      Listing(ds)[i].name.key = k => ds[n] = Content(Listing(ds)[i].text)
              ELSE ds[n] = <<>>
<1>. DEFINE l == Listing(ds)
<1>1. l \in Seq(Row) /\ DOMAIN l = 1 .. Len(l)
  BY ListingOf
<1>2. PICK of \in [1 .. Len(l) -> Documents(ds)] :
         /\ \A d \in Documents(ds) : \E i \in 1 .. Len(l) : of[i] = d
         /\ \A i \in 1 .. Len(l) : l[i].name = of[i][1] /\ l[i].text = ds[of[i][1]][of[i][2]]
  BY ListingOf
<1>. HIDE DEF l
<1>3. ASSUME NEW n \in Called(k)
      PROVE  /\ n \in Names /\ n.key = k /\ ds[n] \in Seq(Texts) /\ Len(ds[n]) \in Nat
             /\ DOMAIN ds[n] = 1 .. Len(ds[n])
  BY <1>3 DEF Called
<1>4. ASSUME NEW n \in Called(k), NEW j \in DOMAIN ds[n]
      PROVE  \E i \in DOMAIN l : of[i] = <<n, j>> /\ l[i].name = n
  <2>1. <<n, j>> \in Documents(ds)
    BY <1>3, <1>4 DEF Documents
  <2>2. PICK i \in 1 .. Len(l) : of[i] = <<n, j>>
    BY <1>2, <2>1
  <2>3. l[i].name = of[i][1] /\ i \in DOMAIN l
    BY <1>1, <1>2
  <2>4. <<n, j>>[1] = n
    OBVIOUS
  <2>. QED  BY <2>2, <2>3, <2>4
<1>5. ASSUME NEW n \in Called(k), NEW r \in DOMAIN l, l[r].name = n
      PROVE  ds[n] = Content(l[r].text)
  <2>1. of[r] \in Documents(ds)
    BY <1>1, <1>2
  <2>2. \A d \in Documents(ds) : \E m \in Names : \E j \in DOMAIN ds[m] : d = <<m, j>>
    BY DEF Documents
  <2>3. PICK m \in Names : \E j \in DOMAIN ds[m] : of[r] = <<m, j>>
    BY <2>1, <2>2
  <2>4. PICK j \in DOMAIN ds[m] : of[r] = <<m, j>>
    BY <2>3
  <2>5. m = n
    BY <1>1, <1>2, <1>5, <2>4
  <2>6. j \in DOMAIN ds[n] /\ l[r].text = ds[n][j]
    BY <1>1, <1>2, <2>4, <2>5
  <2>7. ASSUME NEW j2 \in DOMAIN ds[n] PROVE j2 = j
    <3>1. PICK i \in DOMAIN l : of[i] = <<n, j2>> /\ l[i].name = n
      BY <1>4
    <3>2. l[i].name.key = k /\ l[r].name.key = k
      BY <1>3, <1>5, <3>1
    <3>3. i = r
      BY <3>2 DEF l
    <3>. QED  BY <2>4, <2>5, <3>1, <3>3
  <2>8. Len(ds[n]) = 1 /\ j = 1
    <3>. DEFINE m2 == Len(ds[n])
    <3>1. 1 .. m2 = {j} /\ m2 \in Nat
      BY <1>3, <2>6, <2>7
    <3>. HIDE DEF m2
    <3>2. m2 >= 1
      <4>1. j \in 1 .. m2
        BY <3>1
      <4>. QED  BY <3>1, <4>1
    <3>3. m2 = j /\ 1 = j
      BY <3>1, <3>2
    <3>. QED  BY <3>3 DEF m2
  <2>9. ds[n][1] \in Texts
    BY <1>3, <2>8
  <2>10. ds[n] = <<ds[n][1]>>
    BY <1>3, <2>8
  <2>11. l[r].text # Empty
    BY <2>6, <2>8, <2>9, DataStorageAssumption
  <2>. QED  BY <2>6, <2>8, <2>10, <2>11 DEF Content
<1>6. ASSUME NEW n \in Called(k)
      PROVE  IF \E i \in DOMAIN l : l[i].name = n
             THEN \A i \in DOMAIN l : l[i].name.key = k => ds[n] = Content(l[i].text)
             ELSE ds[n] = <<>>
  <2>1. CASE \E i \in DOMAIN l : l[i].name = n
    <3>1. PICK r \in DOMAIN l : l[r].name = n
      BY <2>1
    <3>2. \A i \in DOMAIN l : l[i].name.key = k => i = r
      BY <1>3, <3>1 DEF l
    <3>. QED  BY <1>5, <2>1, <3>1, <3>2
  <2>2. CASE ~ \E i \in DOMAIN l : l[i].name = n
    <3>1. \A j \in DOMAIN ds[n] : FALSE
      BY <1>4, <2>2
    <3>2. Len(ds[n]) = 0
      <4>. DEFINE m == Len(ds[n])
      <4>1. m \in Nat /\ \A j \in 1 .. m : FALSE
        BY <1>3, <3>1
      <4>. HIDE DEF m
      <4>2. m = 0
        BY <4>1
      <4>. QED  BY <4>2 DEF m
    <3>. QED  BY <1>3, <2>2, <3>2
  <2>. QED  BY <2>1, <2>2
<1>. QED  BY <1>6 DEF l

\* Initially the pages are loaded.
LEMMA ShownInit == StorageInit => ShownInv
<1>. SUFFICES ASSUME StorageInit, NEW p \in Pages, NEW k \in Keys, OneRow(p, k)
     PROVE  Calls(k) = {} /\ Shows(p, k)
  BY DEF ShownInv, ShownAt
<1>1. Calls(k) = {}
  BY DEF StorageInit, Calls
<1>2. docs \in [Names -> Seq(Texts)] /\ rows[p] = Listing(docs)
  BY StorageTypesInit DEF StorageTypes, StorageTypeOK, StorageInit
<1>3. \A i, j \in DOMAIN Listing(docs) :
         Listing(docs)[i].name.key = k /\ Listing(docs)[j].name.key = k => i = j
  BY <1>2 DEF OneRow, RowsOf
<1>4. \A n \in Called(k) :
         IF \E i \in DOMAIN rows[p] : rows[p][i].name = n
         THEN \A i \in DOMAIN rows[p] :
                 rows[p][i].name.key = k => docs[n] = Content(rows[p][i].text)
         ELSE docs[n] = <<>>
  BY <1>2, <1>3, ListingShows
<1>5. \A n \in Called(k) :
         (\E i \in DOMAIN rows[p] : rows[p][i].name = n) <=> (\E i \in RowsOf(p, k) : rows[p][i].name = n)
  BY DEF Called, RowsOf
<1>6. Shows(p, k)
  BY <1>4, <1>5 DEF Shows, RowsOf
<1>. QED  BY <1>1, <1>6

\* The rows of a key have its names.
LEMMA RowFields ==
    ASSUME StorageTypes, NEW p \in Pages, NEW k, NEW r \in RowsOf(p, k)
    PROVE  /\ r \in DOMAIN rows[p] /\ rows[p][r] \in Row /\ rows[p][r].name \in Called(k)
           /\ rows[p][r].text \in Values /\ rows[p][r].name.key = k
<1>1. rows[p] \in Seq(Row) /\ r \in DOMAIN rows[p] /\ rows[p][r].name.key = k
  BY DEF RowsOf, StorageTypes, StorageTypeOK
<1>2. rows[p][r] \in Row
  BY <1>1
<1>. QED  BY <1>1, <1>2 DEF Row, Called

\* The rows of a key are what they were, by their names and texts.
SameRows(p, k) ==
    /\ RowsOf(p, k)' = RowsOf(p, k)
    /\ \A r \in RowsOf(p, k) : rows'[p][r].name = rows[p][r].name /\ rows'[p][r].text = rows[p][r].text

\* A step that changes neither the rows of a key, nor its documents, nor its calls.
LEMMA ShownKept ==
    ASSUME StorageTypes, NEW p \in Pages, NEW k \in Keys, ShownAt(p, k), SameRows(p, k),
           \A n \in Called(k) : docs'[n] = docs[n],
           Calls(k)' = Calls(k), Orderly(p, k)' => Orderly(p, k)
    PROVE  ShownAt(p, k)'
<1>. SUFFICES ASSUME Orderly(p, k)', OneRow(p, k)'
     PROVE  /\ Calls(k)' = {} => Shows(p, k)'
            /\ \A q \in Calls(k)' :
                  IF q.new THEN RowsOf(p, k)' = {} => AddUnderway(q)' ELSE EditUnderway(p, q)'
  BY DEF ShownAt
<1>1. /\ RowsOf(p, k)' = RowsOf(p, k)
      /\ \A r \in RowsOf(p, k) : rows'[p][r].name = rows[p][r].name
      /\ \A r \in RowsOf(p, k) : rows'[p][r].text = rows[p][r].text
  BY DEF SameRows
<1>2. OneRow(p, k)
  BY <1>1 DEF OneRow
<1>3. /\ Calls(k) = {} => Shows(p, k)
      /\ \A q \in Calls(k) :
            IF q.new THEN RowsOf(p, k) = {} => AddUnderway(q) ELSE EditUnderway(p, q)
  BY <1>2 DEF ShownAt
<1>4. Shows(p, k) => Shows(p, k)'
  BY <1>1 DEF Shows, Called
<1>5. ASSUME NEW q \in Calls(k), q.new, RowsOf(p, k) = {} PROVE AddUnderway(q)'
  <2>1. AddUnderway(q)
    BY <1>3, <1>5
  <2>2. q.name.key = k
    BY DEF Calls
  <2>. QED  BY <2>1, <2>2 DEF AddUnderway, Called
<1>6. ASSUME NEW q \in Calls(k), ~q.new PROVE EditUnderway(p, q)'
  <2>1. EditUnderway(p, q)
    BY <1>3, <1>6
  <2>2. q.name.key = k
    BY DEF Calls
  <2>3. PICK r \in RowsOf(p, k) :
           /\ rows[p][r].text = q.value
           /\ q.name = Plain(k)
           /\ Len(docs[rows[p][r].name]) <= 1
           /\ \A n \in Called(k) : n # rows[p][r].name => docs[n] = <<>>
           /\ q.step = "saved" => Shows(p, k)
    BY <2>1, <2>2 DEF EditUnderway
  <2>4. rows'[p][r].name = rows[p][r].name /\ rows'[p][r].text = rows[p][r].text
        /\ r \in RowsOf(p, k)'
    BY <1>1
  <2>5. rows[p][r].name \in Called(k)
    BY RowFields
  <2>6. Len(docs'[rows'[p][r].name]) <= 1
    BY <2>3, <2>4, <2>5
  <2>7. \A n \in Called(k) : n # rows'[p][r].name => docs'[n] = <<>>
    BY <2>3, <2>4
  <2>8. q.step = "saved" => Shows(p, k)'
    BY <1>4, <2>3
  <2>. QED  BY <2>2, <2>3, <2>4, <2>6, <2>7, <2>8 DEF EditUnderway, Called
<1>. QED  BY <1>1, <1>3, <1>4, <1>5, <1>6

\* Only who has posted a key is told what becomes of it.
LEMMA NotMine ==
    ASSUME StorageTypes, NEW p \in Pages, NEW new \in BOOLEAN, NEW name \in Names,
           NEW value \in Values, Post(p, new, name, value), told' = told,
           NEW key, key = name.key
    PROVE  /\ \A o \in Pages : \A k \in Keys : Orderly(o, k)' => Orderly(o, k)
           /\ \A o \in Pages : Orderly(o, key)' => o = p /\ Calls(key) = {}
<1>1. /\ writers' = [writers EXCEPT ![name.key] = @ \cup {p}]
      /\ mixed \subseteq mixed'
      /\ \A q \in requests :
            q.name.key = name.key \/ (new /\ q.new /\ q.page = p)
            => q.name.key \in mixed' /\ name.key \in mixed'
  BY PostMoves DEF StorageTypes
<1>2. name.key \in Keys /\ writers \in [Keys -> SUBSET Pages]
  BY DEF Names, StorageTypes, StorageTypeOK
<1>3. p \in writers'[name.key] /\ \A k \in Keys : writers[k] \subseteq writers'[k]
  BY <1>1, <1>2
<1>4. \A o \in Pages : \A k \in Keys : Orderly(o, k)' => Orderly(o, k)
  BY <1>1, <1>3 DEF Orderly
<1>5. ASSUME NEW o \in Pages, Orderly(o, key)' PROVE o = p /\ Calls(key) = {}
  <2>1. o = p
    BY <1>3, <1>5 DEF Orderly
  <2>2. key \notin mixed'
    BY <1>5 DEF Orderly
  <2>3. Calls(key) = {}
    BY <1>1, <2>2 DEF Calls
  <2>. QED  BY <2>1, <2>3
<1>. QED  BY <1>4, <1>5

\* A call that is made is one of its key.
LEMMA CallsWith ==
    ASSUME NEW x, requests' = requests \cup {x}, NEW key, key = x.name.key
    PROVE  /\ Calls(key)' = Calls(key) \cup {x}
           /\ \A k \in Keys \ {key} : Calls(k)' = Calls(k)
<1>1. Calls(key)' = Calls(key) \cup {x}
  BY DEF Calls
<1>2. \A k \in Keys \ {key} : Calls(k)' = Calls(k)
  BY DEF Calls
<1>. QED  BY <1>1, <1>2

\* A cell that is set shows what its call has still to store.
LEMMA ShownSet ==
    ASSUME StorageTypes, ShownInv, NEW o \in Pages, NEW r, NEW t, Sets(o, r, t)
    PROVE  ShownInv'
<1>. PICK key : key = rows[o][r].name.key
  OBVIOUS
<1>. DEFINE name == Plain(key)
<1>1. /\ r \in DOMAIN rows[o] /\ t \in Values /\ name \in Names
      /\ SetText(o, r, t) /\ Post(o, FALSE, name, t) /\ UNCHANGED <<docs, entry, told>>
  BY DEF Sets
<1>2. /\ rows \in [Pages -> Seq(Row)] /\ docs \in [Names -> Seq(Texts)]
      /\ rows[o] \in Seq(Row) /\ rows[o][r] \in Row
  BY <1>1 DEF StorageTypes, StorageTypeOK
<1>3. rows[o][r].name \in Names /\ key \in Keys /\ name.key = key
  BY <1>2 DEF Row, Names, Plain
<1>4. /\ rows' \in [Pages -> Seq(Row)]
      /\ \A x \in Pages \ {o} : rows'[x] = rows[x]
      /\ DOMAIN rows'[o] = DOMAIN rows[o]
      /\ \A i \in DOMAIN rows[o] : rows'[o][i].name = rows[o][i].name
      /\ rows'[o][r].text = t
      /\ \A i \in DOMAIN rows[o] \ {r} : rows'[o][i] = rows[o][i]
  BY <1>1, <1>2, SetTextMoves
<1>5. PICK x :
         /\ ~x.new /\ x.name = name /\ x.value = t /\ x.step = "sent"
         /\ Calls(key)' = Calls(key) \cup {x}
         /\ \A k \in Keys \ {key} : Calls(k)' = Calls(k)
  <2>. HIDE DEF name
  <2>. DEFINE x == [n |-> sent + 1, page |-> o, lost |-> FALSE, new |-> FALSE, name |-> name,
                    value |-> t, step |-> "sent"]
  <2>1. requests' = requests \cup {x}
    BY <1>1 DEF Post
  <2>2. ~x.new /\ x.name = name /\ x.value = t /\ x.step = "sent"
    OBVIOUS
  <2>. HIDE DEF x
  <2>3. Calls(key)' = Calls(key) \cup {x} /\ \A k \in Keys \ {key} : Calls(k)' = Calls(k)
    BY <1>3, <2>1, <2>2, CallsWith
  <2>. QED  BY <2>2, <2>3
<1>6. /\ \A p \in Pages : \A k \in Keys : Orderly(p, k)' => Orderly(p, k)
      /\ \A p \in Pages : Orderly(p, key)' => p = o /\ Calls(key) = {}
  <2>. HIDE DEF name
  <2>. QED  BY <1>1, <1>3, NotMine
<1>. SUFFICES ASSUME NEW p \in Pages, NEW k \in Keys PROVE ShownAt(p, k)'
  BY DEF ShownInv
<1>7. ShownAt(p, k)
  BY DEF ShownInv
<1>8. CASE k # key
  <2>1. SameRows(p, k)
    <3>1. \A i \in RowsOf(p, k) : ~(p = o /\ i = r)
      BY <1>8 DEF RowsOf
    <3>2. RowsOf(p, k)' = RowsOf(p, k)
      <4>1. CASE p = o
        BY <1>4, <4>1 DEF RowsOf
      <4>2. CASE p # o
        BY <1>4, <4>2 DEF RowsOf
      <4>. QED  BY <4>1, <4>2
    <3>3. \A i \in RowsOf(p, k) : rows'[p][i] = rows[p][i]
      <4>1. CASE p = o
        BY <1>4, <3>1, <4>1 DEF RowsOf
      <4>2. CASE p # o
        BY <1>4, <4>2 DEF RowsOf
      <4>. QED  BY <4>1, <4>2
    <3>. QED  BY <3>2, <3>3 DEF SameRows
  <2>2. Calls(k)' = Calls(k) /\ \A n \in Called(k) : docs'[n] = docs[n]
    BY <1>1, <1>5, <1>8
  <2>. QED  BY <1>6, <1>7, <2>1, <2>2, ShownKept
<1>9. CASE k = key /\ Orderly(p, k)' /\ OneRow(p, k)'
  <2>1. p = o /\ Calls(k) = {} /\ Orderly(p, k)
    BY <1>6, <1>9
  <2>2. RowsOf(p, k)' = RowsOf(p, k) /\ r \in RowsOf(p, k)
    BY <1>1, <1>4, <1>9, <2>1 DEF RowsOf
  <2>3. OneRow(p, k) /\ \A i \in RowsOf(p, k) : i = r
    BY <1>9, <2>2 DEF OneRow
  <2>4. Shows(p, k)
    BY <1>7, <2>1, <2>3 DEF ShownAt
  <2>. DEFINE m == rows[p][r].name
  <2>5. m \in Called(k) /\ rows'[p][r].name = m /\ rows'[p][r].text = t
    BY <1>1, <1>3, <1>4, <1>9, <2>1 DEF Called
  <2>6. docs[m] = Content(rows[p][r].text)
    BY <2>2, <2>5, <2>4 DEF Shows
  <2>7. Len(docs'[m]) <= 1
    <3>1. Len(<<>>) <= 1 /\ Len(<<rows[p][r].text>>) <= 1
      OBVIOUS
    <3>2. docs'[m] = <<>> \/ docs'[m] = <<rows[p][r].text>>
      BY <1>1, <2>6 DEF Content
    <3>. QED  BY <3>1, <3>2, Zenon
  <2>8. ASSUME NEW n \in Called(k), n # m PROVE docs'[n] = <<>>
    <3>1. ~ \E i \in RowsOf(p, k) : rows[p][i].name = n
      BY <2>3, <2>8
    <3>. QED  BY <1>1, <2>4, <2>8, <3>1 DEF Shows
  <2>9. EditUnderway(p, x)'
    <3>1. x.name.key = k /\ x.name = Plain(k) /\ x.value = t /\ x.step # "saved"
      BY <1>3, <1>5, <1>9
    <3>. HIDE DEF m
    <3>. QED  BY <2>2, <2>5, <2>7, <2>8, <3>1 DEF EditUnderway, Called
  <2>10. Calls(k)' = {x} /\ ~x.new
    <3>1. ~x.new
      BY <1>5
    <3>2. Calls(k)' = {x}
      BY <1>5, <1>9, <2>1
    <3>. QED  BY <3>1, <3>2
  <2>. QED  BY <2>9, <2>10 DEF ShownAt
<1>10. CASE ~Orderly(p, k)' \/ ~OneRow(p, k)'
  BY <1>10 DEF ShownAt
<1>. QED  BY <1>8, <1>9, <1>10

\* An entry that is added has no row yet.
LEMMA ShownAdded ==
    ASSUME StorageTypes, ShownInv, NEW o \in Pages, NEW name \in Names, NEW t \in Values,
           AddNew(o, name, t)
    PROVE  ShownInv'
<1>. DEFINE key == name.key
<1>1. Post(o, TRUE, name, t) /\ UNCHANGED <<docs, rows, told>>
  BY DEF AddNew
<1>2. key \in Keys
  BY DEF Names
<1>3. PICK x :
         /\ x.new /\ x.name = name /\ x.value = t /\ x.step = "sent"
         /\ Calls(key)' = Calls(key) \cup {x}
         /\ \A k \in Keys \ {key} : Calls(k)' = Calls(k)
  <2>. DEFINE x == [n |-> sent + 1, page |-> o, lost |-> FALSE, new |-> TRUE, name |-> name,
                    value |-> t, step |-> "sent"]
  <2>1. requests' = requests \cup {x}
    BY <1>1 DEF Post
  <2>2. x.new /\ x.name = name /\ x.value = t /\ x.step = "sent"
    OBVIOUS
  <2>. HIDE DEF x
  <2>3. Calls(key)' = Calls(key) \cup {x} /\ \A k \in Keys \ {key} : Calls(k)' = Calls(k)
    BY <1>2, <2>1, <2>2, CallsWith
  <2>. QED  BY <2>2, <2>3
<1>4. /\ \A p \in Pages : \A k \in Keys : Orderly(p, k)' => Orderly(p, k)
      /\ \A p \in Pages : Orderly(p, key)' => p = o /\ Calls(key) = {}
  BY <1>1, NotMine
<1>. SUFFICES ASSUME NEW p \in Pages, NEW k \in Keys PROVE ShownAt(p, k)'
  BY DEF ShownInv
<1>5. ShownAt(p, k)
  BY DEF ShownInv
<1>6. CASE k # key
  <2>1. SameRows(p, k)
    BY <1>1 DEF SameRows, RowsOf
  <2>2. Calls(k)' = Calls(k) /\ \A n \in Called(k) : docs'[n] = docs[n]
    BY <1>1, <1>3, <1>6
  <2>. QED  BY <1>4, <1>5, <2>1, <2>2, ShownKept
<1>7. CASE k = key /\ Orderly(p, k)' /\ OneRow(p, k)'
  <2>1. Calls(k) = {} /\ Orderly(p, k)
    BY <1>4, <1>7
  <2>2. RowsOf(p, k)' = RowsOf(p, k) /\ OneRow(p, k)
    BY <1>1, <1>7 DEF RowsOf, OneRow
  <2>3. Shows(p, k)
    BY <1>5, <2>1, <2>2 DEF ShownAt
  <2>4. x.name.key = k /\ x.step = "sent" /\ x.new /\ Calls(k)' = {x}
    BY <1>3, <1>7, <2>1
  <2>5. RowsOf(p, k)' = {} => AddUnderway(x)'
    <3>1. SUFFICES ASSUME RowsOf(p, k) = {} PROVE AddUnderway(x)'
      BY <2>2
    <3>2. \A n \in Called(k) : docs'[n] = <<>>
      BY <1>1, <2>3, <3>1 DEF Shows
    <3>. QED  BY <2>4, <3>2 DEF AddUnderway, Called
  <2>. QED  BY <2>4, <2>5 DEF ShownAt
<1>8. CASE ~Orderly(p, k)' \/ ~OneRow(p, k)'
  BY <1>8 DEF ShownAt
<1>. QED  BY <1>6, <1>7, <1>8

\* A page that is loaded again shows what is stored, and what was going on is mixed.
LEMMA ShownReloaded ==
    ASSUME StorageTypes, ShownInv, NEW o \in Pages, Reload(o)
    PROVE  ShownInv'
<1>1. /\ rows' = [rows EXCEPT ![o] = Listing(docs)]
      /\ requests' = {IF q.page = o THEN [q EXCEPT !.lost = TRUE] ELSE q : q \in requests}
      /\ mixed' = mixed \cup {q.name.key : q \in requests}
      /\ UNCHANGED <<docs, writers, told>>
  BY DEF Reload
<1>2. rows \in [Pages -> Seq(Row)] /\ docs \in [Names -> Seq(Texts)]
  BY DEF StorageTypes, StorageTypeOK
<1>. SUFFICES ASSUME NEW p \in Pages, NEW k \in Keys, Orderly(p, k)', OneRow(p, k)'
     PROVE  Calls(k)' = {} /\ Shows(p, k)'
  BY DEF ShownInv, ShownAt
<1>3. Calls(k) = {} /\ Orderly(p, k)
  BY <1>1 DEF Orderly, Calls
<1>4. Calls(k)' = {}
  <2>1. ASSUME NEW x \in requests' PROVE x.name.key # k
    <3>1. PICK q \in requests : x = IF q.page = o THEN [q EXCEPT !.lost = TRUE] ELSE q
      BY <1>1
    <3>2. q \in Request /\ q.name.key # k
      BY <1>3, CallFields DEF Calls
    <3>3. CASE q.page = o
      BY <3>1, <3>2, <3>3, RequestLost
    <3>4. CASE q.page # o
      BY <3>1, <3>2, <3>4
    <3>. QED  BY <3>3, <3>4
  <2>. QED  BY <2>1 DEF Calls
<1>5. CASE p # o
  <2>1. rows'[p] = rows[p]
    BY <1>1, <1>2, <1>5
  <2>2. RowsOf(p, k)' = RowsOf(p, k)
    BY <2>1 DEF RowsOf
  <2>3. OneRow(p, k)
    BY <2>2 DEF OneRow
  <2>4. Shows(p, k)
    BY <1>3, <2>3 DEF ShownInv, ShownAt
  <2>5. Shows(p, k)'
    BY <1>1, <2>1, <2>2, <2>4 DEF Shows, Called
  <2>. QED  BY <1>4, <2>5
<1>6. CASE p = o
  <2>1. rows'[p] = Listing(docs)
    BY <1>1, <1>2, <1>6
  <2>2. \A i, j \in DOMAIN Listing(docs) :
           Listing(docs)[i].name.key = k /\ Listing(docs)[j].name.key = k => i = j
    BY <2>1 DEF OneRow, RowsOf
  <2>3. \A n \in Called(k) :
           IF \E i \in DOMAIN rows'[p] : rows'[p][i].name = n
           THEN \A i \in DOMAIN rows'[p] :
                   rows'[p][i].name.key = k => docs[n] = Content(rows'[p][i].text)
           ELSE docs[n] = <<>>
    <3>1. \A n \in Called(k) :
             IF \E i \in DOMAIN Listing(docs) : Listing(docs)[i].name = n
             THEN \A i \in DOMAIN Listing(docs) :
                     Listing(docs)[i].name.key = k => docs[n] = Content(Listing(docs)[i].text)
             ELSE docs[n] = <<>>
      BY <1>2, <2>2, ListingShows
    <3>. QED  BY <2>1, <3>1
  <2>4. \A n \in Called(k) :
           (\E i \in DOMAIN rows'[p] : rows'[p][i].name = n)
           <=> (\E i \in RowsOf(p, k)' : rows'[p][i].name = n)
    BY DEF Called, RowsOf
  <2>5. Shows(p, k)'
    BY <1>1, <2>3, <2>4 DEF Shows, RowsOf, Called
  <2>. QED  BY <1>4, <2>5
<1>. QED  BY <1>5, <1>6

\* An edit that is served.
LEMMA EditServed ==
    ASSUME StorageTypes, NEW q \in requests, NEW x \in Request, Outcome(q, x), ~q.new,
           NEW p \in Pages, OneRow(p, q.name.key), EditUnderway(p, q), UNCHANGED rows
    PROVE  EditUnderway(p, x)'
<1>. PICK k \in Keys : k = q.name.key
  BY CallFields
<1>1. PICK r \in RowsOf(p, k) :
         /\ rows[p][r].text = q.value
         /\ q.name = Plain(k)
         /\ Len(docs[rows[p][r].name]) <= 1
         /\ \A n \in Called(k) : n # rows[p][r].name => docs[n] = <<>>
  BY DEF EditUnderway
<1>. DEFINE m == rows[p][r].name
            was == docs[q.name]
            is == docs'[q.name]
<1>2. m \in Called(k) /\ m \in Names /\ q.name \in Names /\ q.name \in Called(k)
  BY RowFields, CallFields DEF Called
<1>3. docs \in [Names -> Seq(Texts)] /\ docs' \in [Names -> Seq(Texts)]
  BY DEF Outcome, StorageTypes, StorageTypeOK
<1>4. /\ was \in Seq(Texts) /\ Len(was) \in Nat /\ is \in Seq(Texts) /\ Len(is) \in Nat
      /\ is = <<>> <=> Len(is) = 0
      /\ was = <<>> <=> Len(was) = 0
  BY <1>2, <1>3
<1>5. /\ x.name = q.name /\ x.value = q.value
      /\ \A n \in Names \ {q.name} : docs'[n] = docs[n]
      /\ \/ x.step # "saved" /\ is = was
         \/ x.step = "saved" /\ q.value = Empty /\ Len(was) > 0 /\ Len(is) = Len(was) - 1
         \/ /\ x.step = "saved" /\ q.value # Empty
            /\ Len(was) > 0 /\ Len(is) = Len(was) /\ (Len(was) = 1 => is = <<q.value>>)
  BY Zenon DEF Outcome
<1>6. CASE x.step # "saved"
  <2>1. is = was
    BY <1>5, <1>6
  <2>2. \A n \in Names : docs'[n] = docs[n]
    BY <1>5, <2>1
  <2>. HIDE DEF m, is, was
  <2>3. Len(docs'[m]) <= 1 /\ \A n \in Called(k) : n # m => docs'[n] = <<>>
    BY <1>1, <1>2, <2>2 DEF Called, m
  <2>. QED  BY <1>1, <1>5, <1>6, <2>3 DEF EditUnderway, RowsOf, Called, m
<1>7. CASE x.step = "saved"
  <2>1. Len(was) > 0 /\ was # <<>>
    BY <1>4, <1>5, <1>7
  <2>2. q.name = m
    BY <1>1, <1>2, <2>1
  <2>3. Len(was) = 1
    <3>1. Len(was) <= 1
      BY <1>1, <2>2
    <3>2. Len(was) \in Nat /\ Len(was) > 0
      BY <1>4, <2>1
    <3>. DEFINE v == Len(was)
    <3>. HIDE DEF was
    <3>3. v \in Nat /\ v > 0 /\ v <= 1
      BY <3>1, <3>2
    <3>. HIDE DEF v
    <3>4. v = 1
      BY <3>3
    <3>. QED  BY <3>4 DEF v
  <2>4. is = Content(q.value)
    <3>1. CASE q.value = Empty
      <4>1. Len(is) = 0
        <5>1. Len(is) = Len(was) - 1
          BY <1>5, <1>7, <3>1
        <5>. HIDE DEF was, is
        <5>. QED  BY <1>4, <2>3, <5>1
      <4>. QED  BY <1>4, <3>1, <4>1 DEF Content
    <3>2. CASE q.value # Empty
      BY <1>5, <1>7, <2>3, <3>2 DEF Content
    <3>. QED  BY <3>1, <3>2
  <2>5. Len(docs'[m]) <= 1
    <3>1. Len(<<>>) <= 1 /\ Len(<<q.value>>) <= 1
      OBVIOUS
    <3>2. docs'[m] = <<>> \/ docs'[m] = <<q.value>>
      BY <2>2, <2>4 DEF Content
    <3>. QED  BY <3>1, <3>2, Zenon
  <2>6. \A n \in Called(k) : n # m => docs'[n] = <<>>
    BY <1>1, <1>5, <2>2 DEF Called
  <2>7. \A i \in RowsOf(p, k) : i = r
    BY DEF OneRow
  <2>8. Shows(p, k)'
    <3>1. SUFFICES ASSUME NEW n \in Called(k)
          PROVE  IF \E i \in RowsOf(p, k) : rows[p][i].name = n
                 THEN \A i \in RowsOf(p, k) : docs'[n] = Content(rows[p][i].text)
                 ELSE docs'[n] = <<>>
      BY DEF Shows, RowsOf, Called
    <3>2. CASE n = m
      BY <1>1, <2>2, <2>4, <2>7, <3>2
    <3>3. CASE n # m
      BY <2>6, <2>7, <3>3
    <3>. QED  BY <3>2, <3>3
  <2>. HIDE DEF m
  <2>9. r \in RowsOf(p, k)' /\ rows'[p][r].text = x.value /\ x.name = Plain(k) /\ rows'[p][r].name = m
    BY <1>1, <1>5 DEF RowsOf, m
  <2>. QED  BY <1>5, <2>5, <2>6, <2>8, <2>9 DEF EditUnderway, Called
<1>. QED  BY <1>6, <1>7

\* An added entry that is served.
LEMMA AddServed ==
    ASSUME StorageTypes, NEW q \in requests, NEW x \in Request, Outcome(q, x), AddUnderway(q)
    PROVE  AddUnderway(x)'
<1>. PICK k \in Keys : k = q.name.key
  BY CallFields
<1>. DEFINE was == docs[q.name]
            is == docs'[q.name]
<1>1. /\ x.name = q.name /\ x.value = q.value
      /\ \A n \in Names \ {q.name} : docs'[n] = docs[n]
      /\ \/ q.step = "sent" /\ x.step = "failed"
         \/ q.step = "sent" /\ x.step = "missed" /\ is = was
         \/ q.step = "sent" /\ x.step = "saved" /\ Len(was) > 0
         \/ /\ q.step = "missed" /\ x.step = "saved" /\ q.value # Empty
            /\ is = Append(was, q.value)
  BY Zenon DEF Outcome
<1>2. /\ \A n \in Called(k) : n # q.name => docs[n] = <<>>
      /\ q.step \in {"sent", "missed"} => was = <<>>
  BY CallFields DEF AddUnderway, Called
<1>3. \A n \in Called(k) : n # x.name => docs'[n] = <<>>
  BY <1>1, <1>2 DEF Called
<1>4. was = <<>>
  BY <1>1, <1>2
<1>5. ~(Len(was) > 0)
  <2>1. Len(was) = 0
    BY <1>4
  <2>. HIDE DEF was
  <2>. QED  BY <2>1
<1>6. x.step \in {"sent", "missed"} => is = <<>>
  BY <1>1, <1>4
<1>7. x.step = "saved" => q.value # Empty /\ is = <<q.value>>
  <2>1. Append(<<>>, q.value) = <<q.value>>
    OBVIOUS
  <2>2. SUFFICES ASSUME x.step = "saved" PROVE q.value # Empty /\ is = Append(was, q.value)
    BY <1>4, <2>1
  <2>. HIDE DEF was, is
  <2>. QED  BY <1>1, <1>5, <2>2
<1>. HIDE DEF was
<1>. QED  BY <1>1, <1>3, <1>6, <1>7 DEF AddUnderway, Called

\* A call that is served brings the documents to what it has.
LEMMA ShownServed ==
    ASSUME StorageTypes, OneByOne, ShownInv, NEW q \in requests, NEW x \in Request, Outcome(q, x),
           UNCHANGED <<rows, entry, mixed, writers, told>>
    PROVE  ShownInv'
<1>. PICK key \in Keys : key = q.name.key
  BY CallFields
<1>1. /\ x.name = q.name /\ x.new = q.new /\ requests' = (requests \ {q}) \cup {x}
      /\ \A n \in Names \ {q.name} : docs'[n] = docs[n]
  BY DEF Outcome
<1>. SUFFICES ASSUME NEW p \in Pages, NEW k \in Keys PROVE ShownAt(p, k)'
  BY DEF ShownInv
<1>2. ShownAt(p, k)
  BY DEF ShownInv
<1>3. RowsOf(p, k)' = RowsOf(p, k) /\ (OneRow(p, k)' => OneRow(p, k)) /\ (Orderly(p, k)' => Orderly(p, k))
  BY DEF RowsOf, OneRow, Orderly
<1>4. CASE k # key
  <2>1. SameRows(p, k)
    BY <1>3 DEF SameRows
  <2>2. Calls(k)' = Calls(k)
    BY <1>1, <1>4 DEF Calls
  <2>3. \A n \in Called(k) : docs'[n] = docs[n]
    BY <1>1, <1>4 DEF Called
  <2>. QED  BY <1>2, <1>3, <2>1, <2>2, <2>3, ShownKept
<1>5. CASE k = key /\ Orderly(p, k)' /\ OneRow(p, k)'
  <2>1. Orderly(p, k) /\ OneRow(p, k) /\ q \in Calls(k)
    BY <1>3, <1>5 DEF Calls
  <2>2. Calls(k) = {q}
    <3>1. k \notin mixed
      BY <2>1 DEF Orderly
    <3>2. \A o, r \in Calls(k) : o = r
      BY <3>1 DEF OneByOne
    <3>. QED  BY <2>1, <3>2
  <2>3. Calls(k)' = {x}
    BY <1>1, <1>5, <2>2 DEF Calls
  <2>4. IF q.new THEN RowsOf(p, k) = {} => AddUnderway(q) ELSE EditUnderway(p, q)
    BY <1>2, <2>1 DEF ShownAt
  <2>5. CASE q.new
    <3>1. RowsOf(p, k) = {} => AddUnderway(x)'
      BY <2>4, <2>5, AddServed
    <3>. QED  BY <1>1, <1>3, <2>3, <2>5, <3>1 DEF ShownAt
  <2>6. CASE ~q.new
    <3>1. EditUnderway(p, x)'
      BY <1>5, <2>1, <2>4, <2>6, EditServed
    <3>. QED  BY <1>1, <2>3, <2>6, <3>1 DEF ShownAt
  <2>. QED  BY <2>5, <2>6
<1>6. CASE ~Orderly(p, k)' \/ ~OneRow(p, k)'
  BY <1>6 DEF ShownAt
<1>. QED  BY <1>4, <1>5, <1>6

\* An answer to an added entry shows its row; any other changes no row.
LEMMA ShownCompleted ==
    ASSUME StorageTypes, OneByOne, ShownInv, Complete
    PROVE  ShownInv'
<1>1. PICK q \in requests :
          /\ q.step \in {"saved", "failed"}
          /\ requests' = requests \ {q}
          /\ told' = IF q.step = "failed" THEN told \cup {q.name.key} ELSE told
          /\ LET shown == q.step = "saved" /\ ~q.lost
             IN  /\ offered' = IF shown /\ ~q.new
                             THEN [offered EXCEPT ![q.page] = TRUE] ELSE offered
                 /\ rows' = IF shown /\ q.new
                            THEN [rows EXCEPT ![q.page] =
                                    Append(@, [name |-> entry[q.page].name,
                                               text |-> entry[q.page].text,
                                               editable |-> FALSE])]
                            ELSE rows
  BY DEF Complete
<1>2. UNCHANGED <<docs, elem, entry, reloads, sent, mixed, writers, raced>>
  BY DEF Complete
<1>3. q.page \in Pages /\ q.name.key \in Keys /\ q.name \in Names /\ rows \in [Pages -> Seq(Row)]
  BY CallFields DEF StorageTypes, StorageTypeOK
<1>. PICK key \in Keys : key = q.name.key
  BY <1>3
<1>. DEFINE new == [name |-> entry[q.page].name, text |-> entry[q.page].text, editable |-> FALSE]
            last == Len(rows[q.page]) + 1
            Adds == q.step = "saved" /\ ~q.lost /\ q.new
<1>4. ~Adds => rows' = rows
  BY <1>1
<1>5. ASSUME Adds
      PROVE  /\ \A x \in Pages \ {q.page} : rows'[x] = rows[x]
             /\ DOMAIN rows'[q.page] = DOMAIN rows[q.page] \cup {last}
             /\ last \notin DOMAIN rows[q.page]
             /\ \A i \in DOMAIN rows[q.page] : rows'[q.page][i] = rows[q.page][i]
             /\ rows'[q.page][last] = new
             /\ new.name = entry[q.page].name /\ new.text = entry[q.page].text
  <2>1. entry[q.page] \in Entry
    BY <1>5 DEF StorageTypes
  <2>2. new \in Row
    BY <2>1 DEF Entry, Row
  <2>3. rows' = [rows EXCEPT ![q.page] = Append(@, new)]
    BY <1>1, <1>5
  <2>4. new.name = entry[q.page].name /\ new.text = entry[q.page].text
    OBVIOUS
  <2>. HIDE DEF new
  <2>5. /\ \A x \in Pages \ {q.page} : rows'[x] = rows[x]
        /\ DOMAIN rows'[q.page] = DOMAIN rows[q.page] \cup {Len(rows[q.page]) + 1}
        /\ DOMAIN rows[q.page] = 1 .. Len(rows[q.page])
        /\ Len(rows[q.page]) \in Nat
        /\ \A i \in DOMAIN rows[q.page] : rows'[q.page][i] = rows[q.page][i]
        /\ rows'[q.page][Len(rows[q.page]) + 1] = new
    BY <1>3, <2>2, <2>3, AddRowMoves
  <2>6. last \notin DOMAIN rows[q.page]
    BY <2>5
  <2>. QED  BY <2>4, <2>5, <2>6
<1>6. /\ \A p \in Pages : \A k \in Keys : Orderly(p, k)' => Orderly(p, k)
      /\ \A p \in Pages : Orderly(p, key)' => q.step = "saved"
  BY <1>1, <1>2 DEF Orderly
<1>. SUFFICES ASSUME NEW p \in Pages, NEW k \in Keys, Orderly(p, k)' PROVE ShownAt(p, k)'
  BY DEF ShownInv, ShownAt
<1>7. ShownAt(p, k) /\ Orderly(p, k)
  BY <1>6 DEF ShownInv
<1>8. CASE k # key
  <2>1. Calls(k)' = Calls(k) /\ \A n \in Called(k) : docs'[n] = docs[n]
    BY <1>1, <1>2, <1>8 DEF Calls
  <2>2. SameRows(p, k)
    <3>1. CASE Adds /\ p = q.page
      <4>1. q \in Calls(key) /\ q.new
        BY <3>1 DEF Calls
      <4>2. entry[q.page].name.key \in mixed \cup {key}
        BY <4>1, Zenon DEF OneByOne
      <4>3. entry[q.page].name.key # k
        BY <1>7, <1>8, <4>2 DEF Orderly
      <4>. HIDE DEF last, new
      <4>4. RowsOf(p, k)' = RowsOf(p, k)
        BY <1>5, <3>1, <4>3 DEF RowsOf
      <4>5. \A i \in RowsOf(p, k) : rows'[p][i] = rows[p][i]
        BY <1>5, <3>1 DEF RowsOf
      <4>. QED  BY <4>4, <4>5 DEF SameRows
    <3>2. CASE ~Adds \/ p # q.page
      <4>1. rows'[p] = rows[p]
        BY <1>4, <1>5, <3>2
      <4>2. RowsOf(p, k)' = RowsOf(p, k)
        BY <4>1 DEF RowsOf
      <4>. QED  BY <4>1, <4>2 DEF SameRows
    <3>. QED  BY <3>1, <3>2
  <2>. QED  BY <1>7, <2>1, <2>2, ShownKept
<1>9. CASE k = key
  <2>1. q \in Calls(k) /\ q.step = "saved" /\ k \notin mixed
    BY <1>6, <1>7, <1>9 DEF Calls, Orderly
  <2>2. /\ \A o \in Calls(k) : o = q
        /\ ~q.lost
        /\ q.new => entry[q.page] = [name |-> q.name, text |-> q.value]
        /\ q.page \in writers[k]
    BY <2>1, Zenon DEF OneByOne
  <2>3. q.page = p
    BY <1>7, <2>2 DEF Orderly
  <2>4. Calls(k)' = {}
    BY <1>1, <2>2 DEF Calls
  <2>5. CASE ~q.new
    <3>1. rows' = rows
      BY <1>4, <2>5
    <3>2. OneRow(p, k)' => OneRow(p, k)
      BY <3>1 DEF OneRow, RowsOf
    <3>3. OneRow(p, k) => EditUnderway(p, q)
      BY <1>7, <2>1, <2>5 DEF ShownAt
    <3>4. OneRow(p, k) => Shows(p, k)
      BY <1>9, <2>1, <3>3 DEF EditUnderway
    <3>5. Shows(p, k) => Shows(p, k)'
      BY <1>2, <3>1 DEF Shows, RowsOf, Called
    <3>. QED  BY <2>4, <3>2, <3>4, <3>5 DEF ShownAt
  <2>6. CASE q.new
    <3>1. Adds
      BY <2>1, <2>2, <2>6
    <3>2. new.name = q.name /\ new.text = q.value
      BY <1>5, <2>2, <2>6, <3>1
    <3>. HIDE DEF Adds, last, new
    <3>3. RowsOf(p, k)' = RowsOf(p, k) \cup {last}
      BY <1>5, <1>9, <2>3, <3>1, <3>2 DEF RowsOf
    <3>. SUFFICES ASSUME OneRow(p, k)' PROVE Shows(p, k)'
      BY <2>4 DEF ShownAt
    <3>4. RowsOf(p, k) = {}
      <4>1. \A i \in RowsOf(p, k) : i # last
        BY <1>5, <2>3, <3>1 DEF RowsOf
      <4>2. \A i \in RowsOf(p, k) : i = last
        BY <3>3 DEF OneRow
      <4>. QED  BY <4>1, <4>2
    <3>5. OneRow(p, k)
      BY <3>4 DEF OneRow
    <3>6. AddUnderway(q)
      BY <1>7, <2>1, <2>6, <3>4, <3>5 DEF ShownAt
    <3>7. /\ \A n \in Called(k) : n # q.name => docs[n] = <<>>
          /\ q.value # Empty /\ docs[q.name] = <<q.value>>
      BY <1>3, <1>9, <2>1, <3>6 DEF AddUnderway, Called
    <3>8. RowsOf(p, k)' = {last} /\ rows'[p][last].name = q.name /\ rows'[p][last].text = q.value
      BY <1>5, <2>3, <3>1, <3>2, <3>3, <3>4
    <3>9. docs[q.name] = Content(q.value)
      BY <3>7 DEF Content
    <3>. QED  BY <1>2, <3>7, <3>8, <3>9 DEF Shows, Called
  <2>. QED  BY <2>5, <2>6
<1>. QED  BY <1>8, <1>9

\* Every step keeps what the pages show and what is stored together.
LEMMA ShownNext ==
    StorageTypes /\ OneByOne /\ ShownInv /\ [StorageNext]_storageVars => ShownInv'
<1>. SUFFICES ASSUME StorageTypes, OneByOne, ShownInv, [StorageNext]_storageVars
     PROVE  ShownInv'
  OBVIOUS
<1>1. ASSUME NEW p \in Pages, NEW r \in DOMAIN rows[p], NEW t \in Values, Edit(p, r, t)
      PROVE  ShownInv'
  BY <1>1, SetsByEditOrUndo, ShownSet
<1>2. ASSUME NEW p \in Pages, Undo(p) PROVE ShownInv'
  BY <1>2, SetsByEditOrUndo, ShownSet
<1>3. ASSUME NEW p \in Pages, NEW n \in Names, NEW t \in Values, AddNew(p, n, t)
      PROVE  ShownInv'
  BY <1>3, ShownAdded
<1>4. ASSUME NEW p \in Pages, Reload(p) PROVE ShownInv'
  BY <1>4, ShownReloaded
<1>5. ASSUME Serve PROVE ShownInv'
  <2>1. PICK q \in requests : Refused(q) \/ Delete(q) \/ Replace(q) \/ Insert(q)
    BY <1>5 DEF Serve
  <2>2. UNCHANGED <<rows, entry, mixed, writers, told>>
    BY <1>5 DEF Serve
  <2>3. PICK x \in Request : Outcome(q, x)
    BY <2>1, ServeMoves DEF StorageTypes
  <2>. QED  BY <2>2, <2>3, ShownServed
<1>6. ASSUME Complete PROVE ShownInv'
  BY <1>6, ShownCompleted
<1>7. ASSUME UNCHANGED storageVars PROVE ShownInv'
  <2>1. ASSUME NEW p \in Pages, NEW k \in Keys PROVE ShownAt(p, k)'
    <3>1. ShownAt(p, k)
      BY DEF ShownInv
    <3>2. SameRows(p, k)
      BY <1>7 DEF SameRows, RowsOf, storageVars
    <3>3. Calls(k)' = Calls(k) /\ (Orderly(p, k)' => Orderly(p, k))
          /\ \A n \in Called(k) : docs'[n] = docs[n]
      BY <1>7 DEF Calls, Orderly, storageVars
    <3>. QED  BY <3>1, <3>2, <3>3, ShownKept
  <2>. QED  BY <2>1 DEF ShownInv
<1>. QED  BY <1>1, <1>2, <1>3, <1>4, <1>5, <1>6, <1>7 DEF StorageNext

\* A set of one element at most.
LEMMA AtMostOne ==
    ASSUME NEW S, IsFiniteSet(S), Cardinality(S) <= 1
    PROVE  \A a, b \in S : a = b
<1>1. SUFFICES ASSUME NEW a \in S, NEW b \in S, a # b PROVE FALSE
  OBVIOUS
<1>2. IsFiniteSet(S \ {a}) /\ Cardinality(S \ {a}) = Cardinality(S) - 1
  BY FS_RemoveElement
<1>3. IsFiniteSet((S \ {a}) \ {b}) /\ Cardinality((S \ {a}) \ {b}) = Cardinality(S \ {a}) - 1
  BY <1>1, <1>2, FS_RemoveElement
<1>4. Cardinality((S \ {a}) \ {b}) \in Nat /\ Cardinality(S) \in Nat
  BY <1>3, FS_CardinalityType
<1>. DEFINE m == Cardinality(S)
            n == Cardinality((S \ {a}) \ {b})
<1>5. n = (m - 1) - 1 /\ m \in Nat /\ n \in Nat /\ m <= 1
  BY <1>2, <1>3, <1>4
<1>. HIDE DEF m, n
<1>. QED  BY <1>5

\* A page that shows what is under its keys shows the values that are stored.
LEMMA ShownStored == StorageTypes /\ ShownInv => ShownIsStored
<1>. SUFFICES ASSUME StorageTypes, ShownInv, NEW p \in Pages, NEW k \in Keys,
                     Orderly(p, k), Calls(k) = {}, Cardinality(RowsOf(p, k)) <= 1
     PROVE  /\ \A r \in RowsOf(p, k) : rows[p][r].text = Stored(rows[p][r].name)
            /\ RowsOf(p, k) = {} => \A n \in Names : n.key = k => docs[n] = <<>>
  BY DEF ShownIsStored, Orderly, Calls, RowsOf
<1>1. OneRow(p, k)
  <2>1. RowsOf(p, k) \subseteq 1 .. Len(rows[p]) /\ Len(rows[p]) \in Nat
    BY DEF RowsOf, StorageTypes, StorageTypeOK
  <2>2. IsFiniteSet(RowsOf(p, k))
    <3>. DEFINE top == Len(rows[p])
                S == RowsOf(p, k)
    <3>. HIDE DEF top, S
    <3>1. IsFiniteSet(1 .. top)
      <4>1. 1 \in Int /\ top \in Int
        BY <2>1 DEF top
      <4>. QED  BY <4>1, FS_Interval
    <3>2. S \subseteq 1 .. top
      BY <2>1 DEF S, top
    <3>3. IsFiniteSet(S)
      BY <3>1, <3>2, FS_Subset
    <3>. QED  BY <3>3 DEF S
  <2>. QED  BY <2>2, AtMostOne DEF OneRow
<1>2. Shows(p, k)
  BY <1>1 DEF ShownInv, ShownAt
<1>3. ASSUME NEW r \in RowsOf(p, k) PROVE rows[p][r].text = Stored(rows[p][r].name)
  <2>. DEFINE n == rows[p][r].name
              t == rows[p][r].text
  <2>1. n \in Called(k)
    BY RowFields
  <2>2. docs[n] = Content(t)
    BY <1>2, <2>1 DEF Shows
  <2>. HIDE DEF n, t
  <2>3. <<t>>[1] = t /\ <<t>> # <<>>
    OBVIOUS
  <2>4. t = Stored(n)
    BY <2>2, <2>3 DEF Stored, Content
  <2>. QED  BY <2>4 DEF n, t
<1>4. ASSUME RowsOf(p, k) = {}, NEW n \in Names, n.key = k PROVE docs[n] = <<>>
  BY <1>2, <1>4 DEF Shows, Called
<1>. QED  BY <1>3, <1>4

-----------------------------------------------------------------------------
(* The console.                                                            *)

\* What both views keep.
ConsolePart ==
    /\ view \in {"dataStorage", "executions"}
    /\ StorageTypes /\ UpsertsInv /\ OneByOne /\ ShownInv
    /\ ChainInv /\ RerunInv

\* A step of one view leaves the other alone.
LEMMA ViewsApart ==
    [Next]_consoleVars =>
        /\ [StorageNext]_storageVars /\ [RerunsNext]_rerunVars
        /\ view' = view
  BY DEF Next, consoleVars

\* Whichever view is open, and whatever is pressed or answered in whatever order,
\* each view keeps its invariant.
THEOREM ConsoleInvariance == Spec => []ConsolePart
<1>1. Init => ConsolePart
  BY StorageTypesInit, UpsertsInit, OneByOneInit, ShownInit, ChainInit, RerunInit
     DEF Init, ConsolePart
<1>2. ConsolePart /\ [Next]_consoleVars => ConsolePart'
  <2>. SUFFICES ASSUME ConsolePart, [Next]_consoleVars PROVE ConsolePart'
    OBVIOUS
  <2>1. [StorageNext]_storageVars /\ [RerunsNext]_rerunVars /\ view' = view
    BY ViewsApart
  <2>2. StorageTypes' /\ UpsertsInv' /\ OneByOne' /\ ShownInv'
    BY <2>1, StorageTypesNext, UpsertsNext, OneByOneNext, ShownNext DEF ConsolePart
  <2>3. ChainInv' /\ RerunInv'
    BY <2>1, ChainNext, RerunNext DEF ConsolePart
  <2>. QED  BY <2>1, <2>2, <2>3 DEF ConsolePart
<1>. QED  BY <1>1, <1>2, PTL DEF Spec

\* One press of rerun is one chain of calls, the next of which is made when the
\* one before it has been answered (rerunExecutions, rerunThisExecution of js.js).
THEOREM OneChainPerPress == Spec => []ConsoleInv
<1>1. ConsolePart => ConsoleInv
  BY ChainIsOne DEF ConsolePart, ConsoleInv, ConsoleTypeOK, StorageTypes, ChainInv
<1>. QED  BY <1>1, ConsoleInvariance, PTL

\* Whichever press makes the calls, and whichever is answered first: when no box
\* was checked again, none of the executions that were checked is left out, unless
\* an answer was not 200, and none is rerun more often than rerun was pressed.
THEOREM EachIsRerun == Spec => []RerunEach
<1>1. ConsolePart => RerunEach
  BY RerunsEach DEF ConsolePart
<1>. QED  BY <1>1, ConsoleInvariance, PTL

\* A name has two documents only where two upserts of it were between looking
\* and inserting at a time, whatever pages, edits and deletions there are.
THEOREM UniqueEntries == Spec => []UniqueUnlessRaced
<1>1. ConsolePart => UniqueUnlessRaced
  BY DEF ConsolePart, UpsertsInv
<1>. QED  BY <1>1, ConsoleInvariance, PTL

\* What a page shows of a key it alone has posted, one call after the other and
\* with no failure told, is what is stored once the calls are answered.
THEOREM PagesShowStored == Spec => []ShownIsStored
<1>1. ConsolePart => ShownIsStored
  BY ShownStored DEF ConsolePart
<1>. QED  BY <1>1, ConsoleInvariance, PTL

-----------------------------------------------------------------------------
(* The panel: its timers.                                                  *)

NoneOn(s) == \A k \in DOMAIN s : s[k].is # "on"

\* The timer u is on, and no other.
OneOn(s, u) ==
    \E k \in DOMAIN s :
        /\ s[k] = u /\ u.is = "on"
        /\ \A j \in DOMAIN s : s[j].is = "on" => j = k

NoneLeft(s) == \A k \in DOMAIN s : s[k].is # "left"

IdsOn(s) == {t.id : t \in {u \in ToSet(s) : u.is = "on"}}

-----------------------------------------------------------------------------
(* The panel: its queue.                                                   *)

\* What waits behind the sentinel.
Rest(q) == IF q = <<>> THEN <<>> ELSE Tail(q)

QueueOK(q) ==
    /\ q # <<>> => Head(q) = InProgress
    /\ Rest(q) \in Seq(Queued)

IdsIn(r) == {e.id : e \in ToSet(r)}

-----------------------------------------------------------------------------
(* The panel: what is seen of it.                                          *)

Look(f) == IF Hidden(f) THEN "hidden" ELSE "shown"

\* After the slide of the timer u.
LookAfter(f, u) == IF u.hides /\ ~u.noop THEN "hidden" ELSE Look(f)

Clean(f) == f.height = "own" /\ ~f.fxshow.is
CleanAfter(f, u) == IF u.noop THEN Clean(f) ELSE u.orig = "own"

\* After a slide that is done when the panel looks like this.
Turned(look, what) ==
    IF what = "hide" \/ (what = "toggle" /\ look = "shown") THEN "hidden" ELSE "shown"

\* The slides of r, one after the other, lead to `last' by the looks v. They
\* depend on the look before them only if all are toggles.
Leads(look, r, v, last) ==
    /\ v \in [0 .. Len(r) -> {"hidden", "shown"}]
    /\ \A k \in 1 .. Len(r) : v[k] = Turned(v[k - 1], r[k].what)
    /\ (\A k \in 1 .. Len(r) : r[k].what = "toggle") => v[0] = look
    /\ v[Len(r)] = last

Leading(look, r, last) ==
    \E v \in [0 .. Len(r) -> {"hidden", "shown"}] : Leads(look, r, v, last)

Asked(a) == IF a THEN "shown" ELSE "hidden"

-----------------------------------------------------------------------------
(* The panel: its invariant.                                               *)

\* Between calls: nothing is on and, if none threw, nothing is queued; or one
\* slide is on, behind the sentinel.
Base(f, th) ==
    /\ f \in Fx
    /\ QueueOK(f.queue)
    /\ f.queue # <<>> => f.hooked
    /\ \/ NoneOn(f.timers) /\ (th = 0 => f.queue = <<>>)
       \/ f.queue # <<>> /\ \E u \in Timer : OneOn(f.timers, u)

\* The look the panel has when the slide that is on is over.
NextLook(f, look) ==
    /\ NoneOn(f.timers) => look = Look(f) /\ Clean(f)
    /\ \A u \in Timer : OneOn(f.timers, u) => look = LookAfter(f, u) /\ CleanAfter(f, u)

AsAsked(f, a) ==
    /\ NoneLeft(f.timers)
    /\ \E look \in {"hidden", "shown"} :
          /\ NextLook(f, look)
          /\ Leading(look, Rest(f.queue), Asked(a))

\* A promise waits for slides that are over, on, or queued; and is resolved if
\* all are over.
PromisesOK(f, pr) ==
    \A p \in DOMAIN pr :
        /\ pr[p] \subseteq f.ended \cup IdsOn(f.timers) \cup IdsIn(Rest(f.queue))
        /\ p \notin f.waiting => pr[p] \subseteq f.ended

EffectsIInv ==
    /\ EffectsTypeOK
    /\ Base(fx, throws)
    /\ fx.timers # <<>> => fx.inProgress
    /\ fx.inProgress => frames > 0
    /\ exact => throws = 0 /\ AsAsked(fx, asked)
    /\ stops = 0 => PromisesOK(fx, promises)

-----------------------------------------------------------------------------
(* Sequences of timers.                                                    *)

LEMMA TimerFacts ==
  ASSUME NEW s \in Seq(Timer)
  PROVE  /\ Len(s) \in Nat /\ DOMAIN s = 1 .. Len(s)
         /\ \A k \in DOMAIN s : s[k] \in Timer
         /\ s = <<>> <=> Len(s) = 0
         /\ \A x : x \in ToSet(s) <=> \E k \in DOMAIN s : s[k] = x
<1>1. \A x : x \in ToSet(s) <=> \E k \in DOMAIN s : s[k] = x
  BY DEF ToSet
<1>2. QED BY <1>1

LEMMA OnlyOne ==
  ASSUME NEW s, NEW u, OneOn(s, u)
  PROVE  ~NoneOn(s) /\ (\A w : OneOn(s, w) => w = u)
BY DEF NoneOn, OneOn

LEMMA InIds ==
  ASSUME NEW s \in Seq(Timer), NEW i
  PROVE  i \in IdsOn(s) <=> \E k \in DOMAIN s : s[k].is = "on" /\ s[k].id = i
<1>1. ASSUME i \in IdsOn(s) PROVE \E k \in DOMAIN s : s[k].is = "on" /\ s[k].id = i
  <2>1. PICK t \in ToSet(s) : t.is = "on" /\ t.id = i
    BY <1>1 DEF IdsOn
  <2>2. PICK k \in DOMAIN s : s[k] = t
    BY TimerFacts
  <2>3. QED BY <2>1, <2>2
<1>2. ASSUME NEW k \in DOMAIN s, s[k].is = "on", s[k].id = i PROVE i \in IdsOn(s)
  <2>1. s[k] \in ToSet(s)
    BY TimerFacts
  <2>2. s[k] \in {u \in ToSet(s) : u.is = "on"}
    BY <1>2, <2>1
  <2>3. QED BY <1>2, <2>2 DEF IdsOn
<1>3. QED BY <1>1, <1>2

\* The ids of what is on: of nothing, or of the one.
LEMMA IdsFacts ==
  ASSUME NEW s \in Seq(Timer)
  PROVE  /\ NoneOn(s) => IdsOn(s) = {}
         /\ \A u : OneOn(s, u) => IdsOn(s) = {u.id}
<1>1. ASSUME NoneOn(s) PROVE IdsOn(s) = {}
  BY <1>1, InIds DEF NoneOn
<1>2. ASSUME NEW u, OneOn(s, u) PROVE IdsOn(s) = {u.id}
  <2>1. PICK k \in DOMAIN s : /\ s[k] = u /\ u.is = "on"
                              /\ \A j \in DOMAIN s : s[j].is = "on" => j = k
    BY <1>2 DEF OneOn
  <2>2. \A i : i \in IdsOn(s) <=> i = u.id
    BY <2>1, InIds
  <2>3. QED BY <2>2
<1>3. QED BY <1>1, <1>2

LEMMA Appended ==
  ASSUME NEW s \in Seq(Timer), NEW u \in Timer, NoneOn(s), u.is = "on"
  PROVE  /\ Append(s, u) \in Seq(Timer) /\ Append(s, u) # <<>> /\ OneOn(Append(s, u), u)
         /\ NoneLeft(s) => NoneLeft(Append(s, u))
<1>1. PICK r : r = Append(s, u)
  OBVIOUS
<1>2. /\ r \in Seq(Timer) /\ Len(r) = Len(s) + 1 /\ Len(s) \in Nat
      /\ r[Len(s) + 1] = u /\ \A k \in 1 .. Len(s) : r[k] = s[k]
  BY <1>1
<1>3. DOMAIN r = 1 .. Len(s) + 1 /\ DOMAIN s = 1 .. Len(s) /\ r # <<>>
  BY <1>2
<1>4. OneOn(r, u)
  <2>1. \A j \in DOMAIN r : r[j].is = "on" => j = Len(s) + 1
    BY <1>2, <1>3 DEF NoneOn
  <2>2. QED BY <1>2, <1>3, <2>1 DEF OneOn
<1>5. NoneLeft(s) => NoneLeft(r)
  BY <1>2, <1>3 DEF NoneLeft
<1>6. QED BY <1>1, <1>2, <1>3, <1>4, <1>5

\* What RemoveAt leaves, index by index.
LEMMA RemovedAt ==
  ASSUME NEW s \in Seq(Timer), NEW k \in DOMAIN s
  PROVE  /\ RemoveAt(s, k) \in Seq(Timer)
         /\ Len(RemoveAt(s, k)) = Len(s) - 1
         /\ \A i \in 1 .. Len(s) - 1 : RemoveAt(s, k)[i] = s[IF i < k THEN i ELSE i + 1]
<1>1. Len(s) \in Nat /\ k \in 1 .. Len(s)
  OBVIOUS
<1>2. PICK a : a = SubSeq(s, 1, k - 1)
  OBVIOUS
<1>3. PICK b : b = SubSeq(s, k + 1, Len(s))
  OBVIOUS
<1>4. /\ a \in Seq(Timer) /\ Len(a) = k - 1
      /\ \A i \in 1 .. k - 1 : a[i] = s[i]
  BY <1>1, <1>2, SubSeqProperties
<1>5. /\ b \in Seq(Timer) /\ Len(b) = Len(s) - k
      /\ \A i \in 1 .. Len(s) - k : b[i] = s[k + i]
  <2>1. CASE k = Len(s)
    BY <1>1, <1>3, <2>1, SubSeqProperties
  <2>2. CASE k < Len(s)
    BY <1>1, <1>3, <2>2, SubSeqProperties
  <2>3. QED BY <1>1, <2>1, <2>2
<1>6. RemoveAt(s, k) = a \o b
  BY <1>2, <1>3 DEF RemoveAt
<1>7. PICK c : c = a \o b
  OBVIOUS
<1>8. /\ c \in Seq(Timer) /\ Len(c) = Len(s) - 1
      /\ \A i \in 1 .. Len(s) - 1 : c[i] = IF i <= k - 1 THEN a[i] ELSE b[i - (k - 1)]
  <2>1. \A i \in 1 .. Len(a) + Len(b) : c[i] = IF i <= Len(a) THEN a[i] ELSE b[i - Len(a)]
    BY <1>4, <1>5, <1>7, ConcatProperties
  <2>2. c \in Seq(Timer) /\ Len(c) = Len(a) + Len(b)
    BY <1>4, <1>5, <1>7, ConcatProperties
  <2>3. Len(a) = k - 1 /\ Len(a) + Len(b) = Len(s) - 1
    BY <1>1, <1>4, <1>5
  <2>4. \A i \in 1 .. Len(s) - 1 : c[i] = IF i <= k - 1 THEN a[i] ELSE b[i - (k - 1)]
    BY <2>1, <2>3
  <2>5. QED BY <2>2, <2>3, <2>4
<1>9. ASSUME NEW i \in 1 .. Len(s) - 1 PROVE c[i] = s[IF i < k THEN i ELSE i + 1]
  <2>1. CASE i < k
    BY <1>1, <1>4, <1>8, <2>1
  <2>2. CASE ~ (i < k)
    <3>1. i - (k - 1) \in 1 .. Len(s) - k /\ k + (i - (k - 1)) = i + 1 /\ ~ (i <= k - 1)
      BY <1>1, <2>2
    <3>2. c[i] = b[i - (k - 1)]
      BY <1>8, <3>1
    <3>3. b[i - (k - 1)] = s[k + (i - (k - 1))]
      BY <1>5, <3>1
    <3>4. QED BY <2>2, <3>1, <3>2, <3>3
  <2>3. QED BY <2>1, <2>2
<1>10. QED BY <1>6, <1>7, <1>8, <1>9

\* Without its k-th timer, which is on or not.
LEMMA TimerRemoved ==
  ASSUME NEW s \in Seq(Timer), NEW k \in DOMAIN s
  PROVE  /\ RemoveAt(s, k) \in Seq(Timer)
         /\ s[k].is # "on" /\ NoneOn(s) => NoneOn(RemoveAt(s, k))
         /\ \A u : s[k].is # "on" /\ OneOn(s, u) => OneOn(RemoveAt(s, k), u)
         /\ \A u : s[k].is = "on" /\ OneOn(s, u) => NoneOn(RemoveAt(s, k))
         /\ NoneLeft(s) => NoneLeft(RemoveAt(s, k))
<1>1. PICK r : r = RemoveAt(s, k)
  OBVIOUS
<1>2. /\ r \in Seq(Timer) /\ Len(s) \in Nat /\ k \in 1 .. Len(s) /\ DOMAIN s = 1 .. Len(s)
      /\ DOMAIN r = 1 .. Len(s) - 1
      /\ \A i \in 1 .. Len(s) - 1 : r[i] = s[IF i < k THEN i ELSE i + 1]
  BY <1>1, RemovedAt
<1>3. \A i \in DOMAIN r : \E j \in DOMAIN s \ {k} : r[i] = s[j]
  <2>1. ASSUME NEW i \in DOMAIN r
        PROVE  \E j \in DOMAIN s \ {k} : r[i] = s[j]
    <3>1. (IF i < k THEN i ELSE i + 1) \in DOMAIN s \ {k}
      BY <1>2
    <3>2. QED BY <1>2, <3>1
  <2>2. QED BY <2>1
<1>4. s[k].is # "on" /\ NoneOn(s) => NoneOn(r)
  BY <1>3 DEF NoneOn
<1>5. NoneLeft(s) => NoneLeft(r)
  BY <1>3 DEF NoneLeft
<1>6. ASSUME NEW u, s[k].is = "on", OneOn(s, u) PROVE NoneOn(r)
  BY <1>3, <1>6 DEF NoneOn, OneOn
<1>7. ASSUME NEW u, s[k].is # "on", OneOn(s, u) PROVE OneOn(r, u)
  <2>1. PICK j \in DOMAIN s : /\ s[j] = u /\ u.is = "on"
                              /\ \A i \in DOMAIN s : s[i].is = "on" => i = j
    BY <1>7 DEF OneOn
  <2>2. j # k
    BY <1>7, <2>1
  <2>3. PICK i : i = IF j < k THEN j ELSE j - 1
    OBVIOUS
  <2>4. i \in DOMAIN r /\ (IF i < k THEN i ELSE i + 1) = j
    BY <1>2, <2>2, <2>3
  <2>5. r[i] = u
    BY <1>2, <2>1, <2>4
  <2>6. ASSUME NEW l \in DOMAIN r, r[l].is = "on" PROVE l = i
    <3>1. (IF l < k THEN l ELSE l + 1) \in DOMAIN s /\ r[l] = s[IF l < k THEN l ELSE l + 1]
      BY <1>2
    <3>2. (IF l < k THEN l ELSE l + 1) = j
      BY <2>1, <2>6, <3>1
    <3>3. QED BY <1>2, <2>2, <2>3, <3>2
  <2>7. QED BY <2>1, <2>4, <2>5, <2>6 DEF OneOn
<1>8. QED BY <1>1, <1>2, <1>4, <1>5, <1>6, <1>7

LEMMA RemovedThenAppended ==
  ASSUME NEW s \in Seq(Timer), NEW k \in DOMAIN s, NEW u \in Timer
  PROVE  RemoveAt(Append(s, u), k) = Append(RemoveAt(s, k), u)
<1>1. PICK a : a = Append(s, u)
  OBVIOUS
<1>2. PICK b : b = RemoveAt(s, k)
  OBVIOUS
<1>3. /\ Len(s) \in Nat /\ k \in 1 .. Len(s) /\ k \in DOMAIN a
      /\ a \in Seq(Timer) /\ Len(a) = Len(s) + 1
      /\ a[Len(s) + 1] = u /\ \A i \in 1 .. Len(s) : a[i] = s[i]
  BY <1>1
<1>4. /\ b \in Seq(Timer) /\ Len(b) = Len(s) - 1
      /\ \A i \in 1 .. Len(s) - 1 : b[i] = s[IF i < k THEN i ELSE i + 1]
  BY <1>2, RemovedAt
<1>5. PICK c : c = RemoveAt(a, k)
  OBVIOUS
<1>6. /\ c \in Seq(Timer) /\ Len(c) = Len(s)
      /\ \A i \in 1 .. Len(s) : c[i] = a[IF i < k THEN i ELSE i + 1]
  <2>1. Len(a) - 1 = Len(s)
    BY <1>3
  <2>2. /\ c \in Seq(Timer) /\ Len(c) = Len(a) - 1
        /\ \A i \in 1 .. Len(a) - 1 : c[i] = a[IF i < k THEN i ELSE i + 1]
    BY <1>3, <1>5, RemovedAt
  <2>3. QED BY <2>1, <2>2
<1>7. PICK d : d = Append(b, u)
  OBVIOUS
<1>8. /\ d \in Seq(Timer) /\ Len(d) = Len(s)
      /\ d[Len(s)] = u /\ \A i \in 1 .. Len(s) - 1 : d[i] = b[i]
  BY <1>3, <1>4, <1>7
<1>9. ASSUME NEW i \in 1 .. Len(s) PROVE c[i] = d[i]
  <2>1. CASE i = Len(s)
    BY <1>3, <1>6, <1>8, <2>1
  <2>2. CASE i # Len(s)
    <3>1. i \in 1 .. Len(s) - 1 /\ (IF i < k THEN i ELSE i + 1) \in 1 .. Len(s)
      BY <1>3, <2>2
    <3>2. QED BY <1>3, <1>4, <1>6, <1>8, <3>1
  <2>3. QED BY <2>1, <2>2
<1>10. c = d
  BY <1>6, <1>8, <1>9, SeqEqual
<1>11. QED BY <1>1, <1>2, <1>5, <1>7, <1>10

\* The timer that is on changes to t.
LEMMA TimerChanged ==
  ASSUME NEW s \in Seq(Timer), NEW k \in DOMAIN s, NEW u, OneOn(s, u), s[k].is = "on",
         NEW t \in Timer
  PROVE  /\ [s EXCEPT ![k] = t] \in Seq(Timer) /\ Len([s EXCEPT ![k] = t]) = Len(s)
         /\ t.is = "on" => OneOn([s EXCEPT ![k] = t], t)
         /\ t.is # "on" => NoneOn([s EXCEPT ![k] = t])
         /\ t.is # "left" /\ NoneLeft(s) => NoneLeft([s EXCEPT ![k] = t])
<1>1. PICK r : r = [s EXCEPT ![k] = t]
  OBVIOUS
<1>2. /\ r \in Seq(Timer) /\ Len(r) = Len(s) /\ DOMAIN r = DOMAIN s
      /\ r[k] = t /\ \A j \in DOMAIN s : j # k => r[j] = s[j]
  BY <1>1
<1>3. \A j \in DOMAIN s : s[j].is = "on" => j = k
  BY DEF OneOn
<1>4. t.is = "on" => OneOn(r, t)
  BY <1>2, <1>3 DEF OneOn
<1>5. t.is # "on" => NoneOn(r)
  BY <1>2, <1>3 DEF NoneOn
<1>6. t.is # "left" /\ NoneLeft(s) => NoneLeft(r)
  BY <1>2 DEF NoneLeft
<1>7. QED BY <1>1, <1>2, <1>4, <1>5, <1>6

\* What stop leaves of them: those that are not on.
LEMMA TimersStopped ==
  ASSUME NEW s \in Seq(Timer), NEW live, live = {s[k] : k \in {j \in DOMAIN s : s[j].is = "on"}}
  PROVE  /\ Filter(s, ToSet(s) \ live) \in Seq(Timer)
         /\ NoneOn(Filter(s, ToSet(s) \ live))
         /\ NoneLeft(s) => NoneLeft(Filter(s, ToSet(s) \ live))
         /\ Filter(s, ToSet(s) \ live) # <<>> => s # <<>>
<1>0. PICK S : S = ToSet(s) \ live
  OBVIOUS
<1>1. PICK r : r = Filter(s, S)
  OBVIOUS
<1>2. /\ r \in Seq(Timer) /\ Len(r) <= Len(s)
      /\ \A i \in 1 .. Len(r) : \E j \in 1 .. Len(s) : s[j] \in S /\ r[i] = s[j]
  BY <1>1, FilterElements
<1>3. DOMAIN r = 1 .. Len(r) /\ DOMAIN s = 1 .. Len(s) /\ Len(r) \in Nat /\ Len(s) \in Nat
  BY <1>2, TimerFacts
<1>4. \A i \in DOMAIN r : \E j \in DOMAIN s : s[j].is # "on" /\ r[i] = s[j]
  BY <1>0, <1>2, <1>3
<1>5. NoneOn(r) /\ (NoneLeft(s) => NoneLeft(r))
  BY <1>4 DEF NoneOn, NoneLeft
<1>6. r # <<>> => s # <<>>
  BY <1>2, <1>3, TimerFacts
<1>7. QED BY <1>0, <1>1, <1>2, <1>5, <1>6

-----------------------------------------------------------------------------
(* The panel.                                                              *)

\* g is f but for what is seen of it.
Kept(f, g) ==
    /\ g.queue = f.queue /\ g.inProgress = f.inProgress
    /\ g.hide = f.hide /\ g.hooked = f.hooked
    /\ g.waiting = f.waiting /\ g.ended = f.ended

LEMMA ShownFacts ==
  ASSUME NEW f \in Fx
  PROVE  /\ Shown(f) \in Fx /\ Kept(f, Shown(f)) /\ ~Hidden(Shown(f))
         /\ Shown(f).timers = f.timers /\ Shown(f).height = f.height
         /\ Shown(f).fxshow = f.fxshow
<1> DEFINE back == [f EXCEPT !.inline = IF @ = "none" THEN f.was ELSE @]
<1>1. /\ back \in Fx /\ Kept(f, back) /\ back.timers = f.timers
      /\ back.height = f.height /\ back.fxshow = f.fxshow
  BY DEF Fx, Kept
<1>2. CASE Hidden(back)
  <2>1. Shown(f) = [back EXCEPT !.inline = "block"]
    BY <1>2 DEF Shown
  <2>2. PICK b \in Fx : b = back
    BY <1>1
  <2>3. Shown(f) \in Fx /\ Shown(f).inline = "block" /\ Kept(b, Shown(f))
    BY <2>1, <2>2 DEF Fx, Inlines, Kept
  <2>4. /\ Shown(f).timers = b.timers /\ Shown(f).height = b.height
        /\ Shown(f).fxshow = b.fxshow
    BY <2>1, <2>2 DEF Fx
  <2>5. ~Hidden(Shown(f))
    BY <2>3 DEF Hidden
  <2> HIDE DEF back
  <2>6. QED BY <1>1, <2>2, <2>3, <2>4, <2>5 DEF Kept
<1>3. CASE ~Hidden(back)
  <2>1. Shown(f) = back
    BY <1>3 DEF Shown
  <2> HIDE DEF back
  <2>2. QED BY <1>1, <1>3, <2>1
<1>4. QED BY <1>2, <1>3

LEMMA HidFacts ==
  ASSUME NEW f \in Fx
  PROVE  /\ Hid(f) \in Fx /\ Kept(f, Hid(f)) /\ Hidden(Hid(f))
         /\ Hid(f).timers = f.timers /\ Hid(f).height = f.height
         /\ Hid(f).fxshow = f.fxshow
<1>1. CASE f.inline = "none"
  BY <1>1 DEF Hid, Kept, Hidden
<1>2. CASE f.inline # "none"
  <2>1. Hid(f) = [f EXCEPT !.inline = "none", !.was = f.inline]
    BY <1>2 DEF Hid
  <2>2. QED BY <2>1 DEF Fx, Inlines, Kept, Hidden
<1>3. QED BY <1>1, <1>2

LEMMA ForcedFacts ==
  ASSUME NEW f \in Fx
  PROVE  /\ Forced(f) \in Fx /\ Kept(f, Forced(f))
         /\ Forced(f).timers = f.timers /\ Forced(f).height = f.height
         /\ Forced(f).fxshow = f.fxshow
<1>1. PICK s : s = Shown(f)
  OBVIOUS
<1>2. /\ s \in Fx /\ Kept(f, s)
      /\ s.timers = f.timers /\ s.height = f.height /\ s.fxshow = f.fxshow
  BY <1>1, ShownFacts
<1>3. PICK h : h = Hid(s)
  OBVIOUS
<1>4. /\ h \in Fx /\ Kept(s, h)
      /\ h.timers = s.timers /\ h.height = s.height /\ h.fxshow = s.fxshow
  BY <1>2, <1>3, HidFacts
<1>5. Forced(f) = h \/ Forced(f) = f
  BY <1>1, <1>3 DEF Forced
<1>6. QED BY <1>2, <1>4, <1>5 DEF Kept

\* What a slide makes of the panel when it ends.
LEMMA SettledFacts ==
  ASSUME NEW f \in Fx, NEW t \in Timer
  PROVE  /\ Settled(f, t) \in Fx /\ Kept(f, Settled(f, t))
         /\ Settled(f, t).timers = f.timers
         /\ Look(Settled(f, t)) = LookAfter(f, t)
         /\ CleanAfter(f, t) => Clean(Settled(f, t))
<1>1. CASE t.noop
  <2>1. Settled(f, t) = f
    BY <1>1 DEF Settled
  <2>2. QED BY <1>1, <2>1 DEF Kept, LookAfter, CleanAfter
<1>2. CASE ~t.noop
  <2>1. PICK g : g = IF t.hides THEN Hid(f) ELSE f
    OBVIOUS
  <2>2. g \in Fx /\ Kept(f, g) /\ g.timers = f.timers
    <3>1. CASE t.hides
      BY <2>1, <3>1, HidFacts
    <3>2. CASE ~t.hides
      BY <2>1, <3>2 DEF Kept
    <3>3. QED BY <3>1, <3>2
  <2>3. Look(g) = LookAfter(f, t)
    <3>1. CASE t.hides
      BY <1>2, <2>1, <3>1, HidFacts DEF LookAfter, Look
    <3>2. CASE ~t.hides
      BY <2>1, <3>2 DEF LookAfter
    <3>3. QED BY <3>1, <3>2
  <2>4. Settled(f, t) = [g EXCEPT !.fxshow = NoShow, !.height = t.orig]
    BY <1>2, <2>1 DEF Settled
  <2>5. PICK h : h = [g EXCEPT !.fxshow = NoShow, !.height = t.orig]
    OBVIOUS
  <2>6. h \in Fx
    BY <2>2, <2>5 DEF Fx, NoShow, Timer
  <2>7. /\ Kept(g, h) /\ h.timers = g.timers /\ h.inline = g.inline /\ h.hide = g.hide
        /\ h.fxshow = NoShow /\ h.height = t.orig
    BY <2>2, <2>5 DEF Fx, Kept
  <2>8. Look(h) = Look(g)
    BY <2>7 DEF Look, Hidden
  <2>9. CleanAfter(f, t) => Clean(h)
    BY <1>2, <2>7 DEF CleanAfter, Clean, NoShow
  <2>10. QED BY <2>2, <2>3, <2>4, <2>5, <2>6, <2>7, <2>8, <2>9 DEF Kept
<1>3. QED BY <1>1, <1>2

-----------------------------------------------------------------------------
(* A slide starts, or the queue is empty.                                  *)

\* g is f with a timer for e, the only one that is on if none was; and if the
\* panel had its own height, the slide does to it what e says.
Runs(f, g, e) ==
    \E u \in Timer :
        /\ u.id = e.id /\ u.is = "on"
        /\ g.timers = Append(f.timers, u)
        /\ Clean(f) => LookAfter(g, u) = Turned(Look(f), e.what) /\ CleanAfter(g, u)

LEMMA StartedFacts ==
  ASSUME NEW f \in Fx, NEW e \in Queued
  PROVE  Started(f, e) \in Fx /\ Kept(f, Started(f, e)) /\ Runs(f, Started(f, e), e)
<1>0. e.id \in Slides /\ e.what \in What
  BY DEF Queued
<1>1. CASE Noop(f, e.what)
  <2>1. PICK u : u = [id |-> e.id, hides |-> FALSE, noop |-> TRUE, orig |-> "own",
                      left |-> 1, is |-> "on"]
    OBVIOUS
  <2>2. u \in Timer /\ u.id = e.id /\ u.is = "on" /\ u.noop /\ ~u.hides
    BY <1>0, <2>1 DEF Timer
  <2>3. Started(f, e) = [f EXCEPT !.timers = Append(@, u)]
    BY <1>1, <2>1 DEF Started
  <2>4. PICK g : g = [f EXCEPT !.timers = Append(@, u)]
    OBVIOUS
  <2>5. f.timers \in Seq(Timer)
    BY DEF Fx
  <2>6. Append(f.timers, u) \in Seq(Timer)
    BY <2>2, <2>5
  <2>7. g \in Fx /\ Kept(f, g) /\ g.timers = Append(f.timers, u)
    BY <2>4, <2>6 DEF Fx, Kept
  <2>8. g.inline = f.inline /\ g.height = f.height /\ g.fxshow = f.fxshow
    BY <2>4 DEF Fx
  <2>9. Look(g) = Look(f) /\ LookAfter(g, u) = Look(g)
    BY <2>2, <2>7, <2>8 DEF Look, LookAfter, Hidden, Kept
  <2>10. ASSUME Clean(f) PROVE Turned(Look(f), e.what) = Look(f) /\ CleanAfter(g, u)
    <3>1. \/ e.what = "hide" /\ Hidden(f)
          \/ e.what = "show" /\ ~Hidden(f)
      BY <1>1 DEF Noop
    <3>2. Turned(Look(f), e.what) = Look(f)
      BY <3>1 DEF Turned, Look
    <3>3. CleanAfter(g, u)
      BY <2>2, <2>8, <2>10 DEF CleanAfter, Clean
    <3>4. QED BY <3>2, <3>3
  <2>11. Runs(f, g, e)
    BY <2>2, <2>7, <2>9, <2>10 DEF Runs
  <2>12. QED BY <2>3, <2>4, <2>7, <2>11
<1>2. CASE ~Noop(f, e.what)
  <2>1. PICK hides \in BOOLEAN : hides <=> Hides(f, e.what)
    BY DEF Hides
  <2>2. PICK orig : orig = IF f.fxshow.is THEN f.fxshow.height ELSE f.height
    OBVIOUS
  <2>3. orig \in {"own", "partial"}
    BY <2>2 DEF Fx
  <2>4. PICK u : u = [id |-> e.id, hides |-> hides, noop |-> FALSE, orig |-> orig,
                      left |-> 1, is |-> "on"]
    OBVIOUS
  <2>5. u \in Timer /\ u.id = e.id /\ u.is = "on" /\ ~u.noop /\ u.orig = orig
        /\ (u.hides <=> hides)
    BY <1>0, <2>1, <2>3, <2>4 DEF Timer
  <2>6. PICK show : show = [is |-> TRUE, height |-> orig,
                 hidden |-> IF e.what = "toggle" THEN (IF hides THEN "yes" ELSE "no")
                            ELSE f.fxshow.hidden]
    OBVIOUS
  <2>7. show \in [is : BOOLEAN, height : {"own", "partial"}, hidden : {"unset", "yes", "no"}]
    BY <2>3, <2>6 DEF Fx
  <2>8. PICK v : v = IF hides THEN Forced(f) ELSE Shown(Forced(f))
    OBVIOUS
  <2>9. v \in Fx /\ Kept(f, v) /\ v.timers = f.timers /\ (~hides => ~Hidden(v))
    <3>1. /\ Forced(f) \in Fx /\ Kept(f, Forced(f)) /\ Forced(f).timers = f.timers
      BY ForcedFacts
    <3>2. CASE hides
      BY <2>8, <3>1, <3>2
    <3>3. CASE ~hides
      BY <2>8, <3>1, <3>3, ShownFacts DEF Kept
    <3>4. QED BY <3>2, <3>3
  <2>10. PICK g : g = [v EXCEPT !.timers = Append(@, u), !.fxshow = show, !.height = "partial"]
    OBVIOUS
  <2>11. Started(f, e) = g
    <3>1. hides = Hides(f, e.what)
      BY <2>1 DEF Hides
    <3>2. QED BY <1>2, <2>2, <2>4, <2>6, <2>8, <2>10, <3>1, Zenon DEF Started
  <2>12. Append(v.timers, u) \in Seq(Timer)
    <3>1. v.timers \in Seq(Timer)
      BY <2>9 DEF Fx
    <3>2. QED BY <2>5, <3>1
  <2>13. g \in Fx
    BY <2>7, <2>9, <2>10, <2>12 DEF Fx
  <2>14. /\ Kept(v, g) /\ g.timers = Append(v.timers, u) /\ g.inline = v.inline
    BY <2>9, <2>10 DEF Fx, Kept
  <2>15. Look(g) = Look(v)
    BY <2>14 DEF Look, Hidden, Kept
  <2>16. ASSUME Clean(f) PROVE LookAfter(g, u) = Turned(Look(f), e.what) /\ CleanAfter(g, u)
    <3>1. orig = "own"
      BY <2>2, <2>16 DEF Clean
    <3>2. CleanAfter(g, u)
      BY <2>5, <3>1 DEF CleanAfter
    <3>3. hides <=> ~Hidden(f) /\ e.what # "show"
      BY <2>1, <2>16 DEF Hides, Clean
    <3>4. (e.what = "hide" => ~Hidden(f)) /\ (e.what = "show" => Hidden(f))
      BY <1>2, <2>16 DEF Noop, Clean
    <3>5. CASE hides
      <4>1. LookAfter(g, u) = "hidden"
        BY <2>5, <3>5 DEF LookAfter
      <4>2. Turned(Look(f), e.what) = "hidden"
        BY <1>0, <3>3, <3>5 DEF Turned, Look, What
      <4>3. QED BY <3>2, <4>1, <4>2
    <3>6. CASE ~hides
      <4>1. LookAfter(g, u) = "shown"
        BY <2>5, <2>9, <2>15, <3>6 DEF LookAfter, Look
      <4>2. Turned(Look(f), e.what) = "shown"
        BY <1>0, <3>3, <3>4, <3>6 DEF Turned, Look, What
      <4>3. QED BY <3>2, <4>1, <4>2
    <3>7. QED BY <2>1, <3>5, <3>6
  <2>17. Runs(f, g, e)
    BY <2>5, <2>9, <2>14, <2>16 DEF Runs
  <2>18. Kept(f, g)
    BY <2>9, <2>14 DEF Kept
  <2>19. QED BY <2>11, <2>13, <2>17, <2>18
<1>3. QED BY <1>1, <1>2

LEMMA SentinelFacts ==
  /\ InProgress \notin Queued
  /\ \A r \in Seq(Queued) :
        /\ <<InProgress>> \o r \in Seq(Queued \cup {InProgress})
        /\ <<InProgress>> \o r # <<>> /\ Head(<<InProgress>> \o r) = InProgress
        /\ Tail(<<InProgress>> \o r) = r
        /\ r \in Seq(Queued \cup {InProgress})
        /\ r # <<>> => Head(r) \in Queued /\ Tail(r) \in Seq(Queued)
<1>1. InProgress \notin Queued
  BY DEF InProgress, Queued, Slides
<1>2. ASSUME NEW r \in Seq(Queued)
      PROVE  /\ <<InProgress>> \o r \in Seq(Queued \cup {InProgress})
             /\ <<InProgress>> \o r # <<>> /\ Head(<<InProgress>> \o r) = InProgress
             /\ Tail(<<InProgress>> \o r) = r
  <2>1. PICK p : p = InProgress
    OBVIOUS
  <2>2. PICK Q : Q = Queued \cup {p}
    OBVIOUS
  <2>3. r \in Seq(Q) /\ <<p>> \in Seq(Q) /\ Len(r) \in Nat
    BY <2>2
  <2>4. PICK q : q = <<p>> \o r
    OBVIOUS
  <2>5. /\ q \in Seq(Q) /\ Len(q) = Len(r) + 1 /\ q[1] = p
        /\ \A i \in 1 .. Len(r) : q[i + 1] = r[i]
    BY <2>3, <2>4
  <2>6. q # <<>> /\ Head(q) = p
    BY <2>3, <2>5
  <2>7. Tail(q) \in Seq(Q) /\ Len(Tail(q)) = Len(r) /\ \A i \in 1 .. Len(r) : Tail(q)[i] = q[i + 1]
    BY <2>3, <2>5, <2>6
  <2>8. Tail(q) = r
    BY <2>3, <2>5, <2>7, SeqEqual
  <2>9. QED BY <2>1, <2>2, <2>4, <2>5, <2>6, <2>8
<1>3. ASSUME NEW r \in Seq(Queued)
      PROVE  /\ r \in Seq(Queued \cup {InProgress})
             /\ r # <<>> => Head(r) \in Queued /\ Tail(r) \in Seq(Queued)
  OBVIOUS
<1>4. QED BY <1>1, <1>2, <1>3

LEMMA RestFacts ==
  ASSUME NEW r \in Seq(Queued)
  PROVE  /\ QueueOK(<<InProgress>> \o r) /\ Rest(<<InProgress>> \o r) = r
         /\ QueueOK(<<>>) /\ Rest(<<>>) = <<>>
<1>1. QueueOK(<<InProgress>> \o r) /\ Rest(<<InProgress>> \o r) = r
  BY SentinelFacts DEF QueueOK, Rest
<1>2. QueueOK(<<>>) /\ Rest(<<>>) = <<>>
  BY DEF QueueOK, Rest
<1>3. QED BY <1>1, <1>2

LEMMA QueueIs ==
  ASSUME NEW q \in Seq(Queued \cup {InProgress}), QueueOK(q)
  PROVE  Rest(q) \in Seq(Queued) /\ (q = <<>> \/ q = <<InProgress>> \o Rest(q))
<1>1. CASE q = <<>>
  BY <1>1 DEF QueueOK
<1>2. CASE q # <<>>
  <2>1. Rest(q) = Tail(q) /\ Head(q) = InProgress /\ Rest(q) \in Seq(Queued)
    BY <1>2 DEF Rest, QueueOK
  <2>2. PICK r \in Seq(Queued) : r = Rest(q)
    BY <2>1
  <2>3. PICK p : p = InProgress
    OBVIOUS
  <2>4. PICK Q : Q = Queued \cup {p}
    OBVIOUS
  <2>5. q \in Seq(Q) /\ q # <<>> /\ Head(q) = p /\ Tail(q) = r
    BY <1>2, <2>1, <2>2, <2>3, <2>4
  <2>6. Len(q) = Len(r) + 1 /\ Len(r) \in Nat /\ q[1] = p /\ \A i \in 1 .. Len(r) : q[i + 1] = r[i]
    BY <2>5
  <2>7. PICK c : c = <<p>> \o r
    OBVIOUS
  <2>8. r \in Seq(Q) /\ <<p>> \in Seq(Q)
    BY <2>2, <2>4
  <2>9. c \in Seq(Q) /\ Len(c) = Len(r) + 1 /\ c[1] = p /\ \A i \in 1 .. Len(r) : c[i + 1] = r[i]
    BY <2>6, <2>7, <2>8
  <2>10. \A i \in 1 .. Len(r) + 1 : q[i] = c[i]
    <3>1. ASSUME NEW i \in 1 .. Len(r) + 1 PROVE q[i] = c[i]
      <4>1. CASE i = 1
        BY <2>6, <2>9, <4>1
      <4>2. CASE i # 1
        <5>1. i - 1 \in 1 .. Len(r) /\ (i - 1) + 1 = i
          BY <2>6, <4>2
        <5>2. QED BY <2>6, <2>9, <5>1
      <4>3. QED BY <4>1, <4>2
    <3>2. QED BY <3>1
  <2>11. q = c
    BY <2>5, <2>6, <2>9, <2>10, SeqEqual
  <2>12. QED BY <2>1, <2>2, <2>3, <2>7, <2>11
<1>3. QED BY <1>1, <1>2

\* g is f after dequeue, where r was queued.
Goes(f, g, r) ==
    /\ g \in Fx /\ QueueOK(g.queue) /\ (g.queue # <<>> => g.hooked)
    /\ g.inProgress = f.inProgress /\ g.hide = f.hide /\ g.ended = f.ended
    /\ r = <<>> =>
          /\ g.queue = <<>> /\ g.waiting = {} /\ g.timers = f.timers
          /\ Look(g) = Look(f) /\ (Clean(f) => Clean(g))
    /\ r # <<>> =>
          /\ g.queue # <<>> /\ Rest(g.queue) = Tail(r)
          /\ g.waiting = f.waiting /\ Runs(f, g, Head(r))

LEMMA DequeuedFacts ==
  ASSUME NEW f \in Fx, NEW r \in Seq(Queued), f.queue = r \/ f.queue = <<InProgress>> \o r,
         r # <<>> => f.hooked
  PROVE  Goes(f, Dequeued(f), r)
<1>1. (IF f.queue # <<>> /\ Head(f.queue) = InProgress THEN Tail(f.queue) ELSE f.queue) = r
  <2>1. CASE f.queue = <<InProgress>> \o r
    BY <2>1, SentinelFacts
  <2>2. CASE f.queue = r
    BY <2>2, SentinelFacts
  <2>3. QED BY <2>1, <2>2
<1>2. CASE r = <<>>
  <2>1. PICK g : g = [f EXCEPT !.queue = <<>>, !.waiting = {}, !.hooked = FALSE]
    OBVIOUS
  <2>2. Dequeued(f) = g
    BY <1>1, <1>2, <2>1 DEF Dequeued
  <2>3. /\ g \in Fx
        /\ g.inProgress = f.inProgress /\ g.hide = f.hide /\ g.ended = f.ended
        /\ g.queue = <<>> /\ g.waiting = {} /\ g.timers = f.timers
        /\ g.inline = f.inline /\ g.height = f.height /\ g.fxshow = f.fxshow
    <3>1. <<>> \in Seq(Queued \cup {InProgress}) /\ {} \in SUBSET (1 .. MaxPromises)
      OBVIOUS
    <3>2. g \in Fx
      BY <2>1, <3>1 DEF Fx
    <3>3. QED BY <2>1, <3>2 DEF Fx
  <2>4. Look(g) = Look(f) /\ (Clean(f) => Clean(g))
    BY <2>3 DEF Look, Hidden, Clean
  <2>5. QueueOK(g.queue)
    BY <2>3, RestFacts
  <2>6. QED BY <1>2, <2>2, <2>3, <2>4, <2>5 DEF Goes
<1>3. CASE r # <<>>
  <2>1. PICK q : q = <<InProgress>> \o Tail(r)
    OBVIOUS
  <2>2. /\ q \in Seq(Queued \cup {InProgress}) /\ q # <<>> /\ QueueOK(q) /\ Rest(q) = Tail(r)
        /\ Head(r) \in Queued
    BY <1>3, <2>1, SentinelFacts, RestFacts
  <2>3. PICK x : x = [f EXCEPT !.queue = q]
    OBVIOUS
  <2>4. Dequeued(f) = Started(x, Head(r))
    BY <1>1, <1>3, <2>1, <2>3 DEF Dequeued
  <2>5. /\ x \in Fx
        /\ x.inProgress = f.inProgress /\ x.hide = f.hide /\ x.ended = f.ended
        /\ x.queue = q /\ x.waiting = f.waiting /\ x.timers = f.timers /\ x.hooked = f.hooked
        /\ x.inline = f.inline /\ x.height = f.height /\ x.fxshow = f.fxshow
    BY <2>2, <2>3 DEF Fx
  <2>6. Look(x) = Look(f) /\ (Clean(f) => Clean(x))
    BY <2>5 DEF Look, Hidden, Clean
  <2>7. PICK g : g = Started(x, Head(r))
    OBVIOUS
  <2>8. g \in Fx /\ Kept(x, g) /\ Runs(x, g, Head(r))
    BY <2>2, <2>5, <2>7, StartedFacts
  <2>9. Runs(f, g, Head(r))
    BY <2>5, <2>6, <2>8 DEF Runs
  <2>10. QED BY <1>3, <2>2, <2>4, <2>5, <2>7, <2>8, <2>9 DEF Kept, Goes
<1>4. QED BY <1>2, <1>3

\* A slide ends, behind which r is queued.
LEMMA CompletedFacts ==
  ASSUME NEW f \in Fx, NEW t \in Timer, NEW r \in Seq(Queued),
         f.queue = r \/ f.queue = <<InProgress>> \o r, r # <<>> => f.hooked
  PROVE  \E s \in Fx :
           /\ Goes(s, Completed(f, t), r)
           /\ s.timers = f.timers /\ s.waiting = f.waiting /\ s.inProgress = f.inProgress
           /\ s.hide = f.hide /\ s.ended = f.ended \cup {t.id}
           /\ Look(s) = LookAfter(f, t) /\ (CleanAfter(f, t) => Clean(s))
<1>1. PICK x : x = Settled(f, t)
  OBVIOUS
<1>2. /\ x \in Fx /\ Kept(f, x) /\ x.timers = f.timers
      /\ Look(x) = LookAfter(f, t) /\ (CleanAfter(f, t) => Clean(x))
  BY <1>1, SettledFacts
<1>3. PICK s : s = [x EXCEPT !.ended = @ \cup {t.id}]
  OBVIOUS
<1>4. t.id \in Slides
  BY DEF Timer
<1>5. /\ s \in Fx /\ s.ended = x.ended \cup {t.id}
      /\ s.queue = x.queue /\ s.inProgress = x.inProgress
      /\ s.hide = x.hide /\ s.hooked = x.hooked /\ s.waiting = x.waiting
      /\ s.timers = x.timers /\ s.inline = x.inline /\ s.height = x.height
      /\ s.fxshow = x.fxshow
  BY <1>2, <1>3, <1>4 DEF Fx
<1>6. Look(s) = Look(x) /\ (Clean(x) => Clean(s))
  BY <1>5 DEF Look, Hidden, Clean
<1>7. Completed(f, t) = Dequeued(s)
  BY <1>1, <1>3 DEF Completed
<1>8. Goes(s, Dequeued(s), r)
  <2>1. s.queue = f.queue /\ s.hooked = f.hooked
    BY <1>2, <1>5 DEF Kept
  <2>2. QED BY <1>5, <2>1, DequeuedFacts
<1>9. QED BY <1>2, <1>5, <1>6, <1>7, <1>8 DEF Kept

-----------------------------------------------------------------------------
(* Where the queue leads to.                                               *)

LEMMA LookFacts ==
  /\ \A f : Look(f) \in {"hidden", "shown"}
  /\ \A look, what : Turned(look, what) \in {"hidden", "shown"}
  /\ \A look1, look2, what : what # "toggle" => Turned(look1, what) = Turned(look2, what)
BY DEF Look, Turned

LEMMA LeadsNowhere ==
  ASSUME NEW look \in {"hidden", "shown"}
  PROVE  Leading(look, <<>>, look) /\ \A last : Leading(look, <<>>, last) => last = look
<1>1. Leading(look, <<>>, look)
  <2>1. PICK v : v = [k \in 0 .. 0 |-> look]
    OBVIOUS
  <2>2. v \in [0 .. 0 -> {"hidden", "shown"}] /\ v[0] = look /\ Len(<<>>) = 0
    BY <2>1
  <2>3. Leads(look, <<>>, v, look)
    BY <2>2 DEF Leads
  <2>4. QED BY <2>2, <2>3 DEF Leading
<1>2. ASSUME NEW last, Leading(look, <<>>, last) PROVE last = look
  <2>1. PICK v : Leads(look, <<>>, v, last)
    BY <1>2 DEF Leading
  <2>2. Len(<<>>) = 0
    OBVIOUS
  <2>3. v[0] = look /\ v[0] = last
    BY <2>1, <2>2 DEF Leads
  <2>4. QED BY <2>3
<1>3. QED BY <1>1, <1>2

\* A slide more.
LEMMA LeadsFurther ==
  ASSUME NEW r \in Seq(Queued), NEW look, NEW last, Leading(look, r, last),
         NEW e \in Queued, NEW look2, e.what # "toggle" \/ look2 = look
  PROVE  Leading(look2, Append(r, e), Turned(last, e.what))
<1> DEFINE n == Len(r)
<1>0. n \in Nat
  OBVIOUS
<1>1. PICK v : Leads(look, r, v, last)
  BY DEF Leading
<1>2. PICK a : a = Append(r, e)
  OBVIOUS
<1>3. Len(a) = n + 1 /\ a[n + 1] = e /\ \A k \in 1 .. n : a[k] = r[k]
  BY <1>2
<1>4. PICK w : w = [k \in 0 .. n + 1 |-> IF k = n + 1 THEN Turned(last, e.what) ELSE v[k]]
  OBVIOUS
<1>5. w[n + 1] = Turned(last, e.what) /\ \A k \in 0 .. n : w[k] = v[k]
  BY <1>0, <1>4
<1> HIDE DEF n
<1>6. /\ v \in [0 .. n -> {"hidden", "shown"}] /\ v[n] = last
      /\ \A k \in 1 .. n : v[k] = Turned(v[k - 1], r[k].what)
      /\ (\A k \in 1 .. n : r[k].what = "toggle") => v[0] = look
  BY <1>1 DEF Leads, n
<1>7. w \in [0 .. n + 1 -> {"hidden", "shown"}]
  <2>1. \A k \in 0 .. n + 1 : w[k] \in {"hidden", "shown"}
    BY <1>0, <1>5, <1>6, LookFacts
  <2>2. QED BY <1>4, <2>1
<1>8. ASSUME NEW k \in 1 .. n + 1 PROVE w[k] = Turned(w[k - 1], a[k].what)
  <2>1. CASE k = n + 1
    <3>1. w[n] = last
      BY <1>0, <1>5, <1>6
    <3>2. n = k - 1 /\ a[k] = e
      BY <1>0, <1>3, <2>1
    <3>3. QED BY <1>5, <2>1, <3>1, <3>2
  <2>2. CASE k # n + 1
    <3>1. k \in 1 .. n /\ k \in 0 .. n /\ k - 1 \in 0 .. n
      BY <1>0, <2>2
    <3>2. QED BY <1>3, <1>5, <1>6, <3>1
  <2>3. QED BY <2>1, <2>2
<1>9. (\A k \in 1 .. n + 1 : a[k].what = "toggle") => w[0] = look2
  <2>1. ASSUME \A k \in 1 .. n + 1 : a[k].what = "toggle" PROVE w[0] = look2
    <3>1. e.what = "toggle" /\ \A k \in 1 .. n : r[k].what = "toggle"
      BY <1>0, <1>3, <2>1
    <3>2. QED BY <1>0, <1>5, <1>6, <3>1
  <2>2. QED BY <2>1
<1>10. Leads(look2, a, w, Turned(last, e.what))
  BY <1>3, <1>5, <1>7, <1>8, <1>9 DEF Leads
<1>11. QED BY <1>2, <1>3, <1>7, <1>10 DEF Leading

\* The first slide has been done.
LEMMA LeadsOn ==
  ASSUME NEW r \in Seq(Queued), r # <<>>, NEW look, NEW last, Leading(look, r, last)
  PROVE  Leading(Turned(look, Head(r).what), Tail(r), last)
<1>0. PICK n : n = Len(r) - 1
  OBVIOUS
<1>1. PICK v : Leads(look, r, v, last)
  BY DEF Leading
<1>2. PICK t : t = Tail(r)
  OBVIOUS
<1>3. n \in Nat /\ Len(r) = n + 1 /\ Len(t) = n /\ \A k \in 1 .. n : t[k] = r[k + 1]
  BY <1>0, <1>2
<1>4. Head(r) = r[1]
  OBVIOUS
<1>5. /\ v \in [0 .. n + 1 -> {"hidden", "shown"}] /\ v[n + 1] = last
      /\ \A k \in 1 .. n + 1 : v[k] = Turned(v[k - 1], r[k].what)
      /\ (\A k \in 1 .. n + 1 : r[k].what = "toggle") => v[0] = look
  BY <1>1, <1>3 DEF Leads
<1>6. PICK w : w = [k \in 0 .. n |-> v[k + 1]]
  OBVIOUS
<1>7. \A k \in 0 .. n : w[k] = v[k + 1]
  BY <1>6
<1>8. w \in [0 .. n -> {"hidden", "shown"}] /\ w[n] = last
  BY <1>3, <1>5, <1>6
<1>9. ASSUME NEW k \in 1 .. n PROVE w[k] = Turned(w[k - 1], t[k].what)
  <2>1. /\ k + 1 \in 1 .. n + 1 /\ k \in 0 .. n /\ k - 1 \in 0 .. n
        /\ (k + 1) - 1 = k /\ (k - 1) + 1 = k
    BY <1>3
  <2>2. w[k] = v[k + 1] /\ w[k - 1] = v[k] /\ t[k] = r[k + 1]
    BY <1>3, <1>7, <2>1
  <2>3. v[k + 1] = Turned(v[k], r[k + 1].what)
    BY <1>5, <2>1
  <2>4. QED BY <2>2, <2>3
<1>10. ASSUME \A k \in 1 .. n : t[k].what = "toggle" PROVE w[0] = Turned(look, Head(r).what)
  <2>1. w[0] = Turned(v[0], r[1].what)
    <3>1. 1 \in 1 .. n + 1 /\ 0 \in 0 .. n
      BY <1>3
    <3>2. v[1] = Turned(v[0], r[1].what) /\ w[0] = v[1]
      BY <1>5, <1>7, <3>1
    <3>3. QED BY <3>2
  <2>2. CASE r[1].what = "toggle"
    <3>1. ASSUME NEW k \in 1 .. n + 1 PROVE r[k].what = "toggle"
      <4>1. CASE k = 1
        BY <2>2, <4>1
      <4>2. CASE k # 1
        <5>1. k - 1 \in 1 .. n /\ (k - 1) + 1 = k
          BY <1>3, <4>2
        <5>2. QED BY <1>3, <1>10, <5>1
      <4>3. QED BY <4>1, <4>2
    <3>2. v[0] = look
      BY <1>5, <3>1
    <3>3. QED BY <1>4, <2>1, <3>2
  <2>3. CASE r[1].what # "toggle"
    BY <1>4, <2>1, <2>3, LookFacts
  <2>4. QED BY <2>2, <2>3
<1>11. Leads(Turned(look, Head(r).what), t, w, last)
  BY <1>3, <1>8, <1>9, <1>10 DEF Leads
<1>12. QED BY <1>2, <1>3, <1>8, <1>11 DEF Leading

-----------------------------------------------------------------------------
(* The invariant after a dequeue.                                          *)

\* What a promise waits for, where r is queued.
Waits(f, r, pr) ==
    \A p \in DOMAIN pr :
        /\ pr[p] \subseteq f.ended \cup IdsIn(r)
        /\ p \notin f.waiting => pr[p] \subseteq f.ended

LEMMA InIdsIn ==
  ASSUME NEW r \in Seq(Queued)
  PROVE  /\ r = <<>> => IdsIn(r) = {}
         /\ r # <<>> => IdsIn(r) = {Head(r).id} \cup IdsIn(Tail(r))
         /\ \A e : IdsIn(Append(r, e)) = IdsIn(r) \cup {e.id}
<1>1. Len(r) \in Nat /\ DOMAIN r = 1 .. Len(r)
  OBVIOUS
<1>2. r = <<>> => IdsIn(r) = {}
  BY DEF IdsIn, ToSet
<1>3. ASSUME r # <<>> PROVE IdsIn(r) = {Head(r).id} \cup IdsIn(Tail(r))
  <2>1. PICK t : t = Tail(r)
    OBVIOUS
  <2>2. /\ Head(r) = r[1] /\ DOMAIN t = 1 .. Len(r) - 1
        /\ \A k \in 1 .. Len(r) - 1 : t[k] = r[k + 1]
    BY <1>1, <1>3, <2>1
  <2>3. ToSet(r) = {r[1]} \cup ToSet(t)
    <3>1. ASSUME NEW k \in DOMAIN r PROVE r[k] \in {r[1]} \cup ToSet(t)
      <4>1. CASE k = 1
        BY <4>1
      <4>2. CASE k # 1
        <5>1. k - 1 \in DOMAIN t /\ t[k - 1] = r[k]
          BY <1>1, <2>2, <4>2
        <5>2. QED BY <5>1 DEF ToSet
      <4>3. QED BY <4>1, <4>2
    <3>2. ASSUME NEW k \in DOMAIN t PROVE t[k] \in ToSet(r)
      <4>1. k + 1 \in DOMAIN r /\ t[k] = r[k + 1]
        BY <1>1, <2>2
      <4>2. QED BY <4>1 DEF ToSet
    <3>3. r[1] \in ToSet(r)
      <4>1. 1 \in DOMAIN r
        BY <1>1, <1>3
      <4>2. QED BY <4>1 DEF ToSet
    <3>4. QED BY <3>1, <3>2, <3>3 DEF ToSet
  <2>4. QED BY <2>1, <2>2, <2>3 DEF IdsIn
<1>4. ASSUME NEW e PROVE IdsIn(Append(r, e)) = IdsIn(r) \cup {e.id}
  <2>1. PICK a : a = Append(r, e)
    OBVIOUS
  <2>2. /\ DOMAIN a = 1 .. Len(r) + 1 /\ a[Len(r) + 1] = e
        /\ \A k \in 1 .. Len(r) : a[k] = r[k]
    BY <1>1, <2>1
  <2>3. ToSet(a) = ToSet(r) \cup {e}
    <3>1. ASSUME NEW k \in DOMAIN a PROVE a[k] \in ToSet(r) \cup {e}
      <4>1. CASE k = Len(r) + 1
        BY <2>2, <4>1
      <4>2. CASE k # Len(r) + 1
        <5>1. k \in DOMAIN r /\ a[k] = r[k]
          BY <1>1, <2>2, <4>2
        <5>2. QED BY <5>1 DEF ToSet
      <4>3. QED BY <4>1, <4>2
    <3>2. ASSUME NEW k \in DOMAIN r PROVE r[k] \in ToSet(a)
      <4>1. k \in DOMAIN a /\ a[k] = r[k]
        BY <1>1, <2>2
      <4>2. QED BY <4>1 DEF ToSet
    <3>3. e \in ToSet(a)
      <4>1. Len(r) + 1 \in DOMAIN a
        BY <1>1, <2>2
      <4>2. QED BY <2>2, <4>1 DEF ToSet
    <3>4. QED BY <3>1, <3>2, <3>3 DEF ToSet
  <2>4. QED BY <2>1, <2>3 DEF IdsIn
<1>5. QED BY <1>2, <1>3, <1>4

\* Nothing was on in s, and g is what dequeue makes of it.
LEMMA GoesFrom ==
  ASSUME NEW s \in Fx, NEW r \in Seq(Queued), NEW g, Goes(s, g, r),
         NoneOn(s.timers), NEW th
  PROVE  /\ Base(g, th)
         /\ r = <<>> => NoneOn(g.timers) /\ g.timers = s.timers
         /\ \A a : /\ NoneLeft(s.timers) /\ Clean(s)
                   /\ Leading(Look(s), r, Asked(a))
                   => AsAsked(g, a)
         /\ \A pr : Waits(s, r, pr) => PromisesOK(g, pr)
<1>0. s.timers \in Seq(Timer) /\ g \in Fx /\ g.timers \in Seq(Timer)
  BY DEF Fx, Goes
<1>1. CASE r = <<>>
  <2>1. /\ QueueOK(g.queue) /\ g.queue = <<>> /\ g.waiting = {} /\ g.timers = s.timers
        /\ Look(g) = Look(s) /\ (Clean(s) => Clean(g)) /\ g.ended = s.ended
    BY <1>1 DEF Goes
  <2>2. Base(g, th)
    BY <1>0, <2>1 DEF Base
  <2>3. ASSUME NEW a, NoneLeft(s.timers), Clean(s), Leading(Look(s), r, Asked(a))
        PROVE  AsAsked(g, a)
    <3>1. NextLook(g, Look(s))
      BY <2>1, <2>3, OnlyOne DEF NextLook
    <3>2. Rest(g.queue) = r
      BY <1>1, <2>1 DEF Rest
    <3>3. QED BY <2>1, <2>3, <3>1, <3>2, LookFacts DEF AsAsked
  <2>4. ASSUME NEW pr, Waits(s, r, pr) PROVE PromisesOK(g, pr)
    <3>1. IdsIn(r) = {}
      BY <1>1, InIdsIn
    <3>2. \A p \in DOMAIN pr : pr[p] \subseteq g.ended
      BY <2>1, <2>4, <3>1 DEF Waits
    <3>3. QED BY <3>2 DEF PromisesOK
  <2>5. QED BY <1>1, <2>1, <2>2, <2>3, <2>4
<1>2. CASE r # <<>>
  <2>1. /\ QueueOK(g.queue) /\ g.queue # <<>> /\ g.hooked /\ Rest(g.queue) = Tail(r)
        /\ g.waiting = s.waiting /\ g.ended = s.ended /\ Runs(s, g, Head(r))
    BY <1>2 DEF Goes
  <2>2. PICK u \in Timer :
          /\ u.id = Head(r).id /\ u.is = "on"
          /\ g.timers = Append(s.timers, u)
          /\ Clean(s) => LookAfter(g, u) = Turned(Look(s), Head(r).what) /\ CleanAfter(g, u)
    BY <2>1 DEF Runs
  <2>3. OneOn(g.timers, u) /\ (NoneLeft(s.timers) => NoneLeft(g.timers))
    BY <1>0, <2>2, Appended
  <2>4. Base(g, th)
    BY <1>0, <2>1, <2>3 DEF Base
  <2>5. ASSUME NEW a, NoneLeft(s.timers), Clean(s), Leading(Look(s), r, Asked(a))
        PROVE  AsAsked(g, a)
    <3>1. PICK look : look = Turned(Look(s), Head(r).what)
      OBVIOUS
    <3>2. Leading(look, Rest(g.queue), Asked(a))
      BY <1>2, <2>1, <2>5, <3>1, LeadsOn
    <3>3. NextLook(g, look)
      BY <2>2, <2>3, <2>5, <3>1, OnlyOne DEF NextLook
    <3>4. look \in {"hidden", "shown"}
      BY <3>1, LookFacts
    <3>5. QED BY <2>3, <2>5, <3>2, <3>3, <3>4 DEF AsAsked
  <2>6. ASSUME NEW pr, Waits(s, r, pr) PROVE PromisesOK(g, pr)
    <3>1. IdsIn(r) = {u.id} \cup IdsIn(Tail(r))
      BY <1>2, <2>2, InIdsIn
    <3>2. IdsOn(g.timers) = {u.id}
      BY <1>0, <2>3, IdsFacts
    <3>3. QED BY <2>1, <2>6, <3>1, <3>2 DEF PromisesOK, Waits
  <2>7. QED BY <1>2, <2>4, <2>5, <2>6
<1>3. QED BY <1>1, <1>2

-----------------------------------------------------------------------------
(* Calls of slideDown, slideUp and slideToggle.                            *)

\* g is f but for the loop of frames.
Alike(f, g) ==
    /\ g \in Fx
    /\ g.queue = f.queue /\ g.timers = f.timers /\ g.hide = f.hide /\ g.inline = f.inline
    /\ g.height = f.height /\ g.fxshow = f.fxshow /\ g.hooked = f.hooked
    /\ g.waiting = f.waiting /\ g.ended = f.ended

LEMMA AlikeFacts ==
  ASSUME NEW f, NEW g, Alike(f, g)
  PROVE  /\ \A th : Base(f, th) => Base(g, th)
         /\ \A a : AsAsked(f, a) => AsAsked(g, a)
         /\ \A pr : PromisesOK(f, pr) => PromisesOK(g, pr)
<1>1. \A th : Base(f, th) => Base(g, th)
  BY DEF Alike, Base
<1>2. Look(g) = Look(f) /\ (Clean(f) => Clean(g))
  BY DEF Alike, Look, Hidden, Clean
<1>3. \A u : LookAfter(g, u) = LookAfter(f, u) /\ (CleanAfter(f, u) => CleanAfter(g, u))
  BY <1>2 DEF LookAfter, CleanAfter
<1>4. \A look : NextLook(f, look) => NextLook(g, look)
  BY <1>2, <1>3 DEF NextLook, Alike
<1>5. \A a : AsAsked(f, a) => AsAsked(g, a)
  BY <1>4 DEF AsAsked, Alike
<1>6. \A pr : PromisesOK(f, pr) => PromisesOK(g, pr)
  BY DEF PromisesOK, Alike
<1>7. QED BY <1>1, <1>5, <1>6

\* What an idle panel, or one a slide is on of, looks like.
NextClean(f) ==
    /\ NoneOn(f.timers) => Clean(f)
    /\ \A u \in Timer : OneOn(f.timers, u) => CleanAfter(f, u)

LEMMA CleanFacts ==
  ASSUME NEW f, NEW g, g.height = f.height, g.fxshow = f.fxshow
  PROVE  /\ Clean(f) => Clean(g)
         /\ \A u : CleanAfter(f, u) => CleanAfter(g, u)
<1>1. Clean(f) => Clean(g)
  BY DEF Clean
<1>2. \A u : CleanAfter(f, u) => CleanAfter(g, u)
  BY <1>1 DEF CleanAfter
<1>3. QED BY <1>1, <1>2

LEMMA SameLook ==
  ASSUME NEW f, NEW g, g.inline = f.inline, g.hide = f.hide
  PROVE  Look(g) = Look(f) /\ \A u : LookAfter(g, u) = LookAfter(f, u)
BY DEF Look, Hidden, LookAfter

\* Without its class a panel that is shown stays so.
LEMMA StillShown ==
  ASSUME NEW f, NEW g, g.inline = f.inline, ~g.hide, NEW u, LookAfter(f, u) = "shown"
  PROVE  LookAfter(g, u) = "shown"
<1>1. ~ (u.hides /\ ~u.noop) /\ Look(f) = "shown"
  BY DEF LookAfter
<1>2. ~Hidden(f)
  BY <1>1 DEF Look
<1>3. ~Hidden(g)
  BY <1>2 DEF Hidden
<1>4. QED BY <1>1, <1>3 DEF LookAfter, Look

\* h is f after a slide was asked for.
Slid(f, h, what) ==
    /\ h \in Fx /\ Base(h, throws) /\ h.inProgress = f.inProgress
    /\ \A pr : PromisesOK(f, pr) => PromisesOK(h, pr)
    /\ \A a, a2, look :
          /\ throws = 0 /\ NoneLeft(f.timers) /\ NextClean(f)
          /\ Leading(look, Rest(f.queue), Asked(a))
          /\ what = "toggle" => NextLook(f, look)
          /\ Asked(a2) = Turned(Asked(a), what)
          => AsAsked(h, a2)

\* A slide is queued, or starts, and the class of the panel is set.
LEMMA SlideFacts ==
  ASSUME NEW f \in Fx, Base(f, throws), slides \in Nat, slides < MaxSlides,
         NEW what \in What, NEW class \in BOOLEAN,
         f.hide = class \/ (what = "show" /\ ~class),
         NEW h, h = [Enqueued(f, what) EXCEPT !.hide = class]
  PROVE  Slid(f, h, what)
<1> DEFINE e == [id |-> slides + 1, what |-> what]
           r == Rest(f.queue)
<1>1. e \in Queued /\ e.what = what
  BY EffectsAssumption DEF Queued, Slides
<1>2. f.queue \in Seq(Queued \cup {InProgress}) /\ f.timers \in Seq(Timer) /\ QueueOK(f.queue)
  BY DEF Fx, Base
<1>3. r \in Seq(Queued) /\ (f.queue = <<>> \/ f.queue = <<InProgress>> \o r)
  BY <1>2, QueueIs
<1>4. PICK g : g = [f EXCEPT !.queue = Append(@, e), !.hooked = TRUE]
  OBVIOUS
<1>5. PICK q : q = Append(f.queue, e)
  OBVIOUS
<1>6. q \in Seq(Queued \cup {InProgress}) /\ q # <<>>
  BY <1>1, <1>2, <1>5
<1>7. /\ g \in Fx /\ g.queue = q /\ g.hooked /\ g.timers = f.timers /\ g.hide = f.hide
      /\ g.inline = f.inline /\ g.height = f.height /\ g.fxshow = f.fxshow
      /\ g.waiting = f.waiting /\ g.ended = f.ended /\ g.inProgress = f.inProgress
  BY <1>4, <1>5, <1>6 DEF Fx
<1>8. Enqueued(f, what) = IF Head(g.queue) = InProgress THEN g ELSE Dequeued(g)
  BY <1>4 DEF Enqueued
<1>9. Append(r, e) \in Seq(Queued) /\ Append(r, e) # <<>>
  BY <1>1, <1>3
<1>10. IdsIn(Append(r, e)) = IdsIn(r) \cup {e.id}
  BY <1>3, InIdsIn
<1>11. ASSUME NEW a, NEW a2, NEW look, NEW look2,
              Leading(look, r, Asked(a)), what = "toggle" => look2 = look,
              Asked(a2) = Turned(Asked(a), what)
       PROVE  Leading(look2, Append(r, e), Asked(a2))
  <2> HIDE DEF e, r
  <2> QED BY <1>1, <1>3, <1>11, LeadsFurther
<1> HIDE DEF e, r
<1>12. CASE f.queue # <<>>
  <2>1. q = <<InProgress>> \o Append(r, e)
    <3>1. PICK Q : Q = Queued \cup {InProgress}
      OBVIOUS
    <3>2. PICK p \in Q : p = InProgress
      BY <3>1
    <3>3. r \in Seq(Q) /\ e \in Q
      BY <1>1, <1>3, <3>1
    <3>4. Append(<<p>> \o r, e) = <<p>> \o Append(r, e)
      BY <3>3
    <3>5. QED BY <1>3, <1>5, <1>12, <3>2, <3>4
  <2>2. QueueOK(q) /\ Rest(q) = Append(r, e) /\ Head(q) = InProgress
    BY <1>9, <2>1, RestFacts, SentinelFacts
  <2>3. Enqueued(f, what) = g
    BY <1>7, <1>8, <2>2
  <2>4. /\ h \in Fx /\ h.queue = q /\ h.hooked /\ h.timers = f.timers /\ h.hide = class
        /\ h.inline = f.inline /\ h.height = f.height /\ h.fxshow = f.fxshow
        /\ h.waiting = f.waiting /\ h.ended = f.ended /\ h.inProgress = f.inProgress
    BY <1>7, <2>3 DEF Fx
  <2>5. Base(h, throws)
    BY <1>6, <1>12, <2>2, <2>4 DEF Base
  <2>6. ASSUME NEW pr, PromisesOK(f, pr) PROVE PromisesOK(h, pr)
    BY <1>10, <2>2, <2>4, <2>6 DEF PromisesOK, r
  <2>7. ASSUME NEW a, NEW a2, NEW look, throws = 0, NoneLeft(f.timers), NextClean(f),
               Leading(look, r, Asked(a)), what = "toggle" => NextLook(f, look),
               Asked(a2) = Turned(Asked(a), what)
        PROVE  AsAsked(h, a2)
    <3>1. PICK u \in Timer : OneOn(f.timers, u)
      BY <1>12, <2>7 DEF Base
    <3>2. NextLook(h, LookAfter(h, u))
      <4>1. CleanAfter(h, u)
        BY <2>4, <2>7, <3>1, CleanFacts DEF NextClean
      <4>2. QED BY <2>4, <3>1, <4>1, OnlyOne DEF NextLook
    <3>3. what = "toggle" => LookAfter(h, u) = look
      <4>1. ASSUME what = "toggle" PROVE LookAfter(h, u) = look
        <5>1. h.hide = f.hide
          BY <2>4, <4>1
        <5>2. LookAfter(h, u) = LookAfter(f, u)
          BY <2>4, <5>1, SameLook
        <5>3. look = LookAfter(f, u)
          BY <2>7, <3>1, <4>1 DEF NextLook
        <5>4. QED BY <5>2, <5>3
      <4>2. QED BY <4>1
    <3>4. LookAfter(h, u) \in {"hidden", "shown"}
      BY LookFacts DEF LookAfter
    <3>5. Leading(LookAfter(h, u), Append(r, e), Asked(a2))
      BY <1>11, <2>7, <3>3
    <3>6. QED BY <2>2, <2>4, <2>7, <3>2, <3>4, <3>5 DEF AsAsked
  <2>8. QED BY <2>4, <2>5, <2>6, <2>7 DEF r, Slid
<1>13. CASE f.queue = <<>>
  <2>1. r = <<>> /\ NoneOn(f.timers)
    BY <1>13 DEF Base, r, Rest
  <2>2. q = <<e>> /\ Append(r, e) = <<e>> /\ Head(q) = e /\ e # InProgress
    BY <1>1, <1>5, <1>13, <2>1, SentinelFacts
  <2>3. PICK k : k = Dequeued(g)
    OBVIOUS
  <2>4. Enqueued(f, what) = k
    BY <1>7, <1>8, <2>2, <2>3
  <2>5. Goes(g, k, q)
    BY <1>7, <1>9, <2>2, <2>3, DequeuedFacts
  <2>6. /\ Base(k, throws)
        /\ \A a : /\ NoneLeft(g.timers) /\ Clean(g) /\ Leading(Look(g), q, Asked(a))
                  => AsAsked(k, a)
        /\ \A pr : Waits(g, q, pr) => PromisesOK(k, pr)
    BY <1>7, <1>9, <2>1, <2>2, <2>5, GoesFrom
  <2>7. PICK u \in Timer : k.timers = Append(f.timers, u) /\ u.is = "on"
    BY <1>6, <1>7, <2>5 DEF Goes, Runs
  <2>8. OneOn(k.timers, u)
    BY <1>2, <2>1, <2>7, Appended
  <2>9. k \in Fx /\ k.inProgress = f.inProgress /\ k.queue # <<>> /\ Rest(k.queue) = <<>>
        /\ k.hide = f.hide
    BY <1>1, <1>6, <1>7, <2>2, <2>5 DEF Goes
  <2>10. /\ h \in Fx /\ h.queue = k.queue /\ h.hooked = k.hooked /\ h.timers = k.timers
         /\ h.hide = class
         /\ h.inline = k.inline /\ h.height = k.height /\ h.fxshow = k.fxshow
         /\ h.waiting = k.waiting /\ h.ended = k.ended /\ h.inProgress = k.inProgress
    BY <2>4, <2>9 DEF Fx
  <2>11. Base(h, throws)
    BY <2>6, <2>10 DEF Base
  <2>12. ASSUME NEW pr, PromisesOK(f, pr) PROVE PromisesOK(h, pr)
    <3>1. IdsOn(f.timers) = {} /\ IdsIn(r) = {}
      BY <1>2, <1>3, <2>1, IdsFacts, InIdsIn
    <3>2. Waits(g, q, pr)
      BY <1>7, <2>12, <3>1 DEF Waits, PromisesOK, r
    <3>3. QED BY <2>6, <2>10, <3>2 DEF PromisesOK
  <2>13. ASSUME NEW a, NEW a2, NEW look, throws = 0, NoneLeft(f.timers), NextClean(f),
                Leading(look, r, Asked(a)), what = "toggle" => NextLook(f, look),
                Asked(a2) = Turned(Asked(a), what)
         PROVE  AsAsked(h, a2)
    <3>1. Clean(g) /\ Look(g) = Look(f)
      BY <1>7, <2>1, <2>13, CleanFacts, SameLook DEF NextClean
    <3>2. what = "toggle" => Look(f) = look
      BY <2>1, <2>13 DEF NextLook
    <3>3. Leading(Look(f), q, Asked(a2))
      BY <1>11, <2>2, <2>13, <3>2
    <3>4. AsAsked(k, a2)
      BY <1>7, <2>6, <2>13, <3>1, <3>3
    <3>5. PICK look2 \in {"hidden", "shown"} :
             NextLook(k, look2) /\ Leading(look2, <<>>, Asked(a2))
      BY <2>9, <3>4 DEF AsAsked
    <3>6. look2 = LookAfter(k, u) /\ CleanAfter(k, u) /\ NoneLeft(k.timers) /\ look2 = Asked(a2)
      BY <2>8, <3>4, <3>5, LeadsNowhere DEF NextLook, AsAsked
    <3>7. LookAfter(h, u) = look2
      <4>1. CASE f.hide = class
        <5>1. h.inline = k.inline /\ h.hide = k.hide
          BY <2>9, <2>10, <4>1
        <5>2. LookAfter(h, u) = LookAfter(k, u)
          BY <5>1, SameLook
        <5>3. QED BY <3>6, <5>2
      <4>2. CASE what = "show" /\ ~class
        <5>1. look2 = "shown"
          BY <2>13, <3>6, <4>2 DEF Turned
        <5>2. h.inline = k.inline /\ ~h.hide /\ LookAfter(k, u) = "shown"
          BY <2>10, <3>6, <4>2, <5>1
        <5>3. LookAfter(h, u) = "shown"
          BY <5>2, StillShown
        <5>4. QED BY <5>1, <5>3
      <4>3. QED BY <4>1, <4>2
    <3>8. CleanAfter(h, u)
      BY <2>10, <3>6, CleanFacts
    <3>9. NextLook(h, look2)
      BY <2>8, <2>10, <3>7, <3>8, OnlyOne DEF NextLook
    <3>10. QED BY <2>9, <2>10, <3>5, <3>6, <3>9 DEF AsAsked
  <2>14. QED BY <2>9, <2>10, <2>11, <2>12, <2>13 DEF r, Slid
<1>14. QED BY <1>12, <1>13

\* RunLoop keeps what is known of the loop of frames.
LoopOK(f, n) ==
    /\ f.timers # <<>> => f.inProgress
    /\ f.inProgress => n > 0

LEMMA RunLoopStep ==
  ASSUME EffectsTypeOK, LoopOK(fx, frames), NEW h \in Fx, h.inProgress = fx.inProgress,
         RunLoop(h)
  PROVE  Alike(h, fx') /\ LoopOK(fx', frames') /\ tick' \in Nat /\ frames' \in Nat
<1>0. fx \in Fx /\ tick \in Nat /\ frames \in Nat
  BY DEF EffectsTypeOK
<1>1. PICK run \in BOOLEAN : run <=> h.inProgress \/ h.timers # <<>>
  OBVIOUS
<1>2. fx' = [h EXCEPT !.inProgress = run]
  <2>1. run = (h.inProgress \/ h.timers # <<>>)
    BY <1>1
  <2>2. QED BY <2>1 DEF RunLoop, FrameLoop
<1>3. Alike(h, fx') /\ (fx'.inProgress <=> run) /\ fx'.timers = h.timers
  BY <1>2 DEF Alike, Fx
<1>4. IF ~fx.inProgress /\ h.timers # <<>> THEN frames' = frames + 1 /\ tick' = 1
      ELSE frames' = frames /\ tick' = tick
  BY DEF RunLoop
<1>5. frames' \in Nat /\ tick' \in Nat
  BY <1>0, <1>4
<1>6. fx'.timers # <<>> => fx'.inProgress
  BY <1>1, <1>3
<1>7. fx'.inProgress => frames' > 0
  BY <1>0, <1>1, <1>3, <1>4 DEF LoopOK
<1>8. QED BY <1>3, <1>5, <1>6, <1>7 DEF LoopOK

\* What EffectsIInv says of a slide that is on, or none.
LEMMA AskedFacts ==
  ASSUME NEW f, NEW a, AsAsked(f, a)
  PROVE  /\ NoneLeft(f.timers) /\ NextClean(f)
         /\ \E look : NextLook(f, look) /\ Leading(look, Rest(f.queue), Asked(a))
BY DEF AsAsked, NextLook, NextClean

LEMMA AskedTurns ==
  ASSUME NEW a \in BOOLEAN
  PROVE  /\ Asked(TRUE) = Turned(Asked(a), "show")
         /\ Asked(FALSE) = Turned(Asked(a), "hide")
         /\ Asked(~a) = Turned(Asked(a), "toggle")
BY DEF Asked, Turned

LEMMA SlideStep ==
  ASSUME EffectsIInv, NEW f \in Fx, NEW what \in What, NEW class \in BOOLEAN,
         f = fx \/ (f = [fx EXCEPT !.hide = TRUE] /\ what = "hide"),
         f.hide = class \/ (what = "show" /\ ~class),
         Slide(f, what, class), asked' \in BOOLEAN,
         Asked(asked') = Turned(Asked(asked), what)
  PROVE  EffectsIInv'
<1>0. /\ EffectsTypeOK /\ Base(fx, throws) /\ LoopOK(fx, frames) /\ slides \in Nat
      /\ slides < MaxSlides /\ slides' = slides + 1
      /\ UNCHANGED <<stops, promises, throws, exact>> /\ fx \in Fx
  BY DEF EffectsIInv, EffectsTypeOK, Slide, LoopOK
<1>1. PICK h : h = [Enqueued(f, what) EXCEPT !.hide = class]
  OBVIOUS
<1>2. /\ f.queue = fx.queue /\ f.timers = fx.timers /\ f.inline = fx.inline
      /\ f.height = fx.height /\ f.fxshow = fx.fxshow /\ f.hooked = fx.hooked
      /\ f.waiting = fx.waiting /\ f.ended = fx.ended /\ f.inProgress = fx.inProgress
  BY <1>0 DEF Fx
<1>3. Base(f, throws)
  BY <1>0, <1>2 DEF Base
<1>4. Slid(f, h, what)
  BY <1>0, <1>1, <1>3, SlideFacts
<1>5. RunLoop(h)
  BY <1>1 DEF Slide
<1>6. Alike(h, fx') /\ LoopOK(fx', frames') /\ tick' \in Nat /\ frames' \in Nat
  BY <1>0, <1>2, <1>4, <1>5, RunLoopStep DEF Slid
<1>7. Base(fx', throws')
  BY <1>0, <1>4, <1>6, AlikeFacts DEF Slid
<1>8. ASSUME exact' PROVE throws' = 0 /\ AsAsked(fx', asked')
  <2>1. throws = 0 /\ AsAsked(fx, asked)
    BY <1>0, <1>8 DEF EffectsIInv
  <2>2. PICK look : /\ NoneLeft(fx.timers) /\ NextClean(fx)
                    /\ NextLook(fx, look) /\ Leading(look, Rest(fx.queue), Asked(asked))
    BY <2>1, AskedFacts
  <2>3. NextClean(f)
    BY <1>2, <2>2, CleanFacts DEF NextClean
  <2>4. what = "toggle" => NextLook(f, look)
    BY <2>2
  <2>5. AsAsked(h, asked')
    BY <1>2, <1>4, <2>1, <2>2, <2>3, <2>4 DEF Slid
  <2>6. QED BY <1>0, <1>6, <2>1, <2>5, AlikeFacts
<1>9. ASSUME stops' = 0 PROVE PromisesOK(fx', promises')
  <2>1. PromisesOK(fx, promises)
    BY <1>0, <1>9 DEF EffectsIInv
  <2>2. PromisesOK(f, promises)
    BY <1>2, <2>1 DEF PromisesOK
  <2>3. QED BY <1>0, <1>4, <1>6, <2>2, AlikeFacts DEF Slid
<1>10. EffectsTypeOK'
  BY <1>0, <1>6, EffectsAssumption DEF EffectsTypeOK, Alike
<1>11. QED BY <1>6, <1>7, <1>8, <1>9, <1>10 DEF EffectsIInv, LoopOK

LEMMA SlidesStep ==
  ASSUME EffectsIInv,
         CheckboxActionsButtonPress \/ RefreshExecutionHandlerButtons \/ SlideToggle
  PROVE  EffectsIInv'
<1>0. fx \in Fx /\ asked \in BOOLEAN /\ fx.hide \in BOOLEAN
  BY DEF EffectsIInv, EffectsTypeOK, Fx
<1>1. CASE CheckboxActionsButtonPress
  <2>1. Slide(fx, "show", FALSE) /\ asked' = TRUE
    BY <1>1 DEF CheckboxActionsButtonPress
  <2>2. Asked(asked') = Turned(Asked(asked), "show") /\ "show" \in What
    BY <1>0, <2>1, AskedTurns DEF What
  <2>3. QED BY <1>0, <2>1, <2>2, SlideStep
<1>2. CASE RefreshExecutionHandlerButtons
  <2>1. PICK f : f = [fx EXCEPT !.hide = TRUE]
    OBVIOUS
  <2>2. Slide(f, "hide", TRUE) /\ asked' = FALSE
    BY <1>2, <2>1 DEF RefreshExecutionHandlerButtons
  <2>3. Asked(asked') = Turned(Asked(asked), "hide") /\ "hide" \in What
    BY <1>0, <2>2, AskedTurns DEF What
  <2>4. f \in Fx /\ f.hide = TRUE
    BY <1>0, <2>1 DEF Fx
  <2>5. QED BY <2>1, <2>2, <2>3, <2>4, SlideStep
<1>3. CASE SlideToggle
  <2>1. Slide(fx, "toggle", fx.hide) /\ asked' = ~asked
    BY <1>3 DEF SlideToggle
  <2>2. Asked(~asked) = Turned(Asked(asked), "toggle") /\ "toggle" \in What
    BY <1>0, AskedTurns DEF What
  <2>3. QED BY <1>0, <2>1, <2>2, SlideStep
<1>4. QED BY <1>1, <1>2, <1>3

-----------------------------------------------------------------------------
(* Promises and frames.                                                    *)

LEMMA PromiseStep ==
  ASSUME EffectsIInv, Promise
  PROVE  EffectsIInv'
<1> DEFINE on == {fx.timers[k].id : k \in Live(fx)}
           queued == {e.id : e \in ToSet(fx.queue) \ {InProgress}}
           n == Len(promises) + 1
<1>0. /\ fx \in Fx /\ fx.timers \in Seq(Timer) /\ fx.queue \in Seq(Queued \cup {InProgress})
      /\ promises \in Seq(SUBSET Slides) /\ Len(promises) \in Nat /\ n \in 1 .. MaxPromises
      /\ fx.waiting \in SUBSET (1 .. MaxPromises)
      /\ UNCHANGED <<tick, frames, asked, slides, stops, throws, exact>>
  BY EffectsAssumption DEF EffectsIInv, EffectsTypeOK, Fx, Promise
<1>1. on = IdsOn(fx.timers)
  <2>1. \A i : i \in on <=> \E k \in DOMAIN fx.timers : fx.timers[k].is = "on" /\ fx.timers[k].id = i
    BY DEF Live
  <2>2. QED BY <1>0, <2>1, InIds
<1>2. queued = IdsIn(Rest(fx.queue))
  <2>1. QueueOK(fx.queue)
    BY DEF EffectsIInv, Base
  <2>2. ToSet(fx.queue) \ {InProgress} = ToSet(Rest(fx.queue))
    <3>1. PICK r \in Seq(Queued) : r = Rest(fx.queue)
      BY <1>0, <2>1, QueueIs
    <3>2. ToSet(r) \subseteq Queued /\ InProgress \notin Queued
      BY SentinelFacts DEF ToSet
    <3>3. CASE fx.queue = <<>>
      BY <3>1, <3>3 DEF Rest, ToSet
    <3>4. CASE fx.queue # <<>>
      <4>1. fx.queue[1] = InProgress /\ r = Tail(fx.queue)
        BY <2>1, <3>1, <3>4 DEF QueueOK, Rest
      <4>2. /\ DOMAIN fx.queue = 1 .. Len(fx.queue) /\ Len(fx.queue) \in Nat \ {0}
            /\ DOMAIN r = 1 .. Len(fx.queue) - 1
            /\ \A k \in 1 .. Len(fx.queue) - 1 : r[k] = fx.queue[k + 1]
        BY <1>0, <3>4, <4>1
      <4>3. ASSUME NEW k \in DOMAIN fx.queue, fx.queue[k] # InProgress
            PROVE  fx.queue[k] \in ToSet(r)
        <5>1. k - 1 \in DOMAIN r /\ r[k - 1] = fx.queue[k]
          BY <4>1, <4>2, <4>3
        <5>2. QED BY <5>1 DEF ToSet
      <4>4. ASSUME NEW k \in DOMAIN r PROVE r[k] \in ToSet(fx.queue)
        <5>1. k + 1 \in DOMAIN fx.queue /\ r[k] = fx.queue[k + 1]
          BY <4>2
        <5>2. QED BY <5>1 DEF ToSet
      <4>5. QED BY <3>1, <3>2, <4>3, <4>4 DEF ToSet
    <3>5. QED BY <3>3, <3>4
  <2>3. QED BY <2>2 DEF IdsIn
<1>3. /\ promises' = Append(promises, on \cup queued)
      /\ fx' = IF fx.hooked THEN [fx EXCEPT !.waiting = @ \cup {n}] ELSE fx
  BY DEF Promise
<1>4. /\ fx' \in Fx
      /\ fx'.queue = fx.queue /\ fx'.timers = fx.timers /\ fx'.hide = fx.hide
      /\ fx'.inline = fx.inline /\ fx'.height = fx.height /\ fx'.fxshow = fx.fxshow
      /\ fx'.hooked = fx.hooked /\ fx'.ended = fx.ended /\ fx'.inProgress = fx.inProgress
      /\ fx'.waiting = IF fx.hooked THEN fx.waiting \cup {n} ELSE fx.waiting
  <2>1. CASE fx.hooked
    <3>1. fx.waiting \cup {n} \in SUBSET (1 .. MaxPromises)
      BY <1>0
    <3>2. QED BY <1>0, <1>3, <2>1, <3>1 DEF Fx
  <2>2. CASE ~fx.hooked
    BY <1>0, <1>3, <2>2
  <2>3. QED BY <2>1, <2>2
<1>5. on \cup queued \in SUBSET Slides
  <2>1. on \subseteq Slides
    BY <1>0, TimerFacts DEF Live, Timer
  <2>2. \A e \in ToSet(fx.queue) \ {InProgress} : e \in Queued
    BY <1>0 DEF ToSet
  <2>3. queued \subseteq Slides
    BY <2>2 DEF Queued
  <2>4. QED BY <2>1, <2>3
<1> HIDE DEF on, queued
<1>6. promises' \in Seq(SUBSET Slides)
  BY <1>0, <1>3, <1>5
<1>7. EffectsTypeOK'
  BY <1>0, <1>4, <1>6 DEF EffectsIInv, EffectsTypeOK
<1>8. Base(fx', throws')
  BY <1>0, <1>4 DEF EffectsIInv, Base
<1>9. AsAsked(fx, asked) => AsAsked(fx', asked')
  <2>1. NextClean(fx) => NextClean(fx')
    BY <1>4, CleanFacts DEF NextClean
  <2>2. \A look : NextLook(fx, look) => NextLook(fx', look)
    BY <1>4, CleanFacts, SameLook DEF NextLook
  <2>3. QED BY <1>0, <1>4, <2>2 DEF AsAsked
<1>10. ASSUME stops' = 0 PROVE PromisesOK(fx', promises')
  <2>1. PromisesOK(fx, promises)
    BY <1>0, <1>10 DEF EffectsIInv
  <2>2. /\ DOMAIN promises' = DOMAIN promises \cup {n} /\ promises'[n] = on \cup queued
        /\ \A p \in DOMAIN promises : p # n /\ promises'[p] = promises[p]
    BY <1>0, <1>3
  <2>3. ASSUME NEW p \in DOMAIN promises
        PROVE  /\ promises'[p] \subseteq fx'.ended \cup IdsOn(fx'.timers) \cup IdsIn(Rest(fx'.queue))
               /\ p \notin fx'.waiting => promises'[p] \subseteq fx'.ended
    BY <1>4, <2>1, <2>2 DEF PromisesOK
  <2>4. n \notin fx'.waiting => promises'[n] \subseteq fx'.ended
    <3>1. ASSUME n \notin fx'.waiting PROVE on \cup queued = {}
      <4>1. ~fx.hooked
        BY <1>4, <3>1
      <4>2. fx.queue = <<>> /\ NoneOn(fx.timers)
        BY <4>1 DEF EffectsIInv, Base
      <4>3. IdsOn(fx.timers) = {}
        BY <1>0, <4>2, IdsFacts
      <4>4. IdsIn(Rest(fx.queue)) = {}
        <5>1. Rest(fx.queue) = <<>>
          BY <4>2 DEF Rest
        <5>2. IdsIn(<<>>) = {}
          BY DEF IdsIn, ToSet
        <5>3. QED BY <5>1, <5>2
      <4>5. QED BY <1>1, <1>2, <4>3, <4>4
    <3>2. QED BY <2>2, <3>1
  <2>5. promises'[n] \subseteq fx'.ended \cup IdsOn(fx'.timers) \cup IdsIn(Rest(fx'.queue))
    BY <1>1, <1>2, <1>4, <2>2
  <2>6. QED BY <2>2, <2>3, <2>4, <2>5 DEF PromisesOK
<1>11. QED BY <1>0, <1>4, <1>7, <1>8, <1>9, <1>10 DEF EffectsIInv

\* Frames begin and end.
LEMMA FrameStep ==
  ASSUME EffectsIInv, Frame \/ TickEnds
  PROVE  EffectsIInv'
<1>0. /\ EffectsTypeOK /\ fx \in Fx /\ LoopOK(fx, frames)
      /\ UNCHANGED <<asked, slides, stops, promises, throws, exact>>
  BY DEF EffectsIInv, EffectsTypeOK, LoopOK, Frame, TickEnds
<1>1. Alike(fx, fx') /\ LoopOK(fx', frames') /\ tick' \in Nat /\ frames' \in Nat
  <2>1. CASE Frame
    <3>1. fx' = fx
      BY <2>1 DEF Frame
    <3>2. Alike(fx, fx')
      BY <1>0, <3>1 DEF Alike
    <3>3. frames' \in Nat /\ tick' \in Nat /\ LoopOK(fx', frames')
      BY <1>0, <2>1, <3>1 DEF Frame, LoopOK, EffectsTypeOK
    <3>4. QED BY <3>2, <3>3
  <2>2. CASE TickEnds
    <3>1. PICK run \in BOOLEAN : run <=> fx.timers # <<>>
      OBVIOUS
    <3>2. fx' = [fx EXCEPT !.inProgress = run] /\ tick' = 0 /\ frames' = frames
      <4>1. run = (fx.timers # <<>>)
        BY <3>1
      <4>2. QED BY <2>2, <4>1 DEF TickEnds
    <3>3. Alike(fx, fx') /\ (fx'.inProgress <=> run)
      BY <1>0, <3>2 DEF Alike, Fx
    <3>4. LoopOK(fx', frames')
      BY <1>0, <3>1, <3>2, <3>3 DEF LoopOK, Alike
    <3>5. QED BY <1>0, <3>2, <3>3, <3>4 DEF EffectsTypeOK
  <2>3. QED BY <2>1, <2>2
<1>2. EffectsTypeOK'
  BY <1>0, <1>1 DEF EffectsTypeOK, Alike
<1>3. QED BY <1>0, <1>1, <1>2, AlikeFacts DEF EffectsIInv, LoopOK

\* A timer is called that is not on: it goes.
LEMMA TickPast ==
  ASSUME EffectsIInv, TickTimer, fx.timers[tick].is # "on"
  PROVE  EffectsIInv'
<1>0. /\ fx \in Fx /\ fx.timers \in Seq(Timer) /\ tick \in DOMAIN fx.timers
      /\ fx' = Without(fx, tick) /\ fx.timers # <<>>
      /\ UNCHANGED <<tick, frames, asked, slides, stops, promises, throws, exact>>
  BY DEF EffectsIInv, EffectsTypeOK, TickTimer, Fx
<1>1. PICK s : s = RemoveAt(fx.timers, tick)
  OBVIOUS
<1>2. /\ s \in Seq(Timer)
      /\ NoneOn(fx.timers) => NoneOn(s)
      /\ \A u : OneOn(fx.timers, u) => OneOn(s, u)
      /\ NoneLeft(fx.timers) => NoneLeft(s)
  BY <1>0, <1>1, TimerRemoved
<1>3. PICK height : height = IF fx.timers[tick].is = "left" /\ fx.timers[tick].hides
                             THEN "partial" ELSE fx.height
  OBVIOUS
<1>4. fx' = [fx EXCEPT !.timers = s, !.height = height]
  BY <1>0, <1>1, <1>3 DEF Without
<1>5. height \in {"own", "partial"}
  BY <1>0, <1>3 DEF Fx
<1>6. /\ fx' \in Fx /\ fx'.timers = s /\ fx'.height = height
      /\ fx'.queue = fx.queue /\ fx'.hide = fx.hide
      /\ fx'.inline = fx.inline /\ fx'.fxshow = fx.fxshow
      /\ fx'.hooked = fx.hooked /\ fx'.ended = fx.ended /\ fx'.inProgress = fx.inProgress
      /\ fx'.waiting = fx.waiting
  BY <1>0, <1>2, <1>4, <1>5 DEF Fx
<1>7. Base(fx', throws')
  BY <1>0, <1>2, <1>6 DEF EffectsIInv, Base
<1>8. ASSUME AsAsked(fx, asked) PROVE AsAsked(fx', asked')
  <2>1. fx'.height = fx.height
    BY <1>0, <1>3, <1>6, <1>8 DEF AsAsked, NoneLeft
  <2>2. Look(fx') = Look(fx) /\ \A u : LookAfter(fx', u) = LookAfter(fx, u)
    BY <1>6, SameLook
  <2>3. (Clean(fx) => Clean(fx')) /\ \A u : CleanAfter(fx, u) => CleanAfter(fx', u)
    BY <1>6, <2>1, CleanFacts
  <2>4. NoneOn(fx.timers) \/ \E u \in Timer : OneOn(fx.timers, u)
    BY DEF EffectsIInv, Base
  <2>5. \A look : NextLook(fx, look) => NextLook(fx', look)
    <3>1. CASE NoneOn(fx.timers)
      BY <1>2, <1>6, <2>2, <2>3, <3>1, OnlyOne DEF NextLook
    <3>2. ASSUME NEW u \in Timer, OneOn(fx.timers, u)
          PROVE  \A look : NextLook(fx, look) => NextLook(fx', look)
      <4>1. OneOn(s, u)
        BY <1>2, <3>2
      <4>2. QED BY <1>6, <2>2, <2>3, <3>2, <4>1, OnlyOne DEF NextLook
    <3>3. QED BY <2>4, <3>1, <3>2
  <2>6. QED BY <1>0, <1>2, <1>6, <1>8, <2>5 DEF AsAsked
<1>9. ASSUME PromisesOK(fx, promises) PROVE PromisesOK(fx', promises')
  <2>1. IdsOn(s) = IdsOn(fx.timers)
    <3>1. CASE NoneOn(fx.timers)
      BY <1>0, <1>2, <3>1, IdsFacts
    <3>2. ASSUME NEW u \in Timer, OneOn(fx.timers, u) PROVE IdsOn(s) = IdsOn(fx.timers)
      BY <1>0, <1>2, <3>2, IdsFacts
    <3>3. NoneOn(fx.timers) \/ \E u \in Timer : OneOn(fx.timers, u)
      BY DEF EffectsIInv, Base
    <3>4. QED BY <3>1, <3>2, <3>3
  <2>2. QED BY <1>0, <1>6, <1>9, <2>1 DEF PromisesOK
<1>10. EffectsTypeOK'
  BY <1>0, <1>6 DEF EffectsIInv, EffectsTypeOK
<1>11. QED BY <1>0, <1>6, <1>7, <1>8, <1>9, <1>10 DEF EffectsIInv

\* The slide that is on has more to do.
LEMMA TickGoesOn ==
  ASSUME EffectsIInv, TickTimer, fx.timers[tick].is = "on",
         fx.timers[tick].left > 0, ~fx.timers[tick].noop
  PROVE  EffectsIInv'
<1>0. /\ fx \in Fx /\ fx.timers \in Seq(Timer) /\ tick \in DOMAIN fx.timers /\ tick \in Nat
      /\ fx' = [fx EXCEPT !.timers[tick].left = @ - 1] /\ tick' = tick + 1
      /\ UNCHANGED <<frames, asked, slides, stops, promises, throws, exact>>
  BY DEF EffectsIInv, EffectsTypeOK, TickTimer, Fx
<1>1. PICK u \in Timer : OneOn(fx.timers, u)
  BY <1>0 DEF EffectsIInv, Base, NoneOn
<1>2. fx.timers[tick] = u
  BY <1>0, <1>1 DEF OneOn
<1>3. PICK t : t = [u EXCEPT !.left = @ - 1]
  OBVIOUS
<1>4. t \in Timer /\ t.is = u.is /\ t.id = u.id /\ t.hides = u.hides /\ t.noop = u.noop
      /\ t.orig = u.orig
  BY <1>1, <1>2, <1>3 DEF Timer
<1>5. PICK s : s = [fx.timers EXCEPT ![tick] = t]
  OBVIOUS
<1>6. s \in Seq(Timer) /\ OneOn(s, t) /\ (NoneLeft(fx.timers) => NoneLeft(s))
      /\ Len(s) = Len(fx.timers)
  BY <1>0, <1>1, <1>2, <1>4, <1>5, TimerChanged
<1>7. fx' = [fx EXCEPT !.timers = s]
  BY <1>0, <1>2, <1>3, <1>5 DEF Fx
<1>8. /\ fx' \in Fx /\ fx'.timers = s /\ fx'.height = fx.height
      /\ fx'.queue = fx.queue /\ fx'.hide = fx.hide
      /\ fx'.inline = fx.inline /\ fx'.fxshow = fx.fxshow
      /\ fx'.hooked = fx.hooked /\ fx'.ended = fx.ended /\ fx'.inProgress = fx.inProgress
      /\ fx'.waiting = fx.waiting
  BY <1>0, <1>6, <1>7 DEF Fx
<1>9. Base(fx', throws')
  <2>1. fx.queue # <<>>
    BY <1>1, OnlyOne DEF EffectsIInv, Base
  <2>2. QED BY <1>0, <1>4, <1>6, <1>8, <2>1 DEF EffectsIInv, Base
<1>10. ASSUME AsAsked(fx, asked) PROVE AsAsked(fx', asked')
  <2>1. LookAfter(fx', t) = LookAfter(fx, u)
    <3>1. Look(fx') = Look(fx)
      BY <1>8, SameLook
    <3>2. QED BY <1>4, <3>1 DEF LookAfter
  <2>2. CleanAfter(fx, u) => CleanAfter(fx', t)
    <3>1. Clean(fx) => Clean(fx')
      BY <1>8, CleanFacts
    <3>2. QED BY <1>4, <3>1 DEF CleanAfter
  <2>3. \A look : NextLook(fx, look) => NextLook(fx', look)
    BY <1>1, <1>6, <1>8, <2>1, <2>2, OnlyOne DEF NextLook
  <2>4. QED BY <1>0, <1>6, <1>8, <1>10, <2>3 DEF AsAsked
<1>11. ASSUME PromisesOK(fx, promises) PROVE PromisesOK(fx', promises')
  <2>1. IdsOn(s) = IdsOn(fx.timers)
    BY <1>0, <1>1, <1>4, <1>6, IdsFacts
  <2>2. QED BY <1>0, <1>8, <1>11, <2>1 DEF PromisesOK
<1>12. EffectsTypeOK'
  BY <1>0, <1>8 DEF EffectsIInv, EffectsTypeOK
<1>13. fx.timers # <<>>
  BY <1>0
<1>14. QED BY <1>0, <1>8, <1>9, <1>10, <1>11, <1>12, <1>13 DEF EffectsIInv

\* What an ended slide is off from.
LEMMA OnFacts ==
  ASSUME EffectsIInv, tick \in DOMAIN fx.timers, fx.timers[tick].is = "on"
  PROVE  /\ fx \in Fx /\ fx.timers \in Seq(Timer) /\ fx.timers[tick] \in Timer
         /\ OneOn(fx.timers, fx.timers[tick])
         /\ Rest(fx.queue) \in Seq(Queued) /\ fx.queue = <<InProgress>> \o Rest(fx.queue)
         /\ fx.queue # <<>> /\ fx.hooked
         /\ AsAsked(fx, asked) =>
               /\ NoneLeft(fx.timers) /\ CleanAfter(fx, fx.timers[tick])
               /\ Leading(LookAfter(fx, fx.timers[tick]), Rest(fx.queue), Asked(asked))
<1>1. fx \in Fx /\ fx.timers \in Seq(Timer) /\ fx.queue \in Seq(Queued \cup {InProgress})
  BY DEF EffectsIInv, EffectsTypeOK, Fx
<1>2. PICK u \in Timer : OneOn(fx.timers, u)
  BY DEF EffectsIInv, Base, NoneOn
<1>3. u = fx.timers[tick]
  BY <1>2 DEF OneOn
<1>4. fx.queue # <<>> /\ fx.hooked /\ QueueOK(fx.queue)
  BY <1>2, OnlyOne DEF EffectsIInv, Base
<1>5. Rest(fx.queue) \in Seq(Queued) /\ fx.queue = <<InProgress>> \o Rest(fx.queue)
  BY <1>1, <1>4, QueueIs
<1>6. ASSUME AsAsked(fx, asked)
      PROVE  /\ NoneLeft(fx.timers) /\ CleanAfter(fx, u)
             /\ Leading(LookAfter(fx, u), Rest(fx.queue), Asked(asked))
  BY <1>2, <1>6 DEF AsAsked, NextLook
<1>7. QED BY <1>1, <1>2, <1>3, <1>4, <1>5, <1>6

\* The slide that is on ends, and dequeues.
LEMMA TickEndsSlide ==
  ASSUME EffectsIInv, TickTimer, fx.timers[tick].is = "on",
         ~ (fx.timers[tick].left > 0 /\ ~fx.timers[tick].noop)
  PROVE  EffectsIInv'
<1> DEFINE r == Rest(fx.queue)
<1>0. /\ tick \in DOMAIN fx.timers
      /\ UNCHANGED <<tick, frames, asked, slides, stops, promises, throws, exact>>
  BY DEF TickTimer
<1>1. /\ fx \in Fx /\ fx.timers \in Seq(Timer) /\ fx.timers[tick] \in Timer
      /\ OneOn(fx.timers, fx.timers[tick])
      /\ r \in Seq(Queued) /\ fx.queue = <<InProgress>> \o r /\ fx.hooked
      /\ AsAsked(fx, asked) =>
            /\ NoneLeft(fx.timers) /\ CleanAfter(fx, fx.timers[tick])
            /\ Leading(LookAfter(fx, fx.timers[tick]), r, Asked(asked))
  BY <1>0, OnFacts
<1> HIDE DEF r
<1>2. PICK t \in Timer : t = fx.timers[tick] /\ t.is = "on"
  BY <1>1
<1>3. PICK c : c = Completed(fx, t)
  OBVIOUS
<1>4. fx' = Without(c, tick)
  BY <1>2, <1>3 DEF TickTimer
<1>5. PICK s \in Fx :
         /\ Goes(s, c, r)
         /\ s.timers = fx.timers /\ s.waiting = fx.waiting /\ s.inProgress = fx.inProgress
         /\ s.hide = fx.hide /\ s.ended = fx.ended \cup {t.id}
         /\ Look(s) = LookAfter(fx, t) /\ (CleanAfter(fx, t) => Clean(s))
  BY <1>1, <1>2, <1>3, CompletedFacts
<1>6. PICK q : q = RemoveAt(fx.timers, tick)
  OBVIOUS
<1>7. q \in Seq(Timer) /\ NoneOn(q) /\ (NoneLeft(fx.timers) => NoneLeft(q))
  BY <1>0, <1>1, <1>2, <1>6, TimerRemoved
<1>8. PICK z : z = [s EXCEPT !.timers = q]
  OBVIOUS
<1>9. /\ z \in Fx /\ z.timers = q
      /\ z.hide = s.hide /\ z.inline = s.inline /\ z.height = s.height
      /\ z.fxshow = s.fxshow /\ z.ended = s.ended /\ z.inProgress = s.inProgress
      /\ z.waiting = s.waiting
  BY <1>7, <1>8 DEF Fx
<1>10. Look(z) = Look(s) /\ (Clean(z) <=> Clean(s))
  BY <1>9, SameLook DEF Clean
<1>11. PICK m : m = RemoveAt(c.timers, tick)
  OBVIOUS
<1>12. /\ c \in Fx /\ c.timers[tick] = t
       /\ r = <<>> => m = q
       /\ r # <<>> =>
             \E u \in Timer :
                /\ u.id = Head(r).id /\ u.is = "on" /\ m = Append(q, u)
                /\ Clean(s) => LookAfter(c, u) = Turned(Look(s), Head(r).what) /\ CleanAfter(c, u)
  <2>1. c \in Fx
    BY <1>5 DEF Goes
  <2>2. CASE r = <<>>
    <3>1. c.timers = fx.timers
      BY <1>5, <2>2 DEF Goes
    <3>2. QED BY <1>2, <1>6, <1>11, <2>1, <2>2, <3>1
  <2>3. CASE r # <<>>
    <3>1. PICK u \in Timer :
             /\ u.id = Head(r).id /\ u.is = "on"
             /\ c.timers = Append(fx.timers, u)
             /\ Clean(s) => LookAfter(c, u) = Turned(Look(s), Head(r).what) /\ CleanAfter(c, u)
      BY <1>5, <2>3 DEF Goes, Runs
    <3>2. m = Append(q, u)
      BY <1>0, <1>1, <1>6, <1>11, <3>1, RemovedThenAppended
    <3>3. c.timers[tick] = t
      BY <1>0, <1>1, <1>2, <3>1
    <3>4. QED BY <2>1, <2>3, <3>1, <3>2, <3>3
  <2>4. QED BY <2>2, <2>3
<1>13. fx' = [c EXCEPT !.timers = m]
  <2>1. c.height = IF c.timers[tick].is = "left" /\ c.timers[tick].hides
                   THEN "partial" ELSE c.height
    BY <1>2, <1>12
  <2>2. QED BY <1>4, <1>11, <1>12, <2>1 DEF Without, Fx
<1>14. m \in Seq(Timer)
  <2>1. CASE r = <<>>
    BY <1>7, <1>12, <2>1
  <2>2. CASE r # <<>>
    BY <1>7, <1>12, <2>2
  <2>3. QED BY <2>1, <2>2
<1>15. /\ fx' \in Fx /\ fx'.timers = m
       /\ fx'.queue = c.queue /\ fx'.hide = c.hide /\ fx'.inline = c.inline
       /\ fx'.height = c.height /\ fx'.fxshow = c.fxshow /\ fx'.ended = c.ended
       /\ fx'.inProgress = c.inProgress /\ fx'.waiting = c.waiting /\ fx'.hooked = c.hooked
  BY <1>12, <1>13, <1>14 DEF Fx
<1>16. /\ Look(fx') = Look(c) /\ (Clean(c) => Clean(fx'))
       /\ \A u : LookAfter(fx', u) = LookAfter(c, u) /\ (CleanAfter(c, u) => CleanAfter(fx', u))
  BY <1>15, SameLook, CleanFacts
<1>17. Goes(z, fx', r)
  <2>1. CASE r = <<>>
    BY <1>5, <1>9, <1>10, <1>12, <1>15, <1>16, <2>1 DEF Goes
  <2>2. CASE r # <<>>
    <3>1. Runs(z, fx', Head(r))
      BY <1>9, <1>10, <1>12, <1>15, <1>16, <2>2 DEF Runs
    <3>2. QED BY <1>5, <1>9, <1>15, <2>2, <3>1 DEF Goes
  <2>3. QED BY <2>1, <2>2
<1>18. /\ Base(fx', throws')
       /\ \A a : /\ NoneLeft(z.timers) /\ Clean(z) /\ Leading(Look(z), r, Asked(a))
                 => AsAsked(fx', a)
       /\ \A pr : Waits(z, r, pr) => PromisesOK(fx', pr)
  BY <1>1, <1>7, <1>9, <1>17, GoesFrom
<1>19. AsAsked(fx, asked) => AsAsked(fx', asked')
  BY <1>0, <1>1, <1>2, <1>5, <1>7, <1>9, <1>10, <1>18
<1>20. PromisesOK(fx, promises) => PromisesOK(fx', promises')
  <2>1. IdsOn(fx.timers) = {t.id}
    BY <1>1, <1>2, IdsFacts
  <2>2. PromisesOK(fx, promises) => Waits(z, r, promises)
    BY <1>5, <1>9, <2>1 DEF PromisesOK, Waits, r
  <2>3. QED BY <1>0, <1>18, <2>2
<1>21. EffectsTypeOK'
  BY <1>0, <1>15 DEF EffectsIInv, EffectsTypeOK
<1>22. fx'.inProgress = fx.inProgress /\ fx.timers # <<>>
  BY <1>0, <1>1, <1>5, <1>15 DEF Goes
<1>23. QED BY <1>0, <1>18, <1>19, <1>20, <1>21, <1>22 DEF EffectsIInv

LEMMA TickTimerStep ==
  ASSUME EffectsIInv, TickTimer
  PROVE  EffectsIInv'
BY TickPast, TickGoesOn, TickEndsSlide

\* The callback of a slide that ends throws.
LEMMA ThrowsStep ==
  ASSUME EffectsIInv, TickThrows
  PROVE  EffectsIInv'
<1>0. /\ tick \in DOMAIN fx.timers /\ fx.timers[tick].is = "on" /\ tick' = 0
      /\ throws < MaxThrows /\ throws' = throws + 1 /\ throws \in Nat /\ exact' = FALSE
      /\ UNCHANGED <<frames, asked, slides, stops, promises>>
  BY DEF TickThrows, EffectsIInv, EffectsTypeOK
<1>1. /\ fx \in Fx /\ fx.timers \in Seq(Timer) /\ fx.timers[tick] \in Timer
      /\ OneOn(fx.timers, fx.timers[tick]) /\ fx.queue # <<>> /\ fx.hooked
  BY <1>0, OnFacts
<1>2. PICK t \in Timer : t = fx.timers[tick] /\ t.is = "on"
  BY <1>0, <1>1
<1>3. PICK x : x = Settled(fx, t)
  OBVIOUS
<1>4. x \in Fx /\ Kept(fx, x) /\ x.timers = fx.timers
  BY <1>1, <1>3, SettledFacts
<1>5. PICK u : u = [t EXCEPT !.is = "left"]
  OBVIOUS
<1>6. u \in Timer /\ u.is # "on" /\ t.id \in Slides
  BY <1>5 DEF Timer
<1>7. PICK s : s = [fx.timers EXCEPT ![tick] = u]
  OBVIOUS
<1>8. s \in Seq(Timer) /\ NoneOn(s)
  BY <1>0, <1>1, <1>6, <1>7, TimerChanged
<1>9. fx' = [x EXCEPT !.timers = s, !.ended = @ \cup {t.id}]
  <2>1. fx' = [x EXCEPT !.timers[tick].is = "left", !.ended = @ \cup {t.id}]
    BY <1>2, <1>3 DEF TickThrows
  <2>2. QED BY <1>0, <1>2, <1>4, <1>5, <1>7, <2>1 DEF Fx
<1>10. /\ fx' \in Fx /\ fx'.timers = s /\ fx'.ended = fx.ended \cup {t.id}
       /\ fx'.queue = fx.queue /\ fx'.waiting = fx.waiting /\ fx'.hooked = fx.hooked
       /\ fx'.inProgress = fx.inProgress
  BY <1>4, <1>6, <1>8, <1>9 DEF Fx, Kept
<1>11. Base(fx', throws')
  BY <1>0, <1>8, <1>10 DEF EffectsIInv, Base
<1>12. PromisesOK(fx, promises) => PromisesOK(fx', promises')
  <2>1. IdsOn(fx.timers) = {t.id} /\ IdsOn(s) = {}
    BY <1>1, <1>2, <1>8, IdsFacts
  <2>2. QED BY <1>0, <1>10, <2>1 DEF PromisesOK
<1>13. EffectsTypeOK'
  <2>1. EffectsTypeOK /\ MaxThrows \in Nat
    BY EffectsAssumption DEF EffectsIInv
  <2>2. throws' \in 0 .. MaxThrows
    BY <1>0, <2>1
  <2>3. tick' \in Nat /\ exact' \in BOOLEAN
    BY <1>0
  <2>4. QED BY <1>0, <1>10, <2>1, <2>2, <2>3 DEF EffectsTypeOK
<1>14. fx.timers # <<>>
  BY <1>0, <1>1
<1>15. QED BY <1>0, <1>10, <1>11, <1>12, <1>13, <1>14 DEF EffectsIInv

-----------------------------------------------------------------------------
(* stop.                                                                   *)

\* The panel without the timer that was on.
Remaining(f) == [f EXCEPT !.timers = Filter(@, ToSet(@) \ {f.timers[k] : k \in Live(f)})]

LEMMA RemainingFacts ==
  ASSUME NEW f \in Fx
  PROVE  LET g == Remaining(f)
         IN  /\ g \in Fx /\ NoneOn(g.timers) /\ (NoneLeft(f.timers) => NoneLeft(g.timers))
             /\ g.queue = f.queue /\ g.hide = f.hide /\ g.inline = f.inline
             /\ g.height = f.height /\ g.fxshow = f.fxshow /\ g.hooked = f.hooked
             /\ g.waiting = f.waiting /\ g.ended = f.ended /\ g.inProgress = f.inProgress
             /\ g.timers # <<>> => f.timers # <<>>
<1>1. PICK live : live = {f.timers[k] : k \in {j \in DOMAIN f.timers : f.timers[j].is = "on"}}
  OBVIOUS
<1>2. PICK s : s = Filter(f.timers, ToSet(f.timers) \ live)
  OBVIOUS
<1>3. f.timers \in Seq(Timer)
  BY DEF Fx
<1>4. /\ s \in Seq(Timer) /\ NoneOn(s) /\ (NoneLeft(f.timers) => NoneLeft(s))
      /\ s # <<>> => f.timers # <<>>
  BY <1>1, <1>2, <1>3, TimersStopped
<1>5. PICK g : g = [f EXCEPT !.timers = s]
  OBVIOUS
<1>6. Remaining(f) = g
  BY <1>1, <1>2, <1>5 DEF Remaining, Live
<1>7. /\ g \in Fx /\ g.timers = s
      /\ g.queue = f.queue /\ g.hide = f.hide /\ g.inline = f.inline
      /\ g.height = f.height /\ g.fxshow = f.fxshow /\ g.hooked = f.hooked
      /\ g.waiting = f.waiting /\ g.ended = f.ended /\ g.inProgress = f.inProgress
  BY <1>4, <1>5 DEF Fx
<1>8. QED BY <1>4, <1>6, <1>7

\* What is stopped: nothing, or the slide that is on.
LEMMA StoppedFacts ==
  ASSUME NEW f \in Fx
  PROVE  /\ NoneOn(f.timers) =>
              Live(f) = {} /\ \A gotoEnd \in BOOLEAN : StoppedAll(f, gotoEnd) = f
         /\ \A u \in Timer : OneOn(f.timers, u) =>
              /\ Live(f) # {}
              /\ StoppedAll(f, TRUE) = Completed(Remaining(f), u)
              /\ StoppedAll(f, FALSE) = [Remaining(f) EXCEPT !.ended = @ \cup {u.id}]
<1> DEFINE live == {f.timers[k] : k \in Live(f)}
<1>1. ASSUME NoneOn(f.timers)
      PROVE  Live(f) = {} /\ \A gotoEnd \in BOOLEAN : StoppedAll(f, gotoEnd) = f
  <2>1. Live(f) = {}
    BY <1>1 DEF Live, NoneOn
  <2>2. live = {}
    BY <2>1
  <2>3. QED BY <2>1, <2>2 DEF StoppedAll
<1>2. ASSUME NEW u \in Timer, OneOn(f.timers, u)
      PROVE  /\ Live(f) # {}
             /\ StoppedAll(f, TRUE) = Completed(Remaining(f), u)
             /\ StoppedAll(f, FALSE) = [Remaining(f) EXCEPT !.ended = @ \cup {u.id}]
  <2>1. PICK k \in DOMAIN f.timers :
           /\ f.timers[k] = u /\ u.is = "on"
           /\ \A j \in DOMAIN f.timers : f.timers[j].is = "on" => j = k
    BY <1>2 DEF OneOn
  <2>2. Live(f) = {k}
    BY <2>1 DEF Live
  <2>3. live = {u}
    BY <2>1, <2>2
  <2>4. (CHOOSE t \in live : TRUE) = u
    BY <2>3
  <2>5. Remaining(f) = [f EXCEPT !.timers = Filter(@, ToSet(@) \ live)]
    BY DEF Remaining
  <2> HIDE DEF live
  <2>6. StoppedAll(f, TRUE) = Completed(Remaining(f), u)
    BY <2>3, <2>4, <2>5 DEF StoppedAll, live
  <2>7. StoppedAll(f, FALSE) = [Remaining(f) EXCEPT !.ended = @ \cup {u.id}]
    BY <2>3, <2>4, <2>5 DEF StoppedAll, live
  <2>8. QED BY <2>2, <2>6, <2>7
<1>3. QED BY <1>1, <1>2

\* What stop makes of the panel f, where r is queued.
LEMMA StopFacts ==
  ASSUME NEW f \in Fx, NEW r \in Seq(Queued), f.queue = r \/ f.queue = <<InProgress>> \o r,
         r # <<>> => f.hooked,
         NoneOn(f.timers) \/ \E u \in Timer : OneOn(f.timers, u),
         NEW gotoEnd \in BOOLEAN, NEW h,
         h = IF Live(f) = {} \/ ~gotoEnd THEN Dequeued(StoppedAll(f, gotoEnd))
             ELSE StoppedAll(f, gotoEnd)
  PROVE  h \in Fx /\ h.inProgress = f.inProgress /\ \A th : Base(h, th)
<1>1. SUFFICES \E s \in Fx : Goes(s, h, r) /\ NoneOn(s.timers) /\ s.inProgress = f.inProgress
  <2>1. ASSUME NEW s \in Fx, Goes(s, h, r), NoneOn(s.timers), s.inProgress = f.inProgress
        PROVE  h \in Fx /\ h.inProgress = f.inProgress /\ \A th : Base(h, th)
    BY <2>1, GoesFrom DEF Goes
  <2>2. QED BY <2>1
<1>2. CASE NoneOn(f.timers)
  <2>1. h = Dequeued(f)
    BY <1>2, StoppedFacts
  <2>2. QED BY <1>2, <2>1, DequeuedFacts
<1>3. ASSUME NEW u \in Timer, OneOn(f.timers, u)
      PROVE  \E s \in Fx : Goes(s, h, r) /\ NoneOn(s.timers) /\ s.inProgress = f.inProgress
  <2>1. PICK g : g = Remaining(f)
    OBVIOUS
  <2>2. /\ g \in Fx /\ NoneOn(g.timers) /\ g.queue = f.queue /\ g.hooked = f.hooked
        /\ g.inProgress = f.inProgress
    BY <2>1, RemainingFacts
  <2>3. CASE gotoEnd = TRUE
    <3>1. h = Completed(g, u)
      BY <1>3, <2>1, <2>3, StoppedFacts
    <3>2. QED BY <2>2, <3>1, CompletedFacts
  <2>4. CASE gotoEnd = FALSE
    <3>1. PICK s : s = [g EXCEPT !.ended = @ \cup {u.id}]
      OBVIOUS
    <3>2. h = Dequeued(s)
      BY <1>3, <2>1, <2>4, <3>1, StoppedFacts
    <3>3. u.id \in Slides
      BY DEF Timer
    <3>4. /\ s \in Fx /\ s.timers = g.timers /\ s.queue = g.queue /\ s.hooked = g.hooked
          /\ s.inProgress = g.inProgress
      BY <2>2, <3>1, <3>3 DEF Fx
    <3>5. Goes(s, h, r)
      BY <2>2, <3>2, <3>4, DequeuedFacts
    <3>6. QED BY <2>2, <3>4, <3>5
  <2>5. QED BY <2>3, <2>4
<1>4. QED BY <1>2, <1>3

LEMMA StopStep ==
  ASSUME EffectsIInv, NEW clearQueue \in BOOLEAN, NEW gotoEnd \in BOOLEAN,
         Stop(clearQueue, gotoEnd)
  PROVE  EffectsIInv'
<1>0. /\ EffectsTypeOK /\ Base(fx, throws) /\ LoopOK(fx, frames) /\ fx \in Fx
      /\ stops \in Nat /\ stops < MaxStops /\ stops' = stops + 1 /\ exact' = FALSE
      /\ UNCHANGED <<asked, slides, promises, throws>>
  BY DEF EffectsIInv, EffectsTypeOK, LoopOK, Stop
<1>1. PICK f : f = IF clearQueue THEN Cleared(fx) ELSE fx
  OBVIOUS
<1>2. PICK h : h = IF Live(f) = {} \/ ~gotoEnd THEN Dequeued(StoppedAll(f, gotoEnd))
                   ELSE StoppedAll(f, gotoEnd)
  OBVIOUS
<1>3. RunLoop(h)
  BY <1>1, <1>2 DEF Stop
<1>4. NoneOn(fx.timers) \/ \E u \in Timer : OneOn(fx.timers, u)
  BY <1>0 DEF Base
<1>5. h \in Fx /\ h.inProgress = fx.inProgress /\ \A th : Base(h, th)
  <2>1. CASE clearQueue
    <3>1. PICK x : x = [fx EXCEPT !.queue = <<>>]
      OBVIOUS
    <3>2. <<>> \in Seq(Queued \cup {InProgress}) /\ <<>> \in Seq(Queued)
      OBVIOUS
    <3>3. x \in Fx /\ x.queue = <<>> /\ x.timers = fx.timers /\ x.inProgress = fx.inProgress
      BY <1>0, <3>1, <3>2 DEF Fx
    <3>4. f = Dequeued(x)
      BY <1>1, <2>1, <3>1 DEF Cleared
    <3>5. Goes(x, f, <<>>)
      BY <3>2, <3>3, <3>4, DequeuedFacts
    <3>6. f \in Fx /\ f.queue = <<>> /\ f.timers = fx.timers /\ f.inProgress = fx.inProgress
      BY <3>3, <3>5 DEF Goes
    <3>7. QED BY <1>2, <1>4, <3>2, <3>6, StopFacts
  <2>2. CASE ~clearQueue
    <3>1. f = fx
      BY <1>1, <2>2
    <3>2. fx.queue \in Seq(Queued \cup {InProgress}) /\ QueueOK(fx.queue)
      BY <1>0 DEF Fx, Base
    <3>3. /\ Rest(fx.queue) \in Seq(Queued)
          /\ fx.queue = Rest(fx.queue) \/ fx.queue = <<InProgress>> \o Rest(fx.queue)
      BY <3>2, QueueIs DEF Rest
    <3>4. Rest(fx.queue) # <<>> => fx.hooked
      BY <1>0 DEF Base, Rest
    <3>5. QED BY <1>0, <1>2, <1>4, <3>1, <3>3, <3>4, StopFacts
  <2>3. QED BY <2>1, <2>2
<1>6. Alike(h, fx') /\ LoopOK(fx', frames') /\ tick' \in Nat /\ frames' \in Nat
  BY <1>0, <1>3, <1>5, RunLoopStep
<1>7. Base(fx', throws')
  BY <1>5, <1>6, AlikeFacts
<1>8. EffectsTypeOK'
  <2>1. MaxStops \in Nat
    BY EffectsAssumption
  <2>2. stops' \in 0 .. MaxStops
    BY <1>0, <2>1
  <2>3. fx' \in Fx /\ exact' \in BOOLEAN
    BY <1>0, <1>6 DEF Alike
  <2>4. QED BY <1>0, <1>6, <2>2, <2>3 DEF EffectsTypeOK
<1>9. stops' # 0
  BY <1>0
<1>10. QED BY <1>0, <1>6, <1>7, <1>8, <1>9 DEF EffectsIInv, LoopOK

-----------------------------------------------------------------------------
(* finish.                                                                 *)

\* FinishedAll is recursive on the natural numbers: its function exists, so it
\* has the values that its definition says.
FinishedStep(f, q, g, k) == IF k = 0 THEN f ELSE FinishedOne(g[k - 1], q[k])

IsFinished(f, q, n, g) == g = [k \in 0 .. n |-> FinishedStep(f, q, g, k)]

LEMMA FinishedExists ==
  ASSUME NEW f, NEW q, NEW n \in Nat
  PROVE  \E g : IsFinished(f, q, n, g)
<1> DEFINE T == {k \in Nat : \E g : IsFinished(f, q, k, g)}
<1>1. 0 \in T
  <2>1. IsFinished(f, q, 0, [k \in 0 .. 0 |-> f])
    BY DEF IsFinished, FinishedStep
  <2>2. QED BY <2>1
<1>2. ASSUME NEW k \in 1 .. n, k - 1 \in T PROVE k \in T
  <2>1. PICK g : IsFinished(f, q, k - 1, g)
    BY <1>2
  <2> DEFINE h == [j \in 0 .. k |-> IF j = k THEN FinishedStep(f, q, g, k) ELSE g[j]]
  <2>2. \A j \in 0 .. k - 1 : h[j] = g[j] /\ g[j] = FinishedStep(f, q, g, j)
    BY <2>1 DEF IsFinished
  <2>3. ASSUME NEW j \in 0 .. k PROVE h[j] = FinishedStep(f, q, h, j)
    <3>1. CASE j = k
      <4>1. h[k] = FinishedStep(f, q, g, k) /\ h[k - 1] = g[k - 1]
        OBVIOUS
      <4>2. QED BY <3>1, <4>1 DEF FinishedStep
    <3>2. CASE j # k
      <4>0. j \in 0 .. k - 1
        BY <3>2
      <4>1. h[j] = g[j] /\ g[j] = FinishedStep(f, q, g, j)
        BY <2>2, <4>0
      <4>2. j # 0 => h[j - 1] = g[j - 1]
        BY <3>2
      <4>3. QED BY <4>1, <4>2 DEF FinishedStep
    <3>3. QED BY <3>1, <3>2
  <2>4. IsFinished(f, q, k, h)
    BY <2>3 DEF IsFinished
  <2>5. QED BY <2>4
<1>3. 0 .. n \subseteq T
  <2> HIDE DEF T
  <2> QED BY <1>1, <1>2, UpTo
<1>4. QED BY <1>3

LEMMA FinishedSteps ==
  ASSUME NEW f, NEW q, Len(q) \in Nat
  PROVE  \E g : /\ FinishedAll(f, q) = g[Len(q)] /\ g[0] = f
                /\ \A k \in 1 .. Len(q) : g[k] = FinishedOne(g[k - 1], q[k])
<1> DEFINE n == Len(q)
<1>1. \E g : IsFinished(f, q, n, g)
  BY FinishedExists
<1> DEFINE g == CHOOSE h : IsFinished(f, q, n, h)
<1>2. IsFinished(f, q, n, g)
  BY <1>1
<1>3. FinishedAll(f, q) = g[n]
  BY DEF FinishedAll, IsFinished, FinishedStep
<1> HIDE DEF g
<1>4. \A k \in 0 .. n : g[k] = FinishedStep(f, q, g, k)
  BY <1>2 DEF IsFinished
<1>5. g[0] = f /\ \A k \in 1 .. n : g[k] = FinishedOne(g[k - 1], q[k])
  BY <1>4 DEF FinishedStep
<1>6. QED BY <1>3, <1>5

\* A state of finish between two slides: nothing is on, and nothing is queued.
Between(x) ==
    /\ x \in Fx /\ x.queue = <<>> /\ NoneOn(x.timers)
    /\ x.inProgress = fx.inProgress
    /\ NoneLeft(fx.timers) => NoneLeft(x.timers)

LEMMA FinishedOneFacts ==
  ASSUME NEW x, Between(x), NEW e \in Queued
  PROVE  /\ Between(FinishedOne(x, e))
         /\ Clean(x) => /\ Clean(FinishedOne(x, e))
                        /\ Look(FinishedOne(x, e)) = Turned(Look(x), e.what)
<1>0. x \in Fx /\ x.queue = <<>> /\ NoneOn(x.timers) /\ x.timers \in Seq(Timer)
  BY DEF Between, Fx
<1>1. PICK g : g = Started(x, e)
  OBVIOUS
<1>2. g \in Fx /\ Kept(x, g) /\ Runs(x, g, e)
  BY <1>0, <1>1, StartedFacts
<1>3. PICK u \in Timer :
         /\ u.id = e.id /\ u.is = "on"
         /\ g.timers = Append(x.timers, u)
         /\ Clean(x) => LookAfter(g, u) = Turned(Look(x), e.what) /\ CleanAfter(g, u)
  BY <1>2 DEF Runs
<1>4. /\ g.timers \in Seq(Timer) /\ OneOn(g.timers, u)
      /\ NoneLeft(x.timers) => NoneLeft(g.timers)
  BY <1>0, <1>3, Appended
<1>5. PICK k : k = Len(g.timers)
  OBVIOUS
<1>6. k \in DOMAIN g.timers /\ g.timers[k] = u
  BY <1>0, <1>3, <1>5
<1>7. PICK t : t = [u EXCEPT !.is = "over"]
  OBVIOUS
<1>8. t \in Timer /\ t.is = "over"
  BY <1>7 DEF Timer
<1>9. PICK s : s = [g.timers EXCEPT ![k] = t]
  OBVIOUS
<1>10. s \in Seq(Timer) /\ NoneOn(s) /\ (NoneLeft(g.timers) => NoneLeft(s))
  BY <1>3, <1>4, <1>6, <1>8, <1>9, TimerChanged
<1>11. PICK z : z = [g EXCEPT !.timers[k].is = "over"]
  OBVIOUS
<1>12. z = [g EXCEPT !.timers = s]
  BY <1>2, <1>4, <1>6, <1>7, <1>9, <1>11 DEF Fx
<1>13. /\ z \in Fx /\ z.timers = s /\ z.queue = g.queue /\ z.inProgress = g.inProgress
       /\ z.hide = g.hide /\ z.inline = g.inline /\ z.height = g.height
       /\ z.fxshow = g.fxshow
  BY <1>2, <1>10, <1>12 DEF Fx
<1>14. LookAfter(z, u) = LookAfter(g, u) /\ (CleanAfter(g, u) => CleanAfter(z, u))
  BY <1>13, SameLook, CleanFacts
<1>15. PICK y : y = Completed(z, u)
  OBVIOUS
<1>16. FinishedOne(x, e) = y
  <2>1. e # InProgress
    BY SentinelFacts
  <2>2. QED BY <1>1, <1>5, <1>6, <1>11, <1>15, <2>1 DEF FinishedOne
<1>17. <<>> \in Seq(Queued) /\ z.queue = <<>>
  BY <1>0, <1>2, <1>13 DEF Kept
<1>18. PICK w \in Fx :
          /\ Goes(w, y, <<>>)
          /\ w.timers = z.timers /\ w.inProgress = z.inProgress
          /\ Look(w) = LookAfter(z, u) /\ (CleanAfter(z, u) => Clean(w))
  BY <1>13, <1>15, <1>17, CompletedFacts
<1>19. /\ y \in Fx /\ y.queue = <<>> /\ y.timers = s /\ y.inProgress = x.inProgress
       /\ Look(y) = Look(w) /\ (Clean(w) => Clean(y))
  BY <1>2, <1>13, <1>18 DEF Goes, Kept
<1>20. Between(y)
  BY <1>4, <1>10, <1>19 DEF Between
<1>21. Clean(x) => Clean(y) /\ Look(y) = Turned(Look(x), e.what)
  BY <1>3, <1>14, <1>18, <1>19
<1>22. QED BY <1>16, <1>20, <1>21

\* The slide that is on has been ended.
LEMMA FinishFirst ==
  ASSUME fx \in Fx, NoneOn(fx.timers) \/ \E u \in Timer : OneOn(fx.timers, u),
         NEW f, f = StoppedAll([fx EXCEPT !.queue = <<>>], TRUE)
  PROVE  /\ Between(f)
         /\ \A look : NextLook(fx, look) => Look(f) = look /\ Clean(f)
<1>1. PICK x : x = [fx EXCEPT !.queue = <<>>]
  OBVIOUS
<1>2. <<>> \in Seq(Queued \cup {InProgress}) /\ <<>> \in Seq(Queued)
  OBVIOUS
<1>3. /\ x \in Fx /\ x.queue = <<>> /\ x.timers = fx.timers /\ x.inProgress = fx.inProgress
      /\ x.hide = fx.hide /\ x.inline = fx.inline /\ x.height = fx.height
      /\ x.fxshow = fx.fxshow
  BY <1>1, <1>2 DEF Fx
<1>4. CASE NoneOn(fx.timers)
  <2>1. f = x
    BY <1>1, <1>3, <1>4, StoppedFacts
  <2>2. Look(f) = Look(fx) /\ (Clean(fx) => Clean(f))
    BY <1>3, <2>1, SameLook, CleanFacts
  <2>3. Between(f)
    BY <1>3, <1>4, <2>1 DEF Between
  <2>4. QED BY <1>4, <2>2, <2>3 DEF NextLook
<1>5. ASSUME NEW u \in Timer, OneOn(fx.timers, u)
      PROVE  /\ Between(f)
             /\ \A look : NextLook(fx, look) => Look(f) = look /\ Clean(f)
  <2>1. PICK g : g = Remaining(x)
    OBVIOUS
  <2>2. /\ g \in Fx /\ NoneOn(g.timers) /\ (NoneLeft(fx.timers) => NoneLeft(g.timers))
        /\ g.queue = <<>> /\ g.inProgress = fx.inProgress
        /\ g.hide = fx.hide /\ g.inline = fx.inline /\ g.height = fx.height
        /\ g.fxshow = fx.fxshow
    BY <1>3, <2>1, RemainingFacts
  <2>3. f = Completed(g, u)
    BY <1>1, <1>3, <1>5, <2>1, StoppedFacts
  <2>4. PICK w \in Fx :
           /\ Goes(w, f, <<>>)
           /\ w.timers = g.timers /\ w.inProgress = g.inProgress
           /\ Look(w) = LookAfter(g, u) /\ (CleanAfter(g, u) => Clean(w))
    <3>1. PICK r \in Seq(Queued) : r = <<>>
      BY <1>2
    <3>2. g.queue = r /\ f = Completed(g, u) /\ u \in Timer /\ g \in Fx
      BY <1>5, <2>2, <2>3, <3>1
    <3>3. g.queue = r \/ g.queue = <<InProgress>> \o r
      BY <3>2
    <3>4. PICK c : c = Completed(g, u)
      OBVIOUS
    <3>5. \E w \in Fx :
             /\ Goes(w, c, r)
             /\ w.timers = g.timers /\ w.inProgress = g.inProgress
             /\ Look(w) = LookAfter(g, u) /\ (CleanAfter(g, u) => Clean(w))
      BY <3>1, <3>2, <3>3, <3>4, CompletedFacts
    <3>6. c = f
      BY <3>2, <3>4
    <3>7. QED BY <3>1, <3>5, <3>6
  <2>5. LookAfter(g, u) = LookAfter(fx, u) /\ (CleanAfter(fx, u) => CleanAfter(g, u))
    BY <2>2, SameLook, CleanFacts
  <2>6. /\ f \in Fx /\ f.queue = <<>> /\ f.timers = g.timers
        /\ f.inProgress = fx.inProgress
        /\ Look(f) = Look(w) /\ (Clean(w) => Clean(f))
    BY <2>2, <2>4 DEF Goes
  <2>7. Between(f)
    BY <2>2, <2>6 DEF Between
  <2>8. ASSUME NEW look, NextLook(fx, look) PROVE Look(f) = look /\ Clean(f)
    BY <1>5, <2>4, <2>5, <2>6, <2>8 DEF NextLook
  <2>9. QED BY <2>7, <2>8
<1>6. QED BY <1>4, <1>5

\* The slides of the old queue are finished one after the other, and lead to what
\* was asked.
LEMMA FinishRest ==
  ASSUME fx \in Fx, NEW r \in Seq(Queued), NEW g, Between(g[0]),
         \A k \in 1 .. Len(r) : g[k] = FinishedOne(g[k - 1], r[k])
  PROVE  /\ Between(g[Len(r)])
         /\ \A last : Clean(g[0]) /\ Leading(Look(g[0]), r, last)
                      => Clean(g[Len(r)]) /\ Look(g[Len(r)]) = last
<1> DEFINE n == Len(r)
<1>0. n \in Nat /\ \A k \in 1 .. n : r[k] \in Queued
  OBVIOUS
<1>1. \A k \in 1 .. n : g[k] = FinishedOne(g[k - 1], r[k])
  OBVIOUS
<1> HIDE DEF n
<1>2. \A k \in 0 .. n : Between(g[k])
  <2> DEFINE T == {k \in 0 .. n : Between(g[k])}
  <2>1. 0 \in T
    BY <1>0
  <2>2. ASSUME NEW k \in 1 .. n, k - 1 \in T PROVE k \in T
    <3>1. Between(FinishedOne(g[k - 1], r[k]))
      BY <1>0, <2>2, FinishedOneFacts
    <3>2. QED BY <1>0, <1>1, <3>1
  <2>3. 0 .. n \subseteq T
    <3> HIDE DEF T
    <3> QED BY <1>0, <2>1, <2>2, UpTo
  <2>4. QED BY <2>3
<1>3. ASSUME NEW last, Clean(g[0]), Leading(Look(g[0]), r, last)
      PROVE  Clean(g[n]) /\ Look(g[n]) = last
  <2>1. PICK v : Leads(Look(g[0]), r, v, last)
    BY <1>3 DEF Leading
  <2>2. /\ \A k \in 1 .. n : v[k] = Turned(v[k - 1], r[k].what)
        /\ (\A k \in 1 .. n : r[k].what = "toggle") => v[0] = Look(g[0])
        /\ v[n] = last
    BY <2>1 DEF Leads, n
  <2> DEFINE OnWay(k) == \/ Look(g[k]) = v[k]
                         \/ \E i \in k + 1 .. n : r[i].what # "toggle"
             T == {k \in 0 .. n : Clean(g[k]) /\ OnWay(k)}
  <2>3. 0 \in T
    <3>1. 0 + 1 = 1
      OBVIOUS
    <3>2. QED BY <1>0, <1>3, <2>2, <3>1
  <2>4. ASSUME NEW k \in 1 .. n, k - 1 \in T PROVE k \in T
    <3>1. k - 1 \in 0 .. n /\ k \in 0 .. n /\ (k - 1) + 1 = k
      BY <1>0
    <3>2. Clean(g[k - 1]) /\ OnWay(k - 1) /\ Between(g[k - 1]) /\ r[k] \in Queued
      BY <1>0, <1>2, <2>4, <3>1
    <3>3. Clean(g[k]) /\ Look(g[k]) = Turned(Look(g[k - 1]), r[k].what)
      BY <1>1, <3>2, FinishedOneFacts
    <3>4. v[k] = Turned(v[k - 1], r[k].what)
      BY <2>2
    <3>5. CASE Look(g[k - 1]) = v[k - 1]
      BY <3>1, <3>3, <3>4, <3>5
    <3>6. ASSUME NEW i \in k .. n, r[i].what # "toggle" PROVE OnWay(k)
      <4>1. CASE i = k
        BY <3>3, <3>4, <3>6, <4>1, LookFacts
      <4>2. CASE i # k
        <5>1. i \in k + 1 .. n
          BY <1>0, <4>2
        <5>2. QED BY <3>6, <5>1
      <4>3. QED BY <4>1, <4>2
    <3>7. OnWay(k)
      BY <3>1, <3>2, <3>3, <3>4, <3>6
    <3>8. QED BY <3>1, <3>3, <3>7
  <2>5. 0 .. n \subseteq T
    <3> HIDE DEF T
    <3> QED BY <1>0, <2>3, <2>4, UpTo
  <2>6. n \in T
    BY <1>0, <2>5
  <2>7. ~ \E i \in n + 1 .. n : r[i].what # "toggle"
    BY <1>0
  <2>8. QED BY <2>2, <2>6, <2>7
<1>4. QED BY <1>0, <1>2, <1>3 DEF n

\* What finish makes of the panel.
LEMMA FinishFacts ==
  ASSUME EffectsIInv,
         NEW f, f = FinishedAll(StoppedAll([fx EXCEPT !.queue = <<>>], TRUE), fx.queue)
  PROVE  /\ Between(f)
         /\ AsAsked(fx, asked) => Clean(f) /\ Look(f) = Asked(asked)
<1> DEFINE q == fx.queue
           r == Rest(fx.queue)
<1>1. PICK f0 : f0 = StoppedAll([fx EXCEPT !.queue = <<>>], TRUE)
  OBVIOUS
<1>2. /\ fx \in Fx /\ q \in Seq(Queued \cup {InProgress}) /\ QueueOK(q)
      /\ NoneOn(fx.timers) \/ \E u \in Timer : OneOn(fx.timers, u)
  BY DEF EffectsIInv, EffectsTypeOK, Fx, Base
<1>3. /\ Between(f0)
      /\ \A look : NextLook(fx, look) => Look(f0) = look /\ Clean(f0)
  BY <1>1, <1>2, FinishFirst
<1>4. Len(q) \in Nat
  BY <1>2
<1>5. PICK g : /\ f = g[Len(q)] /\ g[0] = f0
               /\ \A k \in 1 .. Len(q) : g[k] = FinishedOne(g[k - 1], q[k])
  <2> HIDE DEF q
  <2>1. PICK g : /\ FinishedAll(f0, q) = g[Len(q)] /\ g[0] = f0
                 /\ \A k \in 1 .. Len(q) : g[k] = FinishedOne(g[k - 1], q[k])
    BY <1>4, FinishedSteps
  <2>2. f = FinishedAll(f0, q)
    BY <1>1 DEF q
  <2>3. QED BY <2>1, <2>2
<1>6. r \in Seq(Queued) /\ (q = <<>> \/ q = <<InProgress>> \o r)
  BY <1>2, QueueIs
<1>7. AsAsked(fx, asked) => Clean(f0) /\ Leading(Look(f0), r, Asked(asked))
  BY <1>3 DEF AsAsked
<1>8. CASE q = <<>>
  <2>1. f = f0
    BY <1>5, <1>8
  <2>2. r = <<>>
    BY <1>8 DEF Rest
  <2> HIDE DEF r, q
  <2>3. AsAsked(fx, asked) => Clean(f0) /\ Look(f0) = Asked(asked)
    BY <1>7, <2>2, LookFacts, LeadsNowhere
  <2>4. QED BY <1>3, <2>1, <2>3
<1>9. CASE q = <<InProgress>> \o r
  <2>1. PICK n : n = Len(r)
    OBVIOUS
  <2>2. /\ n \in Nat /\ Len(q) = n + 1 /\ q[1] = InProgress
        /\ \A k \in 1 .. n : q[k + 1] = r[k]
    <3> HIDE DEF r, q
    <3>1. PICK p : p = InProgress
      OBVIOUS
    <3>2. QED BY <1>6, <1>9, <2>1, <3>1
  <2> HIDE DEF r, q
  <2>3. PICK h : h = [k \in 0 .. n |-> g[k + 1]]
    OBVIOUS
  <2>4. \A k \in 0 .. n : h[k] = g[k + 1]
    BY <2>3
  <2>5. h[0] = f0
    <3>1. 1 \in 1 .. Len(q) /\ 0 \in 0 .. n
      BY <2>2
    <3>2. g[1] = FinishedOne(g[0], q[1]) /\ h[0] = g[1]
      BY <1>5, <2>4, <3>1
    <3>3. QED BY <1>5, <2>2, <3>2 DEF FinishedOne
  <2>6. ASSUME NEW k \in 1 .. n PROVE h[k] = FinishedOne(h[k - 1], r[k])
    <3>1. k + 1 \in 1 .. Len(q) /\ k \in 0 .. n /\ k - 1 \in 0 .. n
          /\ (k + 1) - 1 = k /\ (k - 1) + 1 = k
      BY <2>2
    <3>2. g[k + 1] = FinishedOne(g[k], q[k + 1])
      BY <1>5, <3>1
    <3>3. h[k] = g[k + 1] /\ h[k - 1] = g[k] /\ q[k + 1] = r[k]
      BY <2>2, <2>4, <3>1
    <3>4. QED BY <3>2, <3>3
  <2>7. f = h[n]
    <3>1. n \in 0 .. n
      BY <2>2
    <3>2. f = g[n + 1]
      BY <1>5, <2>2
    <3>3. QED BY <2>4, <3>1, <3>2
  <2>8. /\ Between(h[n])
        /\ \A last : Clean(h[0]) /\ Leading(Look(h[0]), r, last)
                     => Clean(h[n]) /\ Look(h[n]) = last
    BY <1>2, <1>3, <1>6, <2>1, <2>5, <2>6, FinishRest
  <2>9. QED BY <1>7, <2>5, <2>7, <2>8
<1>10. QED BY <1>6, <1>8, <1>9

LEMMA FinishStep ==
  ASSUME EffectsIInv, Finish
  PROVE  EffectsIInv'
<1>1. PICK f : f = FinishedAll(StoppedAll([fx EXCEPT !.queue = <<>>], TRUE), fx.queue)
  OBVIOUS
<1>2. /\ EffectsTypeOK /\ LoopOK(fx, frames) /\ fx \in Fx /\ frames \in Nat
      /\ stops \in Nat /\ stops < MaxStops /\ stops' = stops + 1
      /\ fx' = FrameLoop(f)
      /\ frames' = IF ~fx.inProgress /\ f.timers # <<>> THEN frames + 1 ELSE frames
      /\ UNCHANGED <<tick, asked, slides, promises, throws, exact>>
  BY <1>1 DEF EffectsIInv, EffectsTypeOK, LoopOK, Finish
<1>3. /\ Between(f)
      /\ AsAsked(fx, asked) => Clean(f) /\ Look(f) = Asked(asked)
  BY <1>1, FinishFacts
<1>4. /\ f \in Fx /\ f.queue = <<>> /\ NoneOn(f.timers) /\ f.inProgress = fx.inProgress
      /\ NoneLeft(fx.timers) => NoneLeft(f.timers)
  BY <1>3 DEF Between
<1>5. PICK run \in BOOLEAN : run = (f.inProgress \/ f.timers # <<>>)
  OBVIOUS
<1>6. fx' = [f EXCEPT !.inProgress = run]
  BY <1>2, <1>5 DEF FrameLoop
<1>7. Alike(f, fx') /\ (fx'.inProgress <=> run) /\ fx'.timers = f.timers
  BY <1>4, <1>6 DEF Alike, Fx
<1>8. Base(f, throws) /\ Base(fx', throws')
  <2>1. QueueOK(<<>>)
    <3>1. <<>> \in Seq(Queued)
      OBVIOUS
    <3>2. QED BY <3>1, RestFacts
  <2>2. Base(f, throws)
    BY <1>4, <2>1 DEF Base
  <2>3. QED BY <1>2, <1>7, <2>2, AlikeFacts
<1>9. ASSUME exact' PROVE throws' = 0 /\ AsAsked(fx', asked')
  <2>1. throws = 0 /\ AsAsked(fx, asked)
    BY <1>2, <1>9 DEF EffectsIInv
  <2>2. Clean(f) /\ Look(f) = Asked(asked) /\ NoneLeft(f.timers)
    BY <1>3, <1>4, <2>1 DEF AsAsked
  <2>3. NextLook(f, Look(f))
    BY <1>4, <2>2, OnlyOne DEF NextLook
  <2>4. Leading(Look(f), Rest(f.queue), Asked(asked))
    <3>1. Rest(f.queue) = <<>>
      BY <1>4 DEF Rest
    <3>2. Leading(Look(f), <<>>, Look(f))
      BY LookFacts, LeadsNowhere
    <3>3. QED BY <2>2, <3>1, <3>2
  <2>5. AsAsked(f, asked)
    BY <2>2, <2>3, <2>4, LookFacts DEF AsAsked
  <2>6. QED BY <1>2, <1>7, <2>1, <2>5, AlikeFacts
<1>10. frames' \in Nat /\ LoopOK(fx', frames')
  <2>1. frames' \in Nat
    BY <1>2
  <2>2. fx'.timers # <<>> => fx'.inProgress
    BY <1>5, <1>7
  <2>3. CASE fx.inProgress
    <3>1. frames > 0 /\ frames' = frames
      BY <1>2, <2>3 DEF LoopOK
    <3>2. QED BY <2>1, <2>2, <3>1 DEF LoopOK
  <2>4. CASE ~fx.inProgress /\ f.timers # <<>>
    <3>1. frames' = frames + 1
      BY <1>2, <2>4
    <3>2. frames' > 0
      BY <1>2, <3>1
    <3>3. QED BY <2>1, <2>2, <3>2 DEF LoopOK
  <2>5. CASE ~fx.inProgress /\ f.timers = <<>>
    <3>1. ~run
      BY <1>4, <1>5, <2>5
    <3>2. ~fx'.inProgress
      BY <1>7, <3>1
    <3>3. QED BY <2>1, <2>2, <3>2 DEF LoopOK
  <2>6. QED BY <2>3, <2>4, <2>5
<1>11. EffectsTypeOK'
  <2>1. MaxStops \in Nat
    BY EffectsAssumption
  <2>2. stops' \in 0 .. MaxStops
    BY <1>2, <2>1
  <2>3. fx' \in Fx
    BY <1>7 DEF Alike
  <2>4. QED BY <1>2, <1>10, <2>2, <2>3 DEF EffectsTypeOK
<1>12. stops' # 0
  BY <1>2
<1>13. QED BY <1>8, <1>9, <1>10, <1>11, <1>12 DEF EffectsIInv, LoopOK

-----------------------------------------------------------------------------
(* The panel: the theorems.                                                *)

LEMMA EffectsStart == EffectsInit => EffectsIInv
<1> SUFFICES ASSUME EffectsInit PROVE EffectsIInv
  OBVIOUS
<1>1. /\ fx = [queue |-> <<>>, timers |-> <<>>, inProgress |-> FALSE, hide |-> TRUE,
               inline |-> "", was |-> "", height |-> "own", fxshow |-> NoShow,
               hooked |-> FALSE, waiting |-> {}, ended |-> {}]
      /\ tick = 0 /\ frames = 0 /\ asked = FALSE /\ slides = 0 /\ stops = 0
      /\ promises = <<>> /\ throws = 0 /\ exact = TRUE
  BY DEF EffectsInit
<1>2. /\ fx.queue = <<>> /\ fx.timers = <<>> /\ fx.inProgress = FALSE /\ fx.hide = TRUE
      /\ fx.inline = "" /\ fx.height = "own" /\ fx.fxshow = NoShow
  BY <1>1
<1>3. fx \in Fx
  <2>1. /\ <<>> \in Seq(Queued \cup {InProgress}) /\ <<>> \in Seq(Timer)
        /\ {} \in SUBSET (1 .. MaxPromises) /\ {} \in SUBSET Slides
    OBVIOUS
  <2>2. NoShow \in [is : BOOLEAN, height : {"own", "partial"}, hidden : {"unset", "yes", "no"}]
    BY DEF NoShow
  <2>3. QED BY <1>1, <2>1, <2>2 DEF Fx, Inlines
<1>4. EffectsTypeOK
  <2>1. promises \in Seq(SUBSET Slides)
    <3>1. PICK S : S = SUBSET Slides
      OBVIOUS
    <3>2. <<>> \in Seq(S)
      OBVIOUS
    <3>3. QED BY <1>1, <3>1, <3>2
  <2>2. slides \in 0 .. MaxSlides /\ stops \in 0 .. MaxStops /\ throws \in 0 .. MaxThrows
    <3>1. /\ slides = 0 /\ stops = 0 /\ throws = 0
          /\ MaxSlides \in Nat /\ MaxStops \in Nat /\ MaxThrows \in Nat
      BY <1>1, EffectsAssumption
    <3>2. QED BY <3>1
  <2>3. QED BY <1>1, <1>3, <2>1, <2>2 DEF EffectsTypeOK
<1>5. NoneOn(fx.timers) /\ NoneLeft(fx.timers)
  <2>1. DOMAIN <<>> = {}
    OBVIOUS
  <2>2. QED BY <1>2, <2>1 DEF NoneOn, NoneLeft
<1>6. QueueOK(fx.queue) /\ Rest(fx.queue) = <<>>
  <2>1. <<>> \in Seq(Queued)
    OBVIOUS
  <2>2. QED BY <1>2, <2>1, RestFacts
<1>7. Base(fx, throws)
  BY <1>2, <1>3, <1>5, <1>6 DEF Base
<1>8. AsAsked(fx, asked)
  <2>1. Look(fx) = "hidden" /\ Clean(fx) /\ Asked(asked) = "hidden"
    BY <1>1, <1>2 DEF Look, Hidden, Clean, NoShow, Asked
  <2>2. NextLook(fx, "hidden")
    BY <1>5, <2>1, OnlyOne DEF NextLook
  <2>3. Leading("hidden", Rest(fx.queue), Asked(asked))
    BY <1>6, <2>1, LeadsNowhere
  <2>4. QED BY <1>5, <2>2, <2>3 DEF AsAsked
<1>9. PromisesOK(fx, promises)
  <2>1. DOMAIN <<>> = {}
    OBVIOUS
  <2>2. QED BY <1>1, <2>1 DEF PromisesOK
<1>10. QED BY <1>1, <1>2, <1>4, <1>7, <1>8, <1>9 DEF EffectsIInv

LEMMA EffectsStep == EffectsIInv /\ [EffectsNext]_effectVars => EffectsIInv'
<1> SUFFICES ASSUME EffectsIInv, [EffectsNext]_effectVars PROVE EffectsIInv'
  OBVIOUS
<1>1. CASE CheckboxActionsButtonPress \/ RefreshExecutionHandlerButtons \/ SlideToggle
  BY <1>1, SlidesStep
<1>2. ASSUME NEW clearQueue \in BOOLEAN, NEW gotoEnd \in BOOLEAN, Stop(clearQueue, gotoEnd)
      PROVE  EffectsIInv'
  BY <1>2, StopStep
<1>3. CASE Finish
  BY <1>3, FinishStep
<1>4. CASE Promise
  BY <1>4, PromiseStep
<1>5. CASE Frame \/ TickEnds
  BY <1>5, FrameStep
<1>6. CASE TickTimer
  BY <1>6, TickTimerStep
<1>7. CASE TickThrows
  BY <1>7, ThrowsStep
<1>8. CASE UNCHANGED effectVars
  <2>1. /\ fx' = fx /\ tick' = tick /\ frames' = frames /\ asked' = asked
        /\ slides' = slides /\ stops' = stops /\ promises' = promises
        /\ throws' = throws /\ exact' = exact
    BY <1>8 DEF effectVars
  <2>2. EffectsTypeOK'
    BY <2>1 DEF EffectsIInv, EffectsTypeOK
  <2>3. QED BY <2>1, <2>2 DEF EffectsIInv
<1>9. QED BY <1>1, <1>2, <1>3, <1>4, <1>5, <1>6, <1>7, <1>8 DEF EffectsNext, Loop

\* The invariant: nothing is on and nothing is queued, or one slide is on, behind
\* the sentinel; the slides that are queued lead from it to what was asked; and a
\* promise waits for slides that are over, on or queued.
THEOREM EffectsInductive == EffectsSpec => []EffectsIInv
<1>1. EffectsInit => EffectsIInv
  BY EffectsStart
<1>2. EffectsIInv /\ [EffectsNext]_effectVars => EffectsIInv'
  BY EffectsStep
<1>3. QED BY <1>1, <1>2, PTL DEF EffectsSpec

LEMMA LiveFacts ==
  ASSUME NEW f
  PROVE  /\ NoneOn(f.timers) => Live(f) = {} /\ Cardinality(Live(f)) <= 1
         /\ \A u : OneOn(f.timers, u) => Live(f) # {} /\ Cardinality(Live(f)) <= 1
<1>1. ASSUME NoneOn(f.timers) PROVE Live(f) = {} /\ Cardinality(Live(f)) <= 1
  <2>1. Live(f) = {}
    BY <1>1 DEF Live, NoneOn
  <2>2. Cardinality(Live(f)) = 0
    BY <2>1, FS_EmptySet
  <2>3. QED BY <2>1, <2>2
<1>2. ASSUME NEW u, OneOn(f.timers, u) PROVE Live(f) # {} /\ Cardinality(Live(f)) <= 1
  <2>1. PICK k \in DOMAIN f.timers :
           /\ f.timers[k].is = "on"
           /\ \A j \in DOMAIN f.timers : f.timers[j].is = "on" => j = k
    BY <1>2 DEF OneOn
  <2>2. Live(f) = {k}
    BY <2>1 DEF Live
  <2>3. Cardinality(Live(f)) = 1
    BY <2>2, FS_Singleton
  <2>4. QED BY <2>2, <2>3
<1>3. QED BY <1>1, <1>2

\* One slide of the element is on at a time, however slides, stops, finishes and
\* frames interleave: exactly while the sentinel heads the queue, if no callback
\* has thrown; and the loop of frames runs while jQuery.timers is not empty.
THEOREM OneSlideAtATime == EffectsSpec => []EffectsInv
<1>1. ASSUME EffectsIInv PROVE EffectsInv
  <2>1. Base(fx, throws) /\ EffectsTypeOK
    BY <1>1 DEF EffectsIInv
  <2>2. /\ fx.queue # <<>> => Head(fx.queue) = InProgress
        /\ \/ NoneOn(fx.timers) /\ (throws = 0 => fx.queue = <<>>)
           \/ fx.queue # <<>> /\ \E u \in Timer : OneOn(fx.timers, u)
    BY <2>1 DEF Base, QueueOK
  <2>3. /\ Cardinality(Live(fx)) <= 1
        /\ throws = 0 => (Live(fx) # {} <=> fx.queue # <<>> /\ Head(fx.queue) = InProgress)
    <3>1. CASE NoneOn(fx.timers) /\ (throws = 0 => fx.queue = <<>>)
      BY <3>1, LiveFacts
    <3>2. CASE fx.queue # <<>> /\ \E u \in Timer : OneOn(fx.timers, u)
      BY <2>2, <3>2, LiveFacts
    <3>3. QED BY <2>2, <3>1, <3>2
  <2>4. fx.timers # <<>> => fx.inProgress /\ frames > 0
    BY <1>1 DEF EffectsIInv
  <2>5. QED BY <2>1, <2>3, <2>4 DEF EffectsInv, OneAtATime
<1>2. EffectsIInv => EffectsInv
  BY <1>1
<1>3. QED BY <1>2, EffectsInductive, PTL

\* When all slides are over the panel is seen, or not, as the last call asked, and
\* it has its own height again: whatever was queued, going on or finished when the
\* call came.
THEOREM EndsAsLastAsked == EffectsSpec => []EndsAsAsked
<1>1. ASSUME EffectsIInv PROVE EndsAsAsked
  <2>1. SUFFICES ASSUME fx.queue = <<>>, Live(fx) = {}, exact
                 PROVE  Hidden(fx) = ~asked /\ fx.height = "own" /\ ~fx.fxshow.is
    BY DEF EndsAsAsked
  <2>2. NoneOn(fx.timers)
    BY <2>1 DEF Live, NoneOn
  <2>3. PICK look \in {"hidden", "shown"} :
           NextLook(fx, look) /\ Leading(look, Rest(fx.queue), Asked(asked))
    BY <1>1, <2>1 DEF EffectsIInv, AsAsked
  <2>4. look = Look(fx) /\ Clean(fx)
    BY <2>2, <2>3 DEF NextLook
  <2>5. Asked(asked) = look
    <3>1. Leading(look, <<>>, Asked(asked))
      BY <2>1, <2>3 DEF Rest
    <3>2. QED BY <3>1, LeadsNowhere
  <2>6. asked \in BOOLEAN /\ Hidden(fx) \in BOOLEAN
    BY <1>1 DEF EffectsIInv, EffectsTypeOK, Hidden
  <2>7. Hidden(fx) = ~asked
    BY <2>4, <2>5, <2>6 DEF Look, Asked
  <2>8. QED BY <2>4, <2>7 DEF Clean
<1>2. EffectsIInv => EndsAsAsked
  BY <1>1
<1>3. QED BY <1>2, EffectsInductive, PTL

\* A promise that is resolved has had to wait for all slides that were on or
\* queued when it was made, if none was stopped or finished.
THEOREM PromisesWait == EffectsSpec => []ResolvedWhenOver
<1>1. EffectsIInv => ResolvedWhenOver
  BY DEF EffectsIInv, PromisesOK, ResolvedWhenOver
<1>2. QED BY <1>1, EffectsInductive, PTL
=============================================================================
