-------------------------------- MODULE Reruns --------------------------------
(***************************************************************************)
(* The executions view of the console: the user checks executions and      *)
(* presses rerun; they are rerun one after the other, each when the one    *)
(* before it was answered with 200.  Where the chain is is kept in one     *)
(* global variable, which a second press shares with the first.            *)
(***************************************************************************)
EXTENDS Integers, Sequences, FiniteSets, FiniteSetsExt

CONSTANTS
    Listed,         \* how many executions the page lists
    MaxPresses,     \* bound: presses of the rerun button
    MaxClicks       \* bound: clicks on checkboxes

ASSUME RerunsAssumption == Listed \in Nat /\ MaxPresses \in Nat /\ MaxClicks \in Nat

VARIABLES
    checked,    \* the executions whose checkboxes are checked
    current,    \* currentExecCheckboxID, 0 if undefined
    calls,      \* the calls of execution/rerun on their way, in the order sent
    thens,      \* the callbacks of then() that wait for their timer, in order
    results,    \* per execution, the executions whose results are at its row
    pressed,    \* history: the executions checked at the first press
    presses,    \* history: presses of the rerun button
    clicks,     \* history: clicks on checkboxes
    reruns,     \* history: per execution, how often it was rerun
    broken      \* history: an answer was not 200, or not JSON

rerunVars == <<checked, current, calls, thens, results, pressed, presses, clicks,
               reruns, broken>>

Execs == 1 .. Listed

\* Answers: 200 or another status, with JSON, or something that is not JSON.
Statuses == {"ok", "failed", "garbled"}

RerunsTypeOK ==
    /\ checked \subseteq Execs
    /\ current \in Execs \cup {0}
    /\ calls \in Seq(Execs)
    /\ thens \in Seq([exec : Execs, status : Statuses])
    /\ results \in [Execs -> Seq(Execs)]
    /\ pressed \subseteq Execs
    /\ presses \in 0 .. MaxPresses /\ clicks \in 0 .. MaxClicks
    /\ reruns \in [Execs -> Nat]
    /\ broken \in BOOLEAN

RerunsInit ==
    /\ checked = {}
    /\ current = 0
    /\ calls = <<>>
    /\ thens = <<>>
    /\ results = [e \in Execs |-> <<>>]
    /\ pressed = {}
    /\ presses = 0
    /\ clicks = 0
    /\ reruns = [e \in Execs |-> 0]
    /\ broken = FALSE

\* rerunbuttonpress, when the boxes in cs are checked: the first is rerun.
Rerun(cs) ==
    IF cs = {} THEN current' = 0 /\ UNCHANGED reruns
    ELSE /\ current' = Min(cs)
         /\ reruns' = [reruns EXCEPT ![Min(cs)] = @ + 1]

\* The calls after rerunbuttonpress.
Sent(cs, before) == IF cs = {} THEN before ELSE Append(before, Min(cs))

\* The user clicks a checkbox.
Click(e) ==
    /\ clicks < MaxClicks
    /\ clicks' = clicks + 1
    /\ checked' = IF e \in checked THEN checked \ {e} ELSE checked \cup {e}
    /\ UNCHANGED <<current, calls, thens, results, pressed, presses, reruns, broken>>

\* The user presses the rerun button.
Press ==
    /\ presses < MaxPresses
    /\ presses' = presses + 1
    /\ pressed' = IF presses = 0 THEN checked ELSE pressed
    /\ Rerun(checked)
    /\ calls' = Sent(checked, calls)
    /\ UNCHANGED <<checked, thens, results, clicks, broken>>

\* Mutant of Unchecked: the checkbox is unchecked in the callback of then.
UncheckedLater(cs) == cs

\* The checkboxes after uncheck() of the current one.
Unchecked(cs) == cs \ {current}

\* rerunExecComplete, for any of the calls: the current checkbox is unchecked and
\* the rest is left to then.  Without a current one it throws.
Answered(k) ==
    /\ calls' = SubSeq(calls, 1, k - 1) \o SubSeq(calls, k + 1, Len(calls))
    /\ \E status \in Statuses :
          /\ broken' = (broken \/ status # "ok")
          /\ IF current = 0 THEN UNCHANGED <<checked, thens>>
             ELSE /\ checked' = Unchecked(checked)
                  /\ thens' = Append(thens, [exec |-> calls[k], status |-> status])
    /\ UNCHANGED <<current, results, pressed, presses, clicks, reruns>>

\* Mutant of Continues: an answer that is not 200 does not stop the chain.
ContinuesAfterFailure(status) == status # "garbled"

\* "Only continue if status was 200"
Continues(status) == status = "ok"

\* The callback of then: the result goes to the row that is current now, and
\* after a 200 the next one is rerun.  What is not JSON ends it.
Then ==
    /\ thens # <<>>
    /\ LET t == Head(thens)
       IN  /\ results' = IF t.status = "garbled" \/ current = 0 THEN results
                         ELSE [results EXCEPT ![current] = Append(@, t.exec)]
           /\ IF Continues(t.status)
              THEN Rerun(checked) /\ calls' = Sent(checked, calls)
              ELSE UNCHANGED <<current, calls, reruns>>
    /\ thens' = Tail(thens)
    /\ UNCHANGED <<checked, pressed, presses, clicks, broken>>

RerunsNext ==
    \/ \E e \in Execs : Click(e)
    \/ Press
    \/ \E k \in DOMAIN calls : Answered(k)
    \/ Then

-----------------------------------------------------------------------------
(* Properties.                                                             *)

\* When nothing is on its way any more, and every answer was 200, each execution
\* that was checked when the button was first pressed is unchecked and was rerun;
\* and none is rerun more often than the button was pressed.  (Unless the user
\* checked one again.)
RerunEach ==
    /\ calls = <<>> /\ thens = <<>> /\ ~broken /\ clicks = Cardinality(pressed) =>
          \A e \in pressed : e \notin checked /\ reruns[e] > 0
    /\ clicks = Cardinality(pressed) => \A e \in Execs : reruns[e] <= presses

\* With one press no row shows another execution's result, and the chain stops at
\* the first answer that is not a 200.
OneChain ==
    presses = 1 =>
        /\ \A e \in Execs : \A k \in DOMAIN results[e] : results[e][k] = e
        /\ Len(calls) + Len(thens) <= 1
        /\ broken => calls = <<>>
=============================================================================
