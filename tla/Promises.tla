------------------------------- MODULE Promises -------------------------------
(***************************************************************************)
(* What a promise promises: it is settled at most once, and a callback     *)
(* registered with it is called at most once, with the outcome, after it   *)
(* was settled and only if it asked for that outcome.                      *)
(***************************************************************************)
EXTENDS Naturals, Sequences

CONSTANTS
    Promise,    \* the promises
    Value,      \* what it may be settled with
    MaxRegs     \* bound: callbacks registered

VARIABLES
    outcome,    \* per promise: how it was settled
    registered, \* the callbacks registered: with which promise, for what
    answer      \* per callback: what it was called with

Settled == {"resolved", "rejected"}
Pending == [state |-> "pending", v |-> 0]

Init ==
    /\ outcome = [d \in Promise |-> Pending]
    /\ registered = <<>>
    /\ answer = [n \in 1 .. MaxRegs |-> 0]

Register(d, on) ==
    /\ Len(registered) < MaxRegs
    /\ registered' = Append(registered, [of |-> d, on |-> on])
    /\ UNCHANGED <<outcome, answer>>

Settle(d, state, v) ==
    /\ outcome[d] = Pending
    /\ outcome' = [outcome EXCEPT ![d] = [state |-> state, v |-> v]]
    /\ UNCHANGED <<registered, answer>>

Hear(n) ==
    /\ n \in DOMAIN registered
    /\ answer[n] = 0
    /\ LET o == outcome[registered[n].of]
       IN  /\ o.state = registered[n].on
           /\ answer' = [answer EXCEPT ![n] = o.v]
    /\ UNCHANGED <<outcome, registered>>

Next ==
    \/ \E d \in Promise, on \in Settled \cup {"progress"} : Register(d, on)
    \/ \E d \in Promise, s \in Settled, v \in Value : Settle(d, s, v)
    \/ \E n \in 1 .. MaxRegs : Hear(n)

Spec == Init /\ [][Next]_<<outcome, registered, answer>>
=============================================================================
