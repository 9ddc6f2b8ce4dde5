--------------------------- MODULE RequestLifecycle ---------------------------
(***************************************************************************)
(* What ReqDC promises about each asynchronous request, without queues,    *)
(* processes or time: it is queued, claimed by someone, and then either    *)
(* executed, once, or dropped; nothing is executed after it was dropped or *)
(* without a claim.                                                        *)
(***************************************************************************)
CONSTANT Jobs

VARIABLE job    \* where each request stands

States == {"none", "queued", "claimed", "executed", "dropped"}

Init == job \in [Jobs -> {"none", "queued"}]

\* The request's schedule entry is inserted.
Submit(i) ==
    /\ job[i] = "none"
    /\ job' = [job EXCEPT ![i] = "queued"]

\* Someone takes the entry in order to have it executed.
Claim(i) ==
    /\ job[i] = "queued"
    /\ job' = [job EXCEPT ![i] = "claimed"]

\* Its one Execution starts.
Execute(i) ==
    /\ job[i] = "claimed"
    /\ job' = [job EXCEPT ![i] = "executed"]

\* The claim came to nothing and the entry is thrown away.
Drop(i) ==
    /\ job[i] = "claimed"
    /\ job' = [job EXCEPT ![i] = "dropped"]

Next == \E i \in Jobs : Submit(i) \/ Claim(i) \/ Execute(i) \/ Drop(i)

\* A queued request is claimed, and a claim leads somewhere.
Fairness ==
    \A i \in Jobs : WF_job(Claim(i)) /\ WF_job(Execute(i) \/ Drop(i))

Spec == Init /\ [][Next]_job

FairSpec == Spec /\ Fairness
=============================================================================
