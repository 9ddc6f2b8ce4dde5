------------------------------- MODULE Console -------------------------------
(***************************************************************************)
(* The console's pages with scripts that keep state between a request and  *)
(* its answer: a page shows the data storage view or the executions view.  *)
(***************************************************************************)
EXTENDS DataStoragePage, Reruns

VARIABLE view   \* which view is open

consoleVars == <<view, storageVars, rerunVars>>

ConsoleTypeOK ==
    /\ view \in {"dataStorage", "executions"}
    /\ StorageTypeOK
    /\ RerunsTypeOK

Init ==
    /\ view \in {"dataStorage", "executions"}
    /\ StorageInit
    /\ RerunsInit
    \* Nothing is loaded into the view that is not open.
    /\ view = "executions" => \A n \in Names : docs[n] = <<>>

Next ==
    \/ view = "dataStorage" /\ StorageNext /\ UNCHANGED <<view, rerunVars>>
    \/ view = "executions" /\ RerunsNext /\ UNCHANGED <<view, storageVars>>

Spec == Init /\ [][Next]_consoleVars

-----------------------------------------------------------------------------

\* The variables have their types, and reruns are one chain per press.
ConsoleInv == ConsoleTypeOK /\ OneChain
=============================================================================
