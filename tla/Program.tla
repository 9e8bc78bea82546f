---- MODULE Program ----
(***************************************************************************)
(* The program as a whole, around the ledger of requests: students submit, *)
(* cancel and browse, an administrator works through the review queue and  *)
(* orders reports, and replicas start, serve and stop.                     *)
(***************************************************************************)
EXTENDS ReviewQueue, Reporting

vars == <<requestVars, browse, desk, replicaVars, reportVars>>

Init ==
    /\ RequestsInit /\ BrowseInit /\ QueueInit /\ ReportingInit
    /\ ReplicasInit(budget.down, budget.stops)

\* A call is taken by a replica that is up.
Calls ==
    /\ \E p \in Replicas : life[p] = "up"
    /\ \/ RequestsPosts /\ UNCHANGED <<browse, desk, reportVars>>
       \/ (ListOfferings \/ GetOfferingDetail) /\ UNCHANGED <<desk, reportVars>>
       \/ (Queue \/ Decide) /\ UNCHANGED reportVars
       \/ /\ CreateExport \/ (Download /\ UNCHANGED budget)
          /\ UNCHANGED <<reqs, capacity, closed, open, calls, faults, browse, desk>>
    /\ UNCHANGED replicaVars

\* It goes on while a replica serves, or finishes what it has taken (Server.Shutdown).
Answers ==
    /\ \E p \in Replicas : life[p] \in {"up", "stopping"}
    /\ \/ RequestsSteps /\ UNCHANGED <<browse, desk, reportVars>>
       \/ ListGroups /\ UNCHANGED <<desk, reportVars>>
       \/ QueueSteps /\ UNCHANGED reportVars
    /\ UNCHANGED replicaVars

\* The calls end with the last process; a page that was shown stays before its reader.
CallsEnd(p) ==
    IF \E q \in Replicas \ {p} : life[q] \in {"up", "stopping"}
    THEN UNCHANGED <<requestVars, browse, desk>>
    ELSE /\ calls' = [c \in Clients |-> Idle]
         /\ browse' = IF browse.pc = "idle" THEN browse ELSE NotBrowsing
         /\ desk' = IF desk.pc \in {"idle", "shown"} THEN desk ELSE NotReading
         /\ UNCHANGED <<reqs, capacity, closed, open, budget, faults>>

Work(p) ==
    /\ ReportStep(p)
    /\ UNCHANGED <<requestVars, browse, desk, replicaVars>>

WorkFails(p) ==
    /\ ClaimLost(p) \/ GenerateFails(p) \/ MarkLost(p)
    /\ UNCHANGED <<reqs, capacity, closed, open, calls, budget, browse, desk, replicaVars>>

Start(p) == StartStep(p) /\ UNCHANGED <<requestVars, browse, desk, reportVars>>

\* The workers return before the process exits.
Leave(p) == work[p].pc = "idle" /\ Exit(p) /\ CallsEnd(p) /\ UNCHANGED reportVars

Stop(p) ==
    \/ /\ Boot(p) \/ ApplyFails(p) \/ Shutdown(p)
       /\ UNCHANGED <<requestVars, browse, desk, reportVars>>
    \/ Crash(p) /\ WorkerDies(p) /\ CallsEnd(p)

Next ==
    \/ Calls \/ Answers
    \/ \E p \in Replicas : Work(p) \/ WorkFails(p) \/ Start(p) \/ Leave(p) \/ Stop(p)

\* A process that runs goes on; nobody is obliged to start one, and calls just happen.
Fairness == \A p \in Replicas : WF_vars(Work(p)) /\ WF_vars(Start(p)) /\ WF_vars(Leave(p))

Spec == Init /\ [][Next]_vars /\ Fairness

----
\* Each component keeps what its properties rest on, whatever the others do.
IInv == RequestsInv /\ DeskInv /\ ReplicasInv /\ ReportingInv

====
