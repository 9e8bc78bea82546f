---- MODULE Requests ----
(***************************************************************************)
(* The student's calls on the ledger of requests: single submissions,      *)
(* batches of up to four (internal/enrollment/app/service.go) and          *)
(* cancellations.  A submission is one step here, as EnrollmentLedger      *)
(* states it and Enrollment implements it; a batch is a read of the        *)
(* student's requests followed by one submission after another.            *)
(***************************************************************************)
EXTENDS EnrollmentLedger, Sequences, Functions

CONSTANTS
    Clients,        \* concurrent calls of students
    StudentShift,   \* [Students -> Shifts]
    GroupShift,     \* [Groups -> Shifts]
    Lists,          \* the lists of groups that a batch may ask for
    None,
    Budgets,        \* bounds of a behaviour: its numbers of [calls, browses, reads, exports,
                    \* stops]; how it begins: with the replicas [down] or up, with [seats] in the groups
    MaxFaults       \* bound: failed statements and lost replies

ASSUME RequestsAssumption ==
    /\ StudentShift \in [Students -> Shifts] /\ GroupShift \in [Groups -> Shifts]
    /\ Lists \subseteq Seq(Groups)
    /\ Capacities \subseteq Nat /\ \A b \in Budgets : b.seats \in [Groups -> Capacities]
    /\ MaxFaults \in Nat

VARIABLES
    closed,     \* groups whose status is CLOSED
    open,       \* the enrollment window is open
    calls,      \* the locals of each call
    budget,     \* what is left of the bounds
    faults      \* faults so far

requestVars == <<reqs, capacity, closed, open, calls, budget, faults>>

Idle == [pc |-> "idle", kind |-> "submit", student |-> None, semester |-> None, base |-> None,
         list |-> << >>, done |-> 0, created |-> 0]

RequestsInit ==
    /\ LedgerInit
    /\ closed = {} /\ open = TRUE
    /\ calls = [c \in Clients |-> Idle]
    /\ budget \in Budgets /\ capacity = budget.seats
    /\ faults = 0

Spend(what) == budget[what] > 0 /\ budget' = [budget EXCEPT ![what] = @ - 1]

Fault == faults < MaxFaults /\ faults' = faults + 1

\* What was answered is no part of the state: the ledger is what counts.
Answer(c) == calls' = [calls EXCEPT ![c] = Idle]

----
(* One submission, as SubmitRepo.Submit performs it. *)

\* baseIdemKey + ":" + itoa(i), with i from zero; a single submission uses its key as it is.
ItemKey(call, i) == IF call.kind = "batch" THEN <<call.base, i - 1>> ELSE <<call.base>>

WithKey(s, sem, k) ==
    {r \in DOMAIN reqs : reqs[r].student = s /\ reqs[r].semester = sem /\ reqs[r].key = k}

Occupancy(g) == [capacity |-> capacity[g], accepted |-> Cardinality(Accepted(g)),
                 pendingDirect |-> Cardinality(Direct(g))]

SubmitOutcome(s, sem, g, k) ==
    CASE WithKey(s, sem, k) # {} -> "EXISTING"
      [] g \in closed -> "ErrGroupNotFound"
      [] ~open -> "ErrWindowClosed"
      [] ~ValidateSubmissionAllowed(Cardinality(Active(s, sem))) -> "ErrMaxElectivesReached"
      [] \E r \in Active(s, sem) : reqs[r].group = g -> "ErrDuplicateActiveRequest"
      [] OTHER -> "OK"

NextId == Cardinality(DOMAIN reqs) + 1

Inserted(s, sem, g, k) ==
    LET class == Classify(StudentShift[s], GroupShift[g], Occupancy(g))
    IN Enroll(NextId, [student |-> s, semester |-> sem, group |-> g, key |-> k,
                       priority |-> class.priority, status |-> class.status])

----
(* The calls. *)

\* POST /requests: the key is long enough and the ids are there, or 400.
PostSubmit(c) ==
    /\ calls[c].pc = "idle"
    /\ Spend("calls")
    /\ \E s \in Students, sem \in Semesters, k \in Keys, g \in Groups :
          calls' = [calls EXCEPT ![c] = [Idle EXCEPT !.pc = "items", !.student = s,
                                           !.semester = sem, !.base = k, !.list = <<g>>]]
    /\ UNCHANGED <<reqs, capacity, closed, open, faults>>

\* POST /requests/batch: one to four items.
ValidBatch(list) == Len(list) \in 1 .. MaxElectivesPerSemester

\* The first check of SubmitBatch.
DuplicateItem(list) == ~IsInjective(list)

PostBatch(c) ==
    /\ calls[c].pc = "idle"
    /\ Spend("calls")
    /\ \E s \in Students, sem \in Semesters, k \in Keys, list \in Lists :
          IF ValidBatch(list) /\ ~DuplicateItem(list)
          THEN calls' = [calls EXCEPT ![c] =
                           [Idle EXCEPT !.pc = "listMine", !.kind = "batch", !.student = s,
                                        !.semester = sem, !.base = k, !.list = list]]
          ELSE Answer(c)
    /\ UNCHANGED <<reqs, capacity, closed, open, faults>>

\* The second and the third check, on the active requests that ListMine read.
PreCheck(list, views) ==
    CASE \E v \in views, i \in DOMAIN list : v[2] = list[i] -> "ErrDuplicateActiveRequest"
      [] Cardinality(views) + Len(list) > MaxElectivesPerSemester -> "ErrMaxElectivesReached"
      [] OTHER -> "OK"

Views(s, sem) == {<<r, reqs[r].group>> : r \in Active(s, sem)}

ListMine(c) ==
    LET call == calls[c]
        views == Views(call.student, call.semester)
        outcome == PreCheck(call.list, views)
    IN /\ call.pc = "listMine"
       /\ IF outcome = "OK"
          THEN calls' = [calls EXCEPT ![c].pc = "items"]
          ELSE Answer(c)
       /\ UNCHANGED <<reqs, capacity, closed, open, budget, faults>>

\* Each item has a transaction of its own.  An error ends the batch, and what was
\* committed stays; the answer does not say what it was.
SubmitItem(c) ==
    LET call == calls[c]
        i == call.done + 1
        s == call.student
        sem == call.semester
        k == ItemKey(call, i)
        outcome == SubmitOutcome(s, sem, call.list[i], k)
    IN /\ call.pc = "items" /\ i <= Len(call.list)
       /\ \/ /\ outcome = "OK"
             /\ Inserted(s, sem, call.list[i], k)
             /\ calls' = [calls EXCEPT ![c].done = i, ![c].created = @ + 1]
          \/ /\ outcome = "EXISTING"
             /\ calls' = [calls EXCEPT ![c].done = i]
             /\ UNCHANGED <<reqs, capacity>>
          \/ /\ outcome \notin {"OK", "EXISTING"}
             /\ Answer(c)
             /\ UNCHANGED <<reqs, capacity>>
       /\ UNCHANGED <<closed, open, budget, faults>>

\* The connection fails, before the commit of the item or after it.
SubmitItemFails(c) ==
    LET call == calls[c]
        i == call.done + 1
        s == call.student
        sem == call.semester
        k == ItemKey(call, i)
    IN /\ call.pc = "items" /\ i <= Len(call.list)
       /\ Fault
       /\ \/ UNCHANGED <<reqs, capacity>>
          \/ SubmitOutcome(s, sem, call.list[i], k) = "OK" /\ Inserted(s, sem, call.list[i], k)
       /\ Answer(c)
       /\ UNCHANGED <<closed, open, budget>>

\* The requests are read back and answered.
SubmitDone(c) ==
    /\ calls[c].pc = "items" /\ calls[c].done = Len(calls[c].list)
    /\ Answer(c)
    /\ UNCHANGED <<reqs, capacity, closed, open, budget, faults>>

\* SubmitRepo.Cancel of an own request that is not terminal, in one step.
Cancel(r) ==
    /\ Spend("calls")
    /\ Settle(r, "CANCELLED_BY_STUDENT")
    /\ UNCHANGED <<closed, open, calls, faults>>

\* An administrator changes the capacity of a group, closes it, or lets the window end.
EditGroup(g) ==
    /\ Spend("calls")
    /\ \/ \E n \in Capacities \ {capacity[g]} : Resize(g, n) /\ UNCHANGED <<closed, open>>
       \/ closed' = closed \cup {g} /\ UNCHANGED <<reqs, capacity, open>>
       \/ open' = FALSE /\ UNCHANGED <<reqs, capacity, closed>>
    /\ UNCHANGED <<calls, faults>>

RequestsPosts ==
    \/ \E c \in Clients : PostSubmit(c) \/ PostBatch(c)
    \/ \E r \in DOMAIN reqs : Cancel(r)
    \/ \E g \in Groups : EditGroup(g)

RequestsSteps ==
    \E c \in Clients : ListMine(c) \/ SubmitItem(c) \/ SubmitItemFails(c) \/ SubmitDone(c)

----
(* Property. *)

\* No batch is cut short by the cap: SubmitBatch compares the cap with the whole batch
\* before its first item, so that no item is refused with ErrMaxElectivesReached after
\* others of the batch were committed (service.go: "The pre-check eliminates partial
\* commits for the cap-breach case").
NoPartialCapBreach ==
    [][\A c \in Clients :
          LET call == calls[c]
              i == call.done + 1
          IN SubmitItem(c) /\ call.kind = "batch" /\ call.created > 0
             => SubmitOutcome(call.student, call.semester, call.list[i], ItemKey(call, i))
                  # "ErrMaxElectivesReached"]_requestVars

----
(* What the other components need of the ledger, kept from step to step. *)

\* The ledger has finitely many requests, each of a student and a group that there are.
LedgerKept ==
    /\ IsFiniteSet(DOMAIN reqs) /\ DOMAIN reqs \subseteq Nat
    /\ \A r \in DOMAIN reqs :
          /\ DOMAIN reqs[r] = {"student", "semester", "group", "key", "priority", "status"}
          /\ reqs[r].student \in Students /\ reqs[r].group \in Groups
    /\ capacity \in [Groups -> Nat]

\* A call works through its list, and has not done more than there is.
CallKept(call) ==
    /\ DOMAIN call = DOMAIN Idle
    /\ call.list \in Seq(Groups) /\ call.done \in 0 .. Len(call.list)
    /\ call.pc # "idle" => call.student \in Students

RequestsInv ==
    /\ faults \in Nat
    /\ LedgerKept
    /\ DOMAIN calls = Clients /\ calls = [c \in Clients |-> calls[c]]
    /\ \A c \in Clients : CallKept(calls[c])

====
