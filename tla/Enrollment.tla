---- MODULE Enrollment ----
(***************************************************************************)
(* Enrollment as it runs: any number of Submit and Decide transactions,    *)
(* student cancellations and administrative edits, interleaved at the      *)
(* granularity of the statements they send to PostgreSQL.                  *)
(***************************************************************************)
EXTENDS Submit, Review, Administration

vars == <<tables, locks, sub, rev, edits>>

Init == StoreInit /\ SubmitInit /\ ReviewInit /\ AdminInit

SubmitNext ==
    /\ \E t \in Submitters :
          \/ \E in \in SubmitInput : SubmitBegin(t, in)
          \/ SubmitLockGroup(t)
          \/ SubmitLockStudent(t)
          \/ SubmitWindow(t)
          \/ SubmitCount(t)
          \/ SubmitOccupancy(t)
          \/ SubmitInsert(t)
          \/ SubmitCommit(t)
          \/ SubmitFail(t)
          \/ SubmitReturn(t)
    /\ UNCHANGED <<rev, edits>>

CancelNext ==
    /\ \E s \in Students, r \in Ids : Cancel(s, r)
    /\ UNCHANGED <<rev, edits>>

ReviewNext ==
    /\ \E a \in Reviewers :
          \/ \E in \in DecisionInput : DecideLockRequest(a, in)
          \/ DecideLockGroup(a)
          \/ DecideCount(a)
          \/ DecideCommit(a)
          \/ DecideFail(a)
    /\ UNCHANGED <<sub, edits>>

AdminNext ==
    /\ \/ \E g \in Groups, c \in Capacities : AdjustCapacity(g, c)
       \/ \E g \in Groups, active \in BOOLEAN : UpdateGroup(g, active)
       \/ \E s \in Students, shift \in Shifts, active \in BOOLEAN :
             UpdateStudent(s, shift, active)
       \/ \E w \in Semesters \X Shifts : ToggleWindow(w)
    /\ UNCHANGED <<sub, rev>>

Next == SubmitNext \/ CancelNext \/ ReviewNext \/ AdminNext

Spec == Init /\ [][Next]_vars

\* A started transaction sends its next statement, and PostgreSQL serves the
\* waiters of a row lock in the order they arrived (hence strong fairness).
Fairness ==
    /\ \A t \in Submitters : SF_vars(SubmitStep(t) /\ UNCHANGED <<rev, edits>>)
    /\ \A a \in Reviewers : SF_vars(DecideStep(a) /\ UNCHANGED <<sub, edits>>)

FairSpec == Spec /\ Fairness

----
(* Type invariant. *)

\* Every table row, row lock and transaction local of the store has its type.
TypeOK == StoreTypeOK /\ SubmitTypeOK /\ ReviewTypeOK /\ AdminTypeOK

----
(* Safety. *)

\* A student never holds more active requests in a semester than the cap, however
\* many Submit calls of that student run at once: the count of submit.go and the
\* insert it allows are only sound together because of the student row lock.
StudentCap ==
    \A s \in Students, sem \in Semesters :
        Cardinality(ActiveOf(s, sem)) <= MaxElectivesPerSemester

\* Two successful answers to the same idempotency key name the same request, also
\* when both calls missed the fast path and raced to the insert.
SameKeySameRequest ==
    \A t, u \in Submitters :
        /\ sub[t].pc = "done" /\ sub[t].reply \in {"OK", "EXISTING"}
        /\ sub[u].pc = "done" /\ sub[u].reply \in {"OK", "EXISTING"}
        /\ sub[t].in.student = sub[u].in.student
        /\ sub[t].in.semester = sub[u].in.semester
        /\ sub[t].in.key = sub[u].in.key
        => sub[t].id = sub[u].id

\* No step accepts a request into a group that has no seat left, whatever the
\* capacity was adjusted to between the statements of the decision.
NoOverbooking ==
    [][\A g \in Groups :
          AcceptedIn(g)' \subseteq AcceptedIn(g)
          \/ Cardinality(AcceptedIn(g)') <= groups[g].capacity]_vars

\* No submission takes a direct slot the group does not have: at the instant its
\* row becomes visible, accepted seats and direct slots together fit the capacity,
\* although cancellations and decisions ran since the occupancy was counted.
NoDirectOverbooking ==
    [][\A id \in DOMAIN reqs' \ DOMAIN reqs, g \in Groups :
          reqs'[id].group = g /\ reqs'[id].priority = "DIRECT_SAME_SHIFT" =>
              Cardinality(AcceptedIn(g)') + Cardinality(PendingDirectIn(g)')
                  <= groups[g].capacity]_vars

\* Within a group requests become visible in arrival order: a request never
\* appears behind one with a higher arrival sequence, so no reviewer ever sees a
\* queue into which an earlier arrival is inserted later.
ArrivalOrder ==
    [][\A id \in DOMAIN reqs' \ DOMAIN reqs :
          \A r \in DOMAIN reqs : reqs[r].group = reqs'[id].group => r < id]_vars

\* A rejected or cancelled request never changes again, and an accepted one is
\* only ever cancelled by an administrator, also when a cancellation and several
\* decisions race for the same request.
SettledStays ==
    [][\A r \in DOMAIN reqs :
          /\ reqs[r].status \in {"REJECTED", "CANCELLED_BY_STUDENT", "CANCELLED_BY_ADMIN"}
                => reqs'[r] = reqs[r]
          /\ reqs[r].status = "ACCEPTED" =>
                reqs'[r].status \in {"ACCEPTED", "CANCELLED_BY_ADMIN"}]_vars

\* Each status change leaves, in the same transaction, an audit event that names
\* the status the request really had before, although it was read several
\* statements earlier.
AuditTruthful ==
    [][\A r \in DOMAIN reqs :
          reqs'[r].status # reqs[r].status =>
              audit'[r] = [prev |-> reqs[r].status, new |-> reqs'[r].status]]_vars

----
(* The inductive invariant behind the safety properties: what a transaction has *)
(* read stays good enough, until it commits, because of the locks it holds.     *)

\* After which statements Submit holds the group lock and the student lock.
HoldsGroup   == {"lockStudent", "window", "count", "occupancy", "insert", "commit"}
HoldsStudent == HoldsGroup \ {"lockStudent"}

SubmitLocks(t) ==
    /\ sub[t].pc \in HoldsGroup =>
          /\ glock[sub[t].in.group] = t
          /\ sub[t].capacity = groups[sub[t].in.group].capacity
    /\ sub[t].pc \in HoldsStudent => slock[sub[t].in.student] = t

\* The count of active requests can only have fallen since it was checked.
CapReserved(t) ==
    sub[t].pc \in {"occupancy", "insert", "commit"} =>
        Cardinality(ActiveOf(sub[t].in.student, sub[t].in.semester)) < MaxElectivesPerSemester

\* So can the direct slots taken since the request was classified.
SlotReserved(t) ==
    sub[t].pc \in {"insert", "commit"} /\ sub[t].priority = "DIRECT_SAME_SHIFT" =>
        Cardinality(AcceptedIn(sub[t].in.group)) + Cardinality(PendingDirectIn(sub[t].in.group))
            < groups[sub[t].in.group].capacity

\* The uncommitted row has the highest number of its group, one of its own, and
\* no committed row has its index entries.
UncommittedRow(t) ==
    sub[t].pc = "commit" =>
        /\ sub[t].id \in 1 .. seq /\ sub[t].id \notin DOMAIN reqs
        /\ \A r \in DOMAIN reqs : reqs[r].group = sub[t].in.group => r < sub[t].id
        /\ \A u \in Submitters \ {t} : sub[u].pc = "commit" => sub[u].id # sub[t].id
        /\ WithKey(sub[t].in) = {}
        /\ ActiveInGroup(sub[t].in.student, sub[t].in.semester, sub[t].in.group) = {}

SubmitOK(t) == SubmitLocks(t) /\ CapReserved(t) /\ SlotReserved(t) /\ UncommittedRow(t)

\* Decide holds the request lock from its first statement, and what it read of
\* the request is still what the request is; then the group lock, with the
\* capacity and the accepted seats it read.
DecideOK(a) ==
    /\ rev[a].pc # "idle" =>
          /\ rev[a].in.request \in DOMAIN reqs
          /\ rlock[rev[a].in.request] = a
          /\ rev[a].status = reqs[rev[a].in.request].status
          /\ rev[a].group = reqs[rev[a].in.request].group
          /\ (rev[a].in.type = "CREATE_GROUP_ACCEPTANCE") <=> (rev[a].in.target # NoGroup)
    /\ rev[a].pc \in {"count", "apply"} =>
          /\ glock[CapacityGroup(a)] = a
          /\ rev[a].capacity = groups[CapacityGroup(a)].capacity
    /\ rev[a].pc = "apply" => rev[a].groupAccepted = Cardinality(AcceptedIn(CapacityGroup(a)))

IInv == /\ TypeOK
        /\ \A t \in Submitters : SubmitOK(t)
        /\ \A a \in Reviewers : DecideOK(a)
        /\ StudentCap

----
(* Refinement. *)

Ledger == INSTANCE EnrollmentLedger WITH
              capacity <- [g \in Groups |-> groups[g].capacity]

\* Committed rows obey both unique indexes: of a student's requests in a semester no two
\* have one key, and no two active ones are in one group.
UniqueIndexes ==
    \A q, r \in DOMAIN reqs :
        q # r /\ reqs[q].student = reqs[r].student /\ reqs[q].semester = reqs[r].semester =>
            /\ reqs[q].key # reqs[r].key
            /\ ~(/\ IsActive(reqs[q].status) /\ IsActive(reqs[r].status)
                 /\ reqs[q].group = reqs[r].group)

\* A row about to be inserted has a priority and the status that belongs to it.
Classified(t) ==
    sub[t].pc \in {"insert", "commit"} =>
        Classification(sub[t].priority, sub[t].status) \in Ledger!Classifications

\* A successful answer names a committed request with the key of the call.
AnswerNamesRequest(t) ==
    sub[t].pc = "done" /\ sub[t].reply \in {"OK", "EXISTING"} => sub[t].id \in WithKey(sub[t].in)

\* What the refinement and the idempotent answers need besides IInv.
AnswerInv == UniqueIndexes /\ \A t \in Submitters : Classified(t) /\ AnswerNamesRequest(t)

\* Every behaviour of the transactions is one of the atomic ledger: statements that
\* only read or lock are invisible, and each commit is one legal ledger entry.
ImplementsLedger == Ledger!LedgerSpec

----
(* Liveness. *)

\* Every call ends: no set of transactions waits for each other's row locks, and no
\* early return keeps a lock another transaction needs.
CallsEnd ==
    /\ \A t \in Submitters : sub[t].pc # "idle" ~> sub[t].pc = "idle"
    /\ \A a \in Reviewers : rev[a].pc # "idle" ~> rev[a].pc = "idle"

----
(* A claim of the migration that the code does not keep. *)

\* "The same key for a student in a semester returns the same request": a call
\* whose key already belongs to a committed request is not refused.
ReplayNotRefused ==
    [][\A t \in Submitters :
          /\ sub[t].pc \notin {"idle", "done"}
          /\ sub'[t].pc = "done" /\ sub'[t].reply \in SubmitRefusals
          => WithKey(sub[t].in) = {}]_vars

====
