---- MODULE EnrollmentProofs ----
(***************************************************************************)
(* IInv is inductive: TypeOK and StudentCap hold for every number of       *)
(* students, groups, keys and transactions.                                *)
(*                                                                         *)
(* The argument is the one the row locks of submit.go and decide.go are    *)
(* for.  A step of transaction x is shown to be Undisturbed(x): it leaves  *)
(* alone the locals of every other transaction and everything a lock held  *)
(* by another one protects.  From that alone each other transaction keeps  *)
(* its SubmitOK or DecideOK (OtherSubmitOK, OtherDecideOK); what x itself  *)
(* must re-establish is shown statement by statement.                      *)
(***************************************************************************)
EXTENDS Enrollment, FiniteSetTheorems, TLAPS

\* The assumptions on the constants are at hand in every leaf below.
USE StoreAssumption, ReviewAssumption, MaxElectivesAssumption, MaxEditsAssumption

\* The audit event and the notification of a status change keep their types.
LEMMA RecordType ==
    ASSUME TypeOK, NEW r \in Ids, NEW prev \in Statuses \cup {NoStatus}, NEW st \in Statuses,
           NEW type \in NotificationTypes, Record(r, prev, st, type),
           DOMAIN reqs' = DOMAIN reqs \cup {r},
           type = "NONE" => r \in DOMAIN reqs
    PROVE  /\ audit' \in [DOMAIN reqs' -> [prev : Statuses \cup {NoStatus}, new : Statuses]]
           /\ outbox' \in [DOMAIN reqs' -> NotificationTypes]
BY DEF TypeOK, StoreTypeOK, Record, Put

\* Giving locks back keeps the types of the lock tables.
LEMMA ReleaseType ==
    ASSUME TypeOK, NEW t, ReleaseLocks(t)
    PROVE  /\ glock' \in [Groups -> Submitters \cup Reviewers \cup {Free}]
           /\ slock' \in [Students -> Submitters \cup {Free}]
           /\ rlock' \in [Ids -> Reviewers \cup {Free}]
BY DEF TypeOK, StoreTypeOK, ReleaseLocks

\* The initial state is well typed: all tables are empty and every call is idle.
LEMMA InitType == Init => TypeOK
<1> SUFFICES ASSUME Init PROVE TypeOK
  OBVIOUS
<1> USE DEF Init, StoreInit
<1>1. seq \in 0 .. MaxArrival
  BY StoreAssumption
<1>2. DOMAIN reqs = {} /\ DOMAIN audit = {} /\ DOMAIN outbox = {}
  OBVIOUS
<1>3. /\ DOMAIN reqs \subseteq 1 .. seq
      /\ reqs \in [DOMAIN reqs -> Row]
      /\ audit \in [DOMAIN reqs -> [prev : Statuses \cup {NoStatus}, new : Statuses]]
      /\ outbox \in [DOMAIN reqs -> NotificationTypes]
  BY <1>2
<1>4. /\ groups \in [Groups -> [capacity : Capacities, active : BOOLEAN]]
      /\ students \in [Students -> [shift : Shifts, active : BOOLEAN]]
      /\ windows \subseteq Semesters \X Shifts
  OBVIOUS
<1>5. StoreTypeOK
  BY <1>1, <1>3, <1>4 DEF StoreTypeOK
<1>6. SubmitTypeOK /\ ReviewTypeOK /\ AdminTypeOK
  BY MaxEditsAssumption DEF SubmitInit, ReviewInit, AdminInit, SubmitTypeOK, ReviewTypeOK, AdminTypeOK
<1> QED
  BY <1>5, <1>6 DEF TypeOK

\* A Submit call that is not idle has all its locals.
LEMMA SubmitActiveType ==
    ASSUME TypeOK, NEW t \in Submitters, sub[t].pc # "idle"
    PROVE  sub[t] \in SubmitActive
BY DEF TypeOK, SubmitTypeOK, SubmitIdle

\* So has a Decide call.
LEMMA DecideActiveType ==
    ASSUME TypeOK, NEW a \in Reviewers, rev[a].pc # "idle"
    PROVE  rev[a] \in DecideActive
BY DEF TypeOK, ReviewTypeOK, DecideIdle

\* Returning from Submit keeps the types of its locals.
LEMMA ReplyType ==
    ASSUME TypeOK, NEW t \in Submitters, sub[t].pc # "idle",
           NEW reply \in SubmitReplies, NEW id \in 0 .. MaxArrival, Reply(t, reply, id)
    PROVE  SubmitTypeOK'
<1>1. sub[t] \in SubmitActive
  BY SubmitActiveType
<1>2. [sub[t] EXCEPT !.pc = "done", !.reply = reply, !.id = id] \in SubmitActive
  BY <1>1 DEF SubmitActive, SubmitPcs
<1> QED
  BY <1>2 DEF Reply, TypeOK, SubmitTypeOK

\* A rollback of Submit keeps the types.
LEMMA RollbackType ==
    ASSUME TypeOK, NEW t \in Submitters, sub[t].pc # "idle",
           NEW reply \in SubmitReplies, NEW id \in 0 .. MaxArrival, Rollback(t, reply, id),
           UNCHANGED <<rev, edits>>
    PROVE  TypeOK'
<1>1. SubmitTypeOK'
  BY ReplyType DEF Rollback
<1>2. StoreTypeOK'
  BY ReleaseType DEF Rollback, tables, TypeOK, StoreTypeOK
<1> QED
  BY <1>1, <1>2 DEF TypeOK, ReviewTypeOK, AdminTypeOK

\* A step of t that changes only the locals of t keeps the types.
LEMMA AdvanceType ==
    ASSUME TypeOK, NEW t \in Submitters, NEW v \in SubmitActive \cup {SubmitIdle},
           sub' = [sub EXCEPT ![t] = v], UNCHANGED <<tables, locks, rev, edits>>
    PROVE  TypeOK'
BY DEF TypeOK, StoreTypeOK, SubmitTypeOK, ReviewTypeOK, AdminTypeOK, tables, locks

\* Type preservation, one lemma per statement of Submit: the idempotency fast path.
LEMMA SubmitBeginType ==
    ASSUME TypeOK, NEW t \in Submitters, NEW in \in SubmitInput, SubmitBegin(t, in),
           UNCHANGED <<rev, edits>>
    PROVE  TypeOK'
<1> DEFINE call(pc, reply, id) ==
            [pc |-> pc, reply |-> reply, id |-> id, in |-> in, capacity |-> 0,
             shift |-> "DAY", priority |-> "WAITLIST_SAME_SHIFT", status |-> "SUBMITTED"]
<1>1. \A r \in WithKey(in) : r \in 0 .. MaxArrival
  BY DEF WithKey, TypeOK, StoreTypeOK
<1>2. \A r \in 0 .. MaxArrival :
        call("done", "EXISTING", r) \in SubmitActive /\ call("lockGroup", "none", 0) \in SubmitActive
  BY StoreAssumption DEF SubmitActive, SubmitPcs, SubmitReplies, Shifts, Priorities, EntryStatuses
<1>3. \/ \E r \in WithKey(in) : sub' = [sub EXCEPT ![t] = call("done", "EXISTING", r)]
      \/ sub' = [sub EXCEPT ![t] = call("lockGroup", "none", 0)]
  BY DEF SubmitBegin
<1> HIDE DEF call
<1>4. 0 \in 0 .. MaxArrival
  BY StoreAssumption
<1>5. \E v \in SubmitActive : sub' = [sub EXCEPT ![t] = v]
  BY <1>1, <1>2, <1>3, <1>4
<1> QED
  BY <1>5, AdvanceType DEF SubmitBegin

\* The group lock.
LEMMA SubmitLockGroupType ==
    ASSUME TypeOK, NEW t \in Submitters, SubmitLockGroup(t), UNCHANGED <<rev, edits>>
    PROVE  TypeOK'
<1> DEFINE g == sub[t].in.group
<1>1. sub[t] \in SubmitActive /\ sub[t].pc # "idle" /\ g \in Groups
  BY SubmitActiveType DEF SubmitLockGroup, SubmitActive, SubmitInput
<1>2. CASE Rollback(t, "ErrGroupNotFound", 0)
  BY <1>1, <1>2, RollbackType, StoreAssumption DEF SubmitReplies, SubmitRefusals
<1>3. CASE /\ glock' = [glock EXCEPT ![g] = t]
           /\ sub' = [sub EXCEPT ![t].pc = "lockStudent", ![t].capacity = groups[g].capacity]
           /\ UNCHANGED <<tables, slock, rlock>>
  <2>1. [sub[t] EXCEPT !.pc = "lockStudent", !.capacity = groups[g].capacity] \in SubmitActive
    BY <1>1 DEF SubmitActive, SubmitPcs, TypeOK, StoreTypeOK
  <2>2. SubmitTypeOK'
    BY <1>3, <2>1 DEF TypeOK, SubmitTypeOK
  <2>3. StoreTypeOK'
    BY <1>1, <1>3 DEF TypeOK, StoreTypeOK, tables
  <2> QED
    BY <2>2, <2>3 DEF TypeOK, ReviewTypeOK, AdminTypeOK
<1> QED
  BY <1>2, <1>3 DEF SubmitLockGroup

\* The student lock.
LEMMA SubmitLockStudentType ==
    ASSUME TypeOK, NEW t \in Submitters, SubmitLockStudent(t), UNCHANGED <<rev, edits>>
    PROVE  TypeOK'
<1> DEFINE s == sub[t].in.student
<1>1. sub[t] \in SubmitActive /\ sub[t].pc # "idle" /\ s \in Students
  BY SubmitActiveType DEF SubmitLockStudent, SubmitActive, SubmitInput
<1>2. CASE Rollback(t, "ErrStudentNotFound", 0)
  BY <1>1, <1>2, RollbackType, StoreAssumption DEF SubmitReplies, SubmitRefusals
<1>3. CASE /\ slock' = [slock EXCEPT ![s] = t]
           /\ sub' = [sub EXCEPT ![t].pc = "window", ![t].shift = students[s].shift]
           /\ UNCHANGED <<tables, glock, rlock>>
  <2>1. [sub[t] EXCEPT !.pc = "window", !.shift = students[s].shift] \in SubmitActive
    BY <1>1 DEF SubmitActive, SubmitPcs, TypeOK, StoreTypeOK
  <2>2. SubmitTypeOK'
    BY <1>3, <2>1 DEF TypeOK, SubmitTypeOK
  <2>3. StoreTypeOK'
    BY <1>1, <1>3 DEF TypeOK, StoreTypeOK, tables
  <2> QED
    BY <2>2, <2>3 DEF TypeOK, ReviewTypeOK, AdminTypeOK
<1> QED
  BY <1>2, <1>3 DEF SubmitLockStudent

\* The statements that only read.
LEMMA SubmitReadType ==
    ASSUME TypeOK, NEW t \in Submitters,
           SubmitWindow(t) \/ SubmitCount(t) \/ SubmitOccupancy(t), UNCHANGED <<rev, edits>>
    PROVE  TypeOK'
<1>1. sub[t] \in SubmitActive /\ sub[t].pc # "idle"
  BY SubmitActiveType DEF SubmitWindow, SubmitCount, SubmitOccupancy
<1>2. \A pc \in SubmitPcs \ {"idle"} : Advance(t, pc) => TypeOK'
  <2> SUFFICES ASSUME NEW pc \in SubmitPcs \ {"idle"}, Advance(t, pc) PROVE TypeOK'
    OBVIOUS
  <2>1. [sub[t] EXCEPT !.pc = pc] \in SubmitActive
    BY <1>1 DEF SubmitActive
  <2>2. sub' = [sub EXCEPT ![t] = [sub[t] EXCEPT !.pc = pc]]
    BY DEF Advance
  <2> QED
    BY <2>1, <2>2, AdvanceType DEF Advance
<1>3. CASE SubmitWindow(t)
  BY <1>1, <1>2, <1>3, RollbackType, StoreAssumption
  DEF SubmitWindow, SubmitPcs, SubmitReplies, SubmitRefusals
<1>4. CASE SubmitCount(t)
  BY <1>1, <1>2, <1>4, RollbackType, StoreAssumption
  DEF SubmitCount, SubmitPcs, SubmitReplies, SubmitRefusals
<1>5. CASE SubmitOccupancy(t)
  <2>1. PICK c : /\ c = Classify(sub[t].shift, GroupShift[sub[t].in.group],
                      [capacity |-> sub[t].capacity,
                       accepted |-> Cardinality(AcceptedIn(sub[t].in.group)),
                       pendingDirect |-> Cardinality(PendingDirectIn(sub[t].in.group))])
                 /\ sub' = [sub EXCEPT ![t].pc = "insert", ![t].priority = c.priority,
                                       ![t].status = c.status]
    BY <1>5 DEF SubmitOccupancy
  <2>2. c.priority \in Priorities /\ c.status \in EntryStatuses
    BY <2>1 DEF Classify, Classification, Priorities, EntryStatuses
  <2>3. [sub[t] EXCEPT !.pc = "insert", !.priority = c.priority, !.status = c.status]
            \in SubmitActive
    BY <1>1, <2>2 DEF SubmitActive, SubmitPcs
  <2>4. sub' = [sub EXCEPT ![t] = [sub[t] EXCEPT !.pc = "insert", !.priority = c.priority,
                                                 !.status = c.status]]
    BY <2>1
  <2> QED
    BY <2>3, <2>4, <1>5, AdvanceType DEF SubmitOccupancy
<1> QED
  BY <1>3, <1>4, <1>5

\* The insert.
LEMMA SubmitInsertType ==
    ASSUME TypeOK, NEW t \in Submitters, SubmitInsert(t), UNCHANGED <<rev, edits>>
    PROVE  TypeOK'
<1>1. sub[t] \in SubmitActive /\ sub[t].pc # "idle"
  BY SubmitActiveType DEF SubmitInsert
<1>2. seq' \in 0 .. MaxArrival /\ seq <= seq' /\ seq \in Nat
  BY StoreAssumption DEF SubmitInsert, TypeOK, StoreTypeOK
<1>3. CASE \E reply \in SubmitReplies, id \in 0 .. MaxArrival :
              Reply(t, reply, id) /\ ReleaseLocks(t)
  <2>1. SubmitTypeOK'
    BY <1>1, <1>3, ReplyType
  <2>2. StoreTypeOK'
    BY <1>2, <1>3, ReleaseType DEF SubmitInsert, TypeOK, StoreTypeOK
  <2> QED
    BY <2>1, <2>2 DEF TypeOK, ReviewTypeOK, AdminTypeOK
<1>4. CASE /\ seq < MaxArrival
           /\ sub' = [sub EXCEPT ![t].pc = "commit", ![t].id = seq + 1]
           /\ UNCHANGED locks
  <2> DEFINE n == seq + 1
  <2>0. n \in 0 .. MaxArrival
    BY <1>2, <1>4, StoreAssumption
  <2> HIDE DEF n
  <2>1. [sub[t] EXCEPT !.pc = "commit", !.id = n] \in SubmitActive
    BY <1>1, <2>0 DEF SubmitActive, SubmitPcs
  <2>2. SubmitTypeOK'
    BY <1>4, <2>1 DEF TypeOK, SubmitTypeOK, n
  <2>3. StoreTypeOK'
    BY <1>2, <1>4 DEF SubmitInsert, TypeOK, StoreTypeOK, locks
  <2> QED
    BY <2>2, <2>3 DEF TypeOK, ReviewTypeOK, AdminTypeOK
<1>5. \A r \in WithKey(sub[t].in) : r \in 0 .. MaxArrival
  BY <1>2, StoreAssumption DEF WithKey, TypeOK, StoreTypeOK
<1> QED
  BY <1>3, <1>4, <1>5, StoreAssumption DEF SubmitInsert, SubmitReplies, SubmitRefusals

\* The row a committing Submit writes is well formed.
LEMMA NewRowType ==
    ASSUME TypeOK, NEW t \in Submitters, sub[t].pc # "idle"
    PROVE  NewRow(t) \in Row
BY SubmitActiveType DEF NewRow, Row, SubmitActive, SubmitInput, EntryStatuses, Statuses

\* The commit; the number of the new row comes from UncommittedRow.
LEMMA SubmitCommitType ==
    ASSUME TypeOK, NEW t \in Submitters, SubmitOK(t), SubmitCommit(t), UNCHANGED <<rev, edits>>
    PROVE  TypeOK'
<1> DEFINE id == sub[t].id
<1>1. /\ sub[t] \in SubmitActive /\ sub[t].pc # "idle"
      /\ id \in Ids /\ id \in 1 .. seq /\ id \in 0 .. MaxArrival
  BY SubmitActiveType, StoreAssumption
  DEF SubmitCommit, SubmitOK, UncommittedRow, Ids, TypeOK, StoreTypeOK
<1>2. SubmitTypeOK'
  BY <1>1, ReplyType DEF SubmitCommit, SubmitReplies
<1>3. DOMAIN reqs' = DOMAIN reqs \cup {id} /\ reqs' \in [DOMAIN reqs' -> Row]
  BY <1>1, NewRowType DEF SubmitCommit, Put, TypeOK, StoreTypeOK
<1>4. /\ audit' \in [DOMAIN reqs' -> [prev : Statuses \cup {NoStatus}, new : Statuses]]
      /\ outbox' \in [DOMAIN reqs' -> NotificationTypes]
  <2>1. sub[t].status \in Statuses
    BY <1>1 DEF SubmitActive, EntryStatuses, Statuses
  <2>2. Record(id, NoStatus, sub[t].status, "REQUEST_SUBMITTED")
    BY DEF SubmitCommit
  <2>3. "REQUEST_SUBMITTED" \in NotificationTypes /\ "REQUEST_SUBMITTED" # "NONE"
    BY DEF NotificationTypes
  <2> QED
    BY <1>1, <1>3, <2>1, <2>2, <2>3, RecordType
<1>5. ReleaseLocks(t) /\ UNCHANGED <<seq, groups, students, windows>>
  BY DEF SubmitCommit
<1>6. StoreTypeOK'
  BY <1>1, <1>3, <1>4, <1>5, ReleaseType DEF TypeOK, StoreTypeOK
<1> QED
  BY <1>2, <1>6 DEF TypeOK, ReviewTypeOK, AdminTypeOK

\* A failure and the return to the caller.
LEMMA SubmitEndType ==
    ASSUME TypeOK, NEW t \in Submitters, SubmitFail(t) \/ SubmitReturn(t),
           UNCHANGED <<rev, edits>>
    PROVE  TypeOK'
<1>1. CASE SubmitFail(t)
  BY <1>1, RollbackType, StoreAssumption DEF SubmitFail, InTx, SubmitReplies
<1>2. CASE SubmitReturn(t)
  BY <1>2, AdvanceType DEF SubmitReturn
<1> QED
  BY <1>1, <1>2

\* Cancel keeps the types.
LEMMA CancelType ==
    ASSUME TypeOK, NEW s \in Students, NEW r \in Ids, Cancel(s, r), UNCHANGED <<rev, edits>>
    PROVE  TypeOK'
<1>1. reqs' \in [DOMAIN reqs -> Row] /\ DOMAIN reqs' = DOMAIN reqs /\ r \in DOMAIN reqs
      /\ reqs[r].status \in Statuses
  <2>1. r \in DOMAIN reqs /\ reqs[r] \in Row /\ reqs \in [DOMAIN reqs -> Row]
    BY DEF Cancel, TypeOK, StoreTypeOK
  <2>2. reqs[r].status \in Statuses
        /\ [reqs[r] EXCEPT !.status = "CANCELLED_BY_STUDENT"] \in Row
    BY <2>1 DEF Row, Statuses
  <2>3. reqs' = [reqs EXCEPT ![r] = [reqs[r] EXCEPT !.status = "CANCELLED_BY_STUDENT"]]
    BY DEF Cancel
  <2> QED
    BY <2>1, <2>2, <2>3
<1>2. /\ audit' \in [DOMAIN reqs' -> [prev : Statuses \cup {NoStatus}, new : Statuses]]
      /\ outbox' \in [DOMAIN reqs' -> NotificationTypes]
  <2>1. "CANCELLED_BY_STUDENT" \in Statuses
        /\ "REQUEST_CANCELLED_BY_STUDENT" \in NotificationTypes
        /\ "REQUEST_CANCELLED_BY_STUDENT" # "NONE"
    BY DEF Statuses, NotificationTypes
  <2>2. Record(r, reqs[r].status, "CANCELLED_BY_STUDENT", "REQUEST_CANCELLED_BY_STUDENT")
    BY DEF Cancel
  <2> QED
    BY <1>1, <2>1, <2>2, RecordType
<1> QED
  BY <1>1, <1>2 DEF Cancel, TypeOK, StoreTypeOK, SubmitTypeOK, ReviewTypeOK, AdminTypeOK, locks

\* The group whose seats a decision is about exists.
LEMMA CapacityGroupType ==
    ASSUME TypeOK, NEW a \in Reviewers, DecideOK(a), rev[a].pc # "idle"
    PROVE  CapacityGroup(a) \in Groups
BY DecideActiveType DEF CapacityGroup, DecideOK, DecideActive, DecisionInput

\* There are finitely many requests.
LEMMA RowsFinite ==
    ASSUME TypeOK
    PROVE  IsFiniteSet(DOMAIN reqs)
<1>1. seq \in Nat /\ DOMAIN reqs \in SUBSET Nat /\ \A r \in DOMAIN reqs : r <= seq
  BY DEF TypeOK, StoreTypeOK
<1> QED
  BY <1>1, FS_BoundedSetOfNaturals

\* So every count the transactions take is a natural number.
LEMMA CountsType ==
    ASSUME TypeOK
    PROVE  /\ \A g : /\ IsFiniteSet(AcceptedIn(g)) /\ Cardinality(AcceptedIn(g)) \in Nat
                    /\ IsFiniteSet(PendingDirectIn(g)) /\ Cardinality(PendingDirectIn(g)) \in Nat
           /\ \A s, sem : /\ IsFiniteSet(ActiveOf(s, sem)) /\ Cardinality(ActiveOf(s, sem)) \in Nat
                         /\ Cardinality(AcceptedOf(s, sem)) \in Nat
<1>1. \A S \in SUBSET DOMAIN reqs : IsFiniteSet(S) /\ Cardinality(S) \in Nat
  BY RowsFinite, FS_Subset, FS_CardinalityType
<1> QED
  BY <1>1 DEF AcceptedIn, PendingDirectIn, ActiveOf, AcceptedOf

\* A rollback of Decide keeps the types.
LEMMA DecideRollbackType ==
    ASSUME TypeOK, NEW a \in Reviewers, DecideRollback(a), UNCHANGED <<sub, edits>>
    PROVE  TypeOK'
<1>1. ReviewTypeOK'
  BY DEF DecideRollback, TypeOK, ReviewTypeOK
<1>2. StoreTypeOK'
  BY ReleaseType DEF DecideRollback, tables, TypeOK, StoreTypeOK
<1> QED
  BY <1>1, <1>2 DEF TypeOK, SubmitTypeOK, AdminTypeOK

\* Type preservation of the statements of Decide: the request lock.
LEMMA DecideLockRequestType ==
    ASSUME TypeOK, NEW a \in Reviewers, NEW in \in DecisionInput, DecideLockRequest(a, in),
           UNCHANGED <<sub, edits>>
    PROVE  TypeOK'
<1> DEFINE v == [pc |-> "lockGroup", in |-> in, status |-> reqs[in.request].status,
                 group |-> reqs[in.request].group, capacity |-> 0,
                 groupAccepted |-> 0, studentAccepted |-> 0]
<1>1. reqs[in.request] \in Row /\ in.request \in Ids
  BY DEF DecideLockRequest, TypeOK, StoreTypeOK, DecisionInput
<1>2. v \in DecideActive
  BY <1>1 DEF DecideActive, Row
<1>3. rev' = [rev EXCEPT ![a] = v]
  BY DEF DecideLockRequest
<1> HIDE DEF v
<1>4. ReviewTypeOK'
  BY <1>2, <1>3 DEF TypeOK, ReviewTypeOK
<1>5. StoreTypeOK'
  BY <1>1 DEF DecideLockRequest, tables, TypeOK, StoreTypeOK
<1> QED
  BY <1>4, <1>5 DEF TypeOK, SubmitTypeOK, AdminTypeOK

\* The group lock.
LEMMA DecideLockGroupType ==
    ASSUME TypeOK, NEW a \in Reviewers, DecideOK(a), DecideLockGroup(a), UNCHANGED <<sub, edits>>
    PROVE  TypeOK'
<1> DEFINE g == CapacityGroup(a)
<1>1. rev[a] \in DecideActive /\ g \in Groups
  BY DecideActiveType, CapacityGroupType DEF DecideLockGroup
<1> HIDE DEF g
<1>2. CASE DecideRollback(a)
  BY <1>2, DecideRollbackType
<1>3. CASE /\ glock' = [glock EXCEPT ![g] = a]
           /\ rev' = [rev EXCEPT ![a].pc = "count", ![a].capacity = groups[g].capacity]
           /\ UNCHANGED <<tables, slock, rlock>>
  <2>1. [rev[a] EXCEPT !.pc = "count", !.capacity = groups[g].capacity] \in DecideActive
    BY <1>1 DEF DecideActive, TypeOK, StoreTypeOK
  <2>2. ReviewTypeOK'
    BY <1>3, <2>1 DEF TypeOK, ReviewTypeOK
  <2>3. StoreTypeOK'
    BY <1>1, <1>3 DEF TypeOK, StoreTypeOK, tables
  <2> QED
    BY <2>2, <2>3 DEF TypeOK, SubmitTypeOK, AdminTypeOK
<1> QED
  BY <1>2, <1>3 DEF DecideLockGroup, g

\* The two counts.
LEMMA DecideCountType ==
    ASSUME TypeOK, NEW a \in Reviewers, DecideCount(a), UNCHANGED <<sub, edits>>
    PROVE  TypeOK'
<1>1. rev[a] \in DecideActive
  BY DecideActiveType DEF DecideCount
<1>2. PICK n \in Nat, m \in Nat :
         rev' = [rev EXCEPT ![a].pc = "apply", ![a].groupAccepted = n, ![a].studentAccepted = m]
  <2> DEFINE row == reqs[rev[a].in.request]
             n == Cardinality(AcceptedIn(CapacityGroup(a)))
             m == Cardinality(AcceptedOf(row.student, row.semester))
  <2>1. n \in Nat /\ m \in Nat
    BY CountsType
  <2>2. rev' = [rev EXCEPT ![a].pc = "apply", ![a].groupAccepted = n, ![a].studentAccepted = m]
    BY Zenon DEF DecideCount
  <2> HIDE DEF n, m
  <2> QED
    BY <2>1, <2>2
<1>3. [rev[a] EXCEPT !.pc = "apply", !.groupAccepted = n, !.studentAccepted = m] \in DecideActive
  BY <1>1 DEF DecideActive
<1>4. ReviewTypeOK'
  BY <1>2, <1>3 DEF TypeOK, ReviewTypeOK
<1>5. StoreTypeOK'
  BY DEF DecideCount, TypeOK, StoreTypeOK, tables, locks
<1> QED
  BY <1>4, <1>5 DEF TypeOK, SubmitTypeOK, AdminTypeOK

\* What ApplyDecision returns: an error, or the status and the conditions that
\* allow it.
LEMMA OutcomeCases ==
    ASSUME NEW dt, NEW ctx, ctx.status \in Statuses
    PROVE  LET st == ApplyDecision(dt, ctx)
           IN \/ st \in DecisionErrors
              \/ st = "CANCELLED_BY_ADMIN" /\ dt = "ADMIN_CANCEL" /\ IsCancellableByAdmin(ctx.status)
              \/ st \in {"REJECTED", "PENDING_REVIEW"} /\ dt \in {"REJECT", "MOVE_TO_REVIEW"}
                 /\ ~IsTerminal(ctx.status)
              \/ st = "ACCEPTED" /\ dt \in AcceptanceTypes /\ ~IsTerminal(ctx.status)
                 /\ ~(ctx.groupAccepted >= ctx.capacity)
<1>1. CASE ~ctx.reasonValid
  BY <1>1 DEF ApplyDecision, DecisionErrors
<1>2. CASE ctx.reasonValid /\ dt = "ADMIN_CANCEL"
  BY <1>2 DEF ApplyDecision, DecisionErrors
<1>3. CASE ctx.reasonValid /\ dt # "ADMIN_CANCEL" /\ IsTerminal(ctx.status)
  BY <1>3 DEF ApplyDecision, DecisionErrors
<1>4. CASE ctx.reasonValid /\ dt # "ADMIN_CANCEL" /\ ~IsTerminal(ctx.status)
  <2>1. ApplyDecision(dt, ctx) = OpenOutcome(dt, ctx)
    BY <1>4 DEF ApplyDecision
  <2>2. CASE dt \in AcceptanceTypes
    <3>1. OpenOutcome(dt, ctx) = AcceptanceOutcome(dt, ctx)
      BY <2>2 DEF OpenOutcome, AcceptanceTypes
    <3>2. \/ AcceptanceOutcome(dt, ctx) \in DecisionErrors
          \/ AcceptanceOutcome(dt, ctx) = "ACCEPTED" /\ ~(ctx.groupAccepted >= ctx.capacity)
      BY DEF AcceptanceOutcome, DecisionErrors
    <3> QED
      BY <1>4, <2>1, <2>2, <3>1, <3>2
  <2>3. CASE dt = "REJECT"
    BY <1>4, <2>1, <2>3 DEF OpenOutcome, AcceptanceTypes
  <2>4. CASE dt = "MOVE_TO_REVIEW"
    BY <1>4, <2>1, <2>4 DEF OpenOutcome, AcceptanceTypes
  <2>5. CASE dt \notin AcceptanceTypes \cup {"REJECT", "MOVE_TO_REVIEW"}
    BY <1>4, <2>1, <2>5 DEF OpenOutcome, DecisionErrors
  <2> QED
    BY <2>2, <2>3, <2>4, <2>5
<1> QED
  BY <1>1, <1>2, <1>3, <1>4

\* The four ways a Decide call can change its request.
LEMMA DecisionCases ==
    ASSUME TypeOK, NEW a \in Reviewers, DecideOK(a), rev[a].pc = "apply",
           DecisionOutcome(a) \notin DecisionErrors
    PROVE  LET st  == DecisionOutcome(a)
               old == reqs[rev[a].in.request].status
           IN \/ st = "CANCELLED_BY_ADMIN" /\ rev[a].in.type = "ADMIN_CANCEL"
                 /\ IsCancellableByAdmin(old)
              \/ st \in {"REJECTED", "PENDING_REVIEW"}
                 /\ rev[a].in.type \in {"REJECT", "MOVE_TO_REVIEW"} /\ ~IsTerminal(old)
              \/ st = "ACCEPTED" /\ rev[a].in.type \in AcceptanceTypes /\ ~IsTerminal(old)
                 /\ rev[a].groupAccepted < rev[a].capacity
<1> DEFINE ctx == [status |-> rev[a].status, reasonValid |-> rev[a].in.reasonValid,
                   targetGiven |-> rev[a].in.target # NoGroup,
                   capacity |-> rev[a].capacity, groupAccepted |-> rev[a].groupAccepted,
                   studentAccepted |-> rev[a].studentAccepted]
<1>1. rev[a] \in DecideActive
  BY DecideActiveType
<1>2. /\ ctx.status = rev[a].status /\ ctx.capacity = rev[a].capacity
      /\ ctx.groupAccepted = rev[a].groupAccepted
  OBVIOUS
<1>3. DecisionOutcome(a) = ApplyDecision(rev[a].in.type, ctx)
  BY DEF DecisionOutcome
<1> HIDE DEF ctx
<1>4. rev[a].status = reqs[rev[a].in.request].status /\ rev[a].status \in Statuses
  BY <1>1 DEF DecideOK, DecideActive
<1>5. rev[a].capacity \in Nat /\ rev[a].groupAccepted \in Nat
  BY <1>1 DEF DecideActive
<1>6. ~(rev[a].groupAccepted >= rev[a].capacity) => rev[a].groupAccepted < rev[a].capacity
  BY <1>5
<1> QED
  BY <1>2, <1>3, <1>4, <1>6, OutcomeCases

\* The row a decision leaves behind.
LEMMA DecidedRow ==
    ASSUME TypeOK, NEW a \in Reviewers, DecideOK(a), DecideCommit(a), ~DecideRollback(a)
    PROVE  LET r  == rev[a].in.request
               st == DecisionOutcome(a)
               g  == CapacityGroup(a)
           IN /\ rev[a].pc = "apply" /\ st \notin DecisionErrors /\ ~TargetTaken(a)
              /\ r \in DOMAIN reqs /\ r \in Ids /\ g \in Groups /\ st \in Statuses
              /\ reqs' = [reqs EXCEPT ![r] = [reqs[r] EXCEPT !.status = st, !.group = g]]
              /\ [reqs[r] EXCEPT !.status = st, !.group = g] \in Row
              /\ Record(r, rev[a].status, st, NotifyFor(rev[a].in.type))
              /\ rev' = [rev EXCEPT ![a] = DecideIdle]
              /\ ReleaseLocks(a)
              /\ UNCHANGED <<seq, groups, students, windows>>
<1> DEFINE r  == rev[a].in.request
           st == DecisionOutcome(a)
           g  == CapacityGroup(a)
<1>1. /\ rev[a].pc = "apply" /\ st \notin DecisionErrors /\ ~TargetTaken(a)
      /\ reqs' = [reqs EXCEPT ![r].status = st,
                    ![r].group = IF rev[a].in.type = "CREATE_GROUP_ACCEPTANCE"
                                 THEN rev[a].in.target ELSE @]
      /\ Record(r, rev[a].status, st, NotifyFor(rev[a].in.type))
      /\ rev' = [rev EXCEPT ![a] = DecideIdle]
      /\ ReleaseLocks(a)
      /\ UNCHANGED <<seq, groups, students, windows>>
  BY DEF DecideCommit
<1>2. r \in DOMAIN reqs /\ reqs[r] \in Row /\ r \in Ids
  BY <1>1 DEF DecideOK, TypeOK, StoreTypeOK, Ids
<1>3. g \in Groups
  BY <1>1, CapacityGroupType
<1>4. st \in Statuses
  BY <1>1, DecisionCases DEF Statuses
<1>5. g = IF rev[a].in.type = "CREATE_GROUP_ACCEPTANCE"
          THEN rev[a].in.target ELSE reqs[r].group
  BY <1>1 DEF CapacityGroup, DecideOK
<1> HIDE DEF st
<1>6. reqs' = [reqs EXCEPT ![r] = [reqs[r] EXCEPT !.status = st, !.group = g]]
  BY <1>1, <1>2, <1>5
<1> HIDE DEF g
<1>7. [reqs[r] EXCEPT !.status = st, !.group = g] \in Row
  BY <1>2, <1>3, <1>4 DEF Row
<1> QED
  BY <1>1, <1>2, <1>3, <1>4, <1>6, <1>7 DEF st, g

\* The commit.
LEMMA DecideCommitType ==
    ASSUME TypeOK, NEW a \in Reviewers, DecideOK(a), DecideCommit(a), UNCHANGED <<sub, edits>>
    PROVE  TypeOK'
<1>1. CASE DecideRollback(a)
  BY <1>1, DecideRollbackType
<1>2. CASE ~DecideRollback(a)
  <2> DEFINE r  == rev[a].in.request
             st == DecisionOutcome(a)
             ty == NotifyFor(rev[a].in.type)
             row == [reqs[r] EXCEPT !.status = st, !.group = CapacityGroup(a)]
  <2>1. /\ r \in DOMAIN reqs /\ r \in Ids /\ st \in Statuses
        /\ reqs' = [reqs EXCEPT ![r] = row] /\ row \in Row
        /\ Record(r, rev[a].status, st, ty)
        /\ rev' = [rev EXCEPT ![a] = DecideIdle]
        /\ ReleaseLocks(a)
        /\ UNCHANGED <<seq, groups, students, windows>>
        /\ rev[a].pc = "apply"
    BY <1>2, DecidedRow
  <2>2. rev[a].status \in Statuses
    BY <2>1, DecideActiveType DEF DecideActive
  <2>3. ty \in NotificationTypes
    BY DEF NotifyFor, NotificationTypes, AcceptanceTypes
  <2> HIDE DEF ty, st, row, r
  <2>4. DOMAIN reqs' = DOMAIN reqs /\ reqs' \in [DOMAIN reqs -> Row]
    BY <2>1 DEF TypeOK, StoreTypeOK
  <2>5. /\ audit' \in [DOMAIN reqs' -> [prev : Statuses \cup {NoStatus}, new : Statuses]]
        /\ outbox' \in [DOMAIN reqs' -> NotificationTypes]
    BY <2>1, <2>2, <2>3, <2>4, RecordType
  <2>6. StoreTypeOK'
    BY <2>1, <2>4, <2>5, ReleaseType DEF TypeOK, StoreTypeOK
  <2>7. ReviewTypeOK'
    BY <2>1 DEF TypeOK, ReviewTypeOK
  <2> QED
    BY <2>6, <2>7 DEF TypeOK, SubmitTypeOK, AdminTypeOK
<1> QED
  BY <1>1, <1>2

\* Administrative edits keep the types.
LEMMA AdminType ==
    ASSUME TypeOK, AdminNext
    PROVE  TypeOK'
<1>1. AdminTypeOK' /\ SubmitTypeOK' /\ ReviewTypeOK'
  BY DEF AdminNext, AdjustCapacity, UpdateGroup, UpdateStudent, ToggleWindow, Edit,
         TypeOK, AdminTypeOK, SubmitTypeOK, ReviewTypeOK
<1>2. StoreTypeOK'
  <2>1. ASSUME NEW g \in Groups, NEW c \in Capacities, AdjustCapacity(g, c)
        PROVE  StoreTypeOK'
    BY <2>1 DEF AdjustCapacity, TypeOK, StoreTypeOK, locks
  <2>2. ASSUME NEW g \in Groups, NEW active \in BOOLEAN, UpdateGroup(g, active)
        PROVE  StoreTypeOK'
    BY <2>2 DEF UpdateGroup, TypeOK, StoreTypeOK, locks
  <2>3. ASSUME NEW s \in Students, NEW shift \in Shifts, NEW active \in BOOLEAN,
               UpdateStudent(s, shift, active)
        PROVE  StoreTypeOK'
    BY <2>3 DEF UpdateStudent, TypeOK, StoreTypeOK, locks
  <2>4. ASSUME NEW w \in Semesters \X Shifts, ToggleWindow(w)
        PROVE  StoreTypeOK'
    BY <2>4 DEF ToggleWindow, TypeOK, StoreTypeOK, locks
  <2> QED
    BY <2>1, <2>2, <2>3, <2>4 DEF AdminNext
<1> QED
  BY <1>1, <1>2 DEF TypeOK

\* Every step keeps the types, given the rest of the inductive invariant.
LEMMA NextType ==
    ASSUME IInv, [Next]_vars
    PROVE  TypeOK'
<1> USE DEF IInv
<1>1. CASE SubmitNext
  BY <1>1, SubmitBeginType, SubmitLockGroupType, SubmitLockStudentType, SubmitReadType,
     SubmitInsertType, SubmitCommitType, SubmitEndType DEF SubmitNext
<1>2. CASE CancelNext
  BY <1>2, CancelType DEF CancelNext
<1>3. CASE ReviewNext
  BY <1>3, DecideLockRequestType, DecideLockGroupType, DecideCountType, DecideCommitType,
     DecideRollbackType DEF ReviewNext, DecideFail
<1>4. CASE AdminNext
  BY <1>4, AdminType
<1>5. CASE UNCHANGED vars
  BY <1>5 DEF vars, tables, locks, TypeOK, StoreTypeOK, SubmitTypeOK, ReviewTypeOK, AdminTypeOK
<1> QED
  BY <1>1, <1>2, <1>3, <1>4, <1>5 DEF Next

----
(* What a step of one transaction leaves alone of the others'.  These are the *)
(* guarantees that make a row lock useful: who holds one may rely on them.    *)

\* The requests of the student only lose active members and gain none.
StudentStable(s) ==
    \A r \in DOMAIN reqs' : reqs'[r].student = s =>
        /\ r \in DOMAIN reqs /\ reqs[r].student = s
        /\ reqs[r].semester = reqs'[r].semester /\ reqs[r].key = reqs'[r].key
        /\ IsActive(reqs'[r].status) => IsActive(reqs[r].status)

\* The group gains no request, no accepted seat and no direct slot, and loses no
\* accepted seat.
GroupStable(g) ==
    /\ \A r \in DOMAIN reqs' : reqs'[r].group = g =>
          /\ r \in DOMAIN reqs /\ reqs[r].group = g /\ reqs[r].priority = reqs'[r].priority
          /\ reqs'[r].status = "ACCEPTED" => reqs[r].status = "ACCEPTED"
          /\ reqs'[r].status = "PENDING_REVIEW" => reqs[r].status = "PENDING_REVIEW"
    /\ \A r \in DOMAIN reqs : reqs[r].group = g /\ reqs[r].status = "ACCEPTED" =>
          r \in DOMAIN reqs' /\ reqs'[r].group = g /\ reqs'[r].status = "ACCEPTED"

\* The step of transaction x keeps the locals of the others, their locks, and the
\* rows and numbers those protect.  x = Free stands for a step of no transaction.
Undisturbed(x) ==
    /\ \A u \in Submitters \ {x} : sub'[u] = sub[u]
    /\ \A b \in Reviewers \ {x} : rev'[b] = rev[b]
    /\ \A g \in Groups : glock[g] \notin {Free, x} =>
          glock'[g] = glock[g] /\ groups'[g].capacity = groups[g].capacity /\ GroupStable(g)
    /\ \A s \in Students : slock[s] \notin {Free, x} => slock'[s] = slock[s] /\ StudentStable(s)
    /\ \A r \in DOMAIN reqs : rlock[r] \notin {Free, x} =>
          rlock'[r] = rlock[r] /\ r \in DOMAIN reqs' /\ reqs'[r] = reqs[r]
    /\ seq' \in Nat /\ seq <= seq'
    /\ \A u \in Submitters \ {x} : sub[u].pc = "commit" =>
          /\ sub[u].id \notin DOMAIN reqs'
          /\ x \in Submitters /\ sub'[x].pc = "commit" => sub'[x].id # sub[u].id

\* What is stable is not counted higher later.
LEMMA StableCounts ==
    ASSUME TypeOK
    PROVE  /\ \A g : GroupStable(g) =>
                 /\ AcceptedIn(g)' = AcceptedIn(g)
                 /\ Cardinality(PendingDirectIn(g)') <= Cardinality(PendingDirectIn(g))
                 /\ Cardinality(PendingDirectIn(g)') \in Nat
           /\ \A s, sem : StudentStable(s) =>
                 /\ ActiveOf(s, sem)' \subseteq ActiveOf(s, sem)
                 /\ Cardinality(ActiveOf(s, sem)') <= Cardinality(ActiveOf(s, sem))
                 /\ Cardinality(ActiveOf(s, sem)') \in Nat
<1>1. ASSUME NEW g, GroupStable(g)
      PROVE  AcceptedIn(g)' = AcceptedIn(g) /\ PendingDirectIn(g)' \subseteq PendingDirectIn(g)
  BY <1>1 DEF GroupStable, AcceptedIn, PendingDirectIn
<1>2. ASSUME NEW s, NEW sem, StudentStable(s)
      PROVE  ActiveOf(s, sem)' \subseteq ActiveOf(s, sem)
  BY <1>2 DEF StudentStable, ActiveOf
<1>3. \A S, T : IsFiniteSet(S) /\ T \subseteq S => Cardinality(T) <= Cardinality(S) /\ Cardinality(T) \in Nat
  BY FS_Subset, FS_CardinalityType
<1> QED
  BY <1>1, <1>2, <1>3, CountsType

\* A Submit call that takes no part in the step keeps what it relies on.
LEMMA OtherSubmitOK ==
    ASSUME TypeOK, NEW x, NEW u \in Submitters \ {x}, Undisturbed(x), SubmitOK(u)
    PROVE  SubmitOK(u)'
<1>in. PICK in : in = sub[u].in
  OBVIOUS
<1> USE <1>in
<1>0. CASE sub[u].pc = "idle"
  BY <1>0 DEF SubmitOK, Undisturbed, SubmitLocks, CapReserved, SlotReserved, UncommittedRow,
              HoldsGroup, HoldsStudent
<1> SUFFICES ASSUME sub[u].pc # "idle" PROVE SubmitOK(u)'
  BY <1>0
<1>1. /\ in.student \in Students /\ in.group \in Groups /\ sub'[u] = sub[u]
      /\ sub[u].id \in Nat
  BY SubmitActiveType DEF SubmitActive, SubmitInput, Undisturbed
<1>2. u # Free /\ u # x
  BY StoreAssumption
<1>3. ASSUME sub[u].pc \in HoldsGroup
      PROVE  /\ glock[in.group] = u /\ glock'[in.group] = u
             /\ groups'[in.group].capacity = groups[in.group].capacity /\ GroupStable(in.group)
  BY <1>1, <1>2, <1>3 DEF SubmitOK, SubmitLocks, Undisturbed
<1>4. ASSUME sub[u].pc \in HoldsStudent
      PROVE  slock'[in.student] = u /\ StudentStable(in.student)
  BY <1>1, <1>2, <1>4 DEF SubmitOK, SubmitLocks, Undisturbed
<1>5. SubmitLocks(u)'
  BY <1>1, <1>3, <1>4 DEF SubmitOK, SubmitLocks
<1>6. CapReserved(u)'
  <2> SUFFICES ASSUME sub[u].pc \in {"occupancy", "insert", "commit"}
               PROVE  Cardinality(ActiveOf(in.student, in.semester)') < MaxElectivesPerSemester
    BY <1>1 DEF CapReserved
  <2>1. StudentStable(in.student)
    BY <1>4 DEF HoldsStudent, HoldsGroup
  <2>2. Cardinality(ActiveOf(in.student, in.semester)) < MaxElectivesPerSemester
    BY DEF SubmitOK, CapReserved
  <2>3. /\ Cardinality(ActiveOf(in.student, in.semester)') <= Cardinality(ActiveOf(in.student, in.semester))
        /\ Cardinality(ActiveOf(in.student, in.semester)') \in Nat
        /\ Cardinality(ActiveOf(in.student, in.semester)) \in Nat
    BY <2>1, StableCounts, CountsType
  <2> QED
    BY <2>2, <2>3
<1>7. SlotReserved(u)'
  <2> SUFFICES ASSUME sub[u].pc \in {"insert", "commit"}, sub[u].priority = "DIRECT_SAME_SHIFT"
               PROVE  Cardinality(AcceptedIn(in.group)') + Cardinality(PendingDirectIn(in.group)')
                          < groups'[in.group].capacity
    BY <1>1 DEF SlotReserved
  <2>1. GroupStable(in.group) /\ groups'[in.group].capacity = groups[in.group].capacity
    BY <1>3 DEF HoldsGroup
  <2>2. Cardinality(AcceptedIn(in.group)) + Cardinality(PendingDirectIn(in.group))
            < groups[in.group].capacity
    BY DEF SubmitOK, SlotReserved
  <2>3. AcceptedIn(in.group)' = AcceptedIn(in.group)
    BY <2>1, StableCounts
  <2>4. /\ Cardinality(PendingDirectIn(in.group)') <= Cardinality(PendingDirectIn(in.group))
        /\ Cardinality(PendingDirectIn(in.group)') \in Nat
        /\ Cardinality(PendingDirectIn(in.group)) \in Nat
        /\ Cardinality(AcceptedIn(in.group)) \in Nat
    BY <2>1, StableCounts, CountsType
  <2>5. groups[in.group].capacity \in Nat
    BY <1>1 DEF TypeOK, StoreTypeOK
  <2> QED
    BY <2>1, <2>2, <2>3, <2>4, <2>5
<1>8. UncommittedRow(u)'
  <2> SUFFICES ASSUME sub[u].pc = "commit" PROVE UncommittedRow(u)'
    BY <1>1 DEF UncommittedRow
  <2>1. GroupStable(in.group) /\ StudentStable(in.student)
    BY <1>3, <1>4 DEF HoldsGroup, HoldsStudent
  <2>2. /\ sub[u].id \in 1 .. seq /\ sub[u].id \notin DOMAIN reqs
        /\ \A r \in DOMAIN reqs : reqs[r].group = sub[u].in.group => r < sub[u].id
        /\ \A v \in Submitters \ {u} : sub[v].pc = "commit" => sub[v].id # sub[u].id
        /\ WithKey(in) = {}
        /\ ActiveInGroup(in.student, in.semester, in.group) = {}
    BY DEF SubmitOK, UncommittedRow
  <2>3. sub[u].id \in 1 .. seq' /\ sub[u].id \notin DOMAIN reqs'
    BY <2>2 DEF Undisturbed, TypeOK, StoreTypeOK
  <2>4. \A r \in DOMAIN reqs' : reqs'[r].group = in.group => r < sub[u].id
    BY <2>1, <2>2 DEF GroupStable
  <2>5. \A v \in Submitters \ {u} : sub'[v].pc = "commit" => sub'[v].id # sub[u].id
    BY <2>2 DEF Undisturbed
  <2>6. WithKey(in)' = {}
    BY <1>1, <2>1, <2>2 DEF WithKey, StudentStable
  <2>7. ActiveInGroup(in.student, in.semester, in.group)' = {}
    BY <1>1, <2>1, <2>2 DEF ActiveInGroup, ActiveOf, StudentStable, GroupStable
  <2> QED
    BY <1>1, <2>3, <2>4, <2>5, <2>6, <2>7 DEF UncommittedRow
<1> QED
  BY <1>5, <1>6, <1>7, <1>8 DEF SubmitOK

\* Nor does a Decide call that takes no part in the step lose anything.
LEMMA OtherDecideOK ==
    ASSUME TypeOK, NEW x, NEW b \in Reviewers \ {x}, Undisturbed(x), DecideOK(b)
    PROVE  DecideOK(b)'
<1>0. rev'[b] = rev[b] /\ b # Free /\ b # x /\ CapacityGroup(b)' = CapacityGroup(b)
  BY StoreAssumption DEF Undisturbed, CapacityGroup
<1>1. ASSUME rev[b].pc # "idle"
      PROVE  /\ rev[b].in.request \in DOMAIN reqs'
             /\ rlock'[rev[b].in.request] = b
             /\ reqs'[rev[b].in.request] = reqs[rev[b].in.request]
  BY <1>0, <1>1 DEF DecideOK, Undisturbed
<1>2. ASSUME rev[b].pc \in {"count", "apply"}
      PROVE  /\ glock'[CapacityGroup(b)] = b
             /\ groups'[CapacityGroup(b)].capacity = groups[CapacityGroup(b)].capacity
             /\ GroupStable(CapacityGroup(b))
  <2>1. glock[CapacityGroup(b)] = b /\ CapacityGroup(b) \in Groups
    BY <1>2, CapacityGroupType DEF DecideOK
  <2> QED
    BY <1>0, <2>1 DEF Undisturbed
<1>3. ASSUME rev[b].pc = "apply"
      PROVE  AcceptedIn(CapacityGroup(b))' = AcceptedIn(CapacityGroup(b))
  BY <1>0, <1>2, <1>3 DEF GroupStable, AcceptedIn
<1> QED
  BY <1>0, <1>1, <1>2, <1>3 DEF DecideOK

\* A step that writes no request and touches no lock but its own.
Quiet(x) ==
    /\ reqs' = reqs
    /\ \A u \in Submitters \ {x} : sub'[u] = sub[u]
    /\ \A b \in Reviewers \ {x} : rev'[b] = rev[b]
    /\ \A g \in Groups : glock[g] \notin {Free, x} =>
          glock'[g] = glock[g] /\ groups'[g].capacity = groups[g].capacity
    /\ \A s \in Students : slock[s] \notin {Free, x} => slock'[s] = slock[s]
    /\ \A r \in Ids : rlock[r] \notin {Free, x} => rlock'[r] = rlock[r]
    /\ seq' \in Nat /\ seq <= seq'
    /\ x \in Submitters /\ sub'[x].pc = "commit" => sub'[x].id > seq

\* A quiet step disturbs no other transaction.
LEMMA QuietUndisturbed ==
    ASSUME IInv, NEW x, Quiet(x)
    PROVE  Undisturbed(x)
<1>1. DOMAIN reqs \subseteq Ids /\ seq \in Nat
  BY DEF IInv, TypeOK, StoreTypeOK, Ids
<1>2. \A g : GroupStable(g)
  BY DEF Quiet, GroupStable
<1>3. \A s : StudentStable(s)
  BY DEF Quiet, StudentStable
<1>4. \A u \in Submitters : sub[u].pc = "commit" =>
          /\ sub[u].id \in 1 .. seq /\ sub[u].id \notin DOMAIN reqs
  BY DEF IInv, SubmitOK, UncommittedRow
<1>5. \A u \in Submitters \ {x} : sub[u].pc = "commit" =>
          /\ sub[u].id \notin DOMAIN reqs'
          /\ x \in Submitters /\ sub'[x].pc = "commit" => sub'[x].id # sub[u].id
  BY <1>1, <1>4 DEF Quiet
<1> QED
  BY <1>1, <1>2, <1>3, <1>5 DEF Quiet, Undisturbed

\* A rollback, like every step of Submit before its commit, is quiet.
LEMMA SubmitQuiet ==
    ASSUME IInv, NEW t \in Submitters, UNCHANGED <<rev, edits>>,
           \/ \E in \in SubmitInput : SubmitBegin(t, in)
           \/ SubmitLockGroup(t) \/ SubmitLockStudent(t) \/ SubmitWindow(t) \/ SubmitCount(t)
           \/ SubmitOccupancy(t) \/ SubmitInsert(t) \/ SubmitFail(t) \/ SubmitReturn(t)
    PROVE  Quiet(t)
<1>0. /\ seq \in Nat /\ sub \in [Submitters -> SubmitActive \cup {SubmitIdle}]
      /\ glock \in [Groups -> Submitters \cup Reviewers \cup {Free}]
      /\ slock \in [Students -> Submitters \cup {Free}]
  BY DEF IInv, TypeOK, StoreTypeOK, SubmitTypeOK
<1>1. ASSUME NEW reply, NEW id, Rollback(t, reply, id) PROVE Quiet(t)
  BY <1>0, <1>1 DEF Rollback, Reply, ReleaseLocks, Quiet, tables
<1>2. ASSUME NEW pc, pc # "commit", Advance(t, pc) PROVE Quiet(t)
  BY <1>0, <1>2 DEF Advance, Quiet, tables, locks
<1>3. ASSUME NEW in, SubmitBegin(t, in) PROVE Quiet(t)
  <2>1. \E v : sub' = [sub EXCEPT ![t] = v] /\ v.pc # "commit"
    BY <1>3 DEF SubmitBegin
  <2> QED
    BY <1>0, <1>3, <2>1 DEF SubmitBegin, Quiet, tables, locks
<1>4. CASE SubmitLockGroup(t)
  <2>1. \/ Rollback(t, "ErrGroupNotFound", 0)
        \/ \E g, v : /\ glock[g] = Free /\ glock' = [glock EXCEPT ![g] = t]
                     /\ sub' = [sub EXCEPT ![t].pc = "lockStudent", ![t].capacity = v]
                     /\ UNCHANGED <<tables, slock, rlock>>
    BY <1>4, Zenon DEF SubmitLockGroup
  <2>2. ASSUME NEW x, NEW v, glock[x] = Free, glock' = [glock EXCEPT ![x] = t],
               sub' = [sub EXCEPT ![t].pc = "lockStudent", ![t].capacity = v],
               UNCHANGED <<tables, slock, rlock>>
        PROVE  Quiet(t)
    <3>1. sub'[t].pc # "commit" /\ \A u \in Submitters \ {t} : sub'[u] = sub[u]
      BY <1>0, <2>2 DEF SubmitActive, SubmitIdle
    <3>2. \A g \in Groups : glock[g] \notin {Free, t} => glock'[g] = glock[g]
      BY <1>0, <2>2
    <3> QED
      BY <1>0, <2>2, <3>1, <3>2 DEF Quiet, tables
  <2> QED
    BY <1>1, <2>1, <2>2
<1>5. CASE SubmitLockStudent(t)
  <2>1. \/ Rollback(t, "ErrStudentNotFound", 0)
        \/ \E s, v : /\ slock[s] = Free /\ slock' = [slock EXCEPT ![s] = t]
                     /\ sub' = [sub EXCEPT ![t].pc = "window", ![t].shift = v]
                     /\ UNCHANGED <<tables, glock, rlock>>
    BY <1>5, Zenon DEF SubmitLockStudent
  <2>2. ASSUME NEW x, NEW v, slock[x] = Free, slock' = [slock EXCEPT ![x] = t],
               sub' = [sub EXCEPT ![t].pc = "window", ![t].shift = v],
               UNCHANGED <<tables, glock, rlock>>
        PROVE  Quiet(t)
    <3>1. sub'[t].pc # "commit" /\ \A u \in Submitters \ {t} : sub'[u] = sub[u]
      BY <1>0, <2>2 DEF SubmitActive, SubmitIdle
    <3>2. \A s \in Students : slock[s] \notin {Free, t} => slock'[s] = slock[s]
      BY <1>0, <2>2
    <3> QED
      BY <1>0, <2>2, <3>1, <3>2 DEF Quiet, tables
  <2> QED
    BY <1>1, <2>1, <2>2
<1>6. CASE SubmitWindow(t)
  BY <1>1, <1>2, <1>6 DEF SubmitWindow
<1>7. CASE SubmitCount(t)
  BY <1>1, <1>2, <1>7 DEF SubmitCount
<1>8. CASE SubmitOccupancy(t)
  BY <1>0, <1>8 DEF SubmitOccupancy, Quiet, tables, locks
<1>9. CASE SubmitInsert(t)
  <2>1. seq' \in Nat /\ seq <= seq' /\ UNCHANGED <<reqs, groups>>
    BY <1>0, <1>9 DEF SubmitInsert
  <2>2. ASSUME NEW reply, NEW id, Reply(t, reply, id), ReleaseLocks(t) PROVE Quiet(t)
    BY <1>0, <2>1, <2>2 DEF Reply, ReleaseLocks, Quiet
  <2>3. ASSUME sub' = [sub EXCEPT ![t].pc = "commit", ![t].id = seq + 1], UNCHANGED locks
        PROVE  Quiet(t)
    <3>1. sub'[t].id = seq + 1 /\ \A u \in Submitters \ {t} : sub'[u] = sub[u]
      BY <1>0, <2>3 DEF SubmitActive, SubmitIdle
    <3> QED
      BY <1>0, <2>1, <2>3, <3>1 DEF Quiet, locks
  <2> QED
    BY <1>9, <2>2, <2>3 DEF SubmitInsert
<1>10. CASE SubmitFail(t)
  BY <1>1, <1>10 DEF SubmitFail
<1>11. CASE SubmitReturn(t)
  BY <1>0, <1>11 DEF SubmitReturn, SubmitIdle, Quiet, tables, locks
<1> QED
  BY <1>3, <1>4, <1>5, <1>6, <1>7, <1>8, <1>9, <1>10, <1>11

\* So is a rollback of Decide,
LEMMA DecideRollbackQuiet ==
    ASSUME IInv, NEW a \in Reviewers, DecideRollback(a), UNCHANGED <<sub, edits>>
    PROVE  Quiet(a)
BY DEF IInv, TypeOK, StoreTypeOK, ReviewTypeOK, DecideRollback, ReleaseLocks, Quiet, tables

\* and every step of Decide before its commit,
LEMMA DecideQuiet ==
    ASSUME IInv, NEW a \in Reviewers, UNCHANGED <<sub, edits>>,
           \/ \E in \in DecisionInput : DecideLockRequest(a, in)
           \/ DecideLockGroup(a) \/ DecideCount(a) \/ DecideFail(a)
    PROVE  Quiet(a)
<1>0. seq \in Nat /\ a \notin Submitters /\ ReviewTypeOK
      /\ glock \in [Groups -> Submitters \cup Reviewers \cup {Free}]
      /\ rlock \in [Ids -> Reviewers \cup {Free}]
  BY DEF IInv, TypeOK, StoreTypeOK
<1>1. ASSUME NEW in, DecideLockRequest(a, in) PROVE Quiet(a)
  BY <1>0, <1>1 DEF DecideLockRequest, Quiet, tables, ReviewTypeOK
<1>2. CASE DecideLockGroup(a)
  <2>1. PICK g : /\ glock[g] = Free
                 /\ \/ DecideRollback(a)
                    \/ /\ glock' = [glock EXCEPT ![g] = a]
                       /\ rev' = [rev EXCEPT ![a].pc = "count", ![a].capacity = groups[g].capacity]
                       /\ UNCHANGED <<tables, slock, rlock>>
    BY <1>2 DEF DecideLockGroup
  <2> QED
    BY <1>0, <2>1, DecideRollbackQuiet DEF Quiet, tables, ReviewTypeOK
<1>3. CASE DecideCount(a)
  <2>1. \E n, m : rev' = [rev EXCEPT ![a].pc = "apply", ![a].groupAccepted = n,
                                     ![a].studentAccepted = m]
    BY <1>3, Zenon DEF DecideCount
  <2> QED
    BY <1>0, <1>3, <2>1 DEF DecideCount, Quiet, tables, locks, ReviewTypeOK
<1>4. CASE DecideFail(a)
  BY <1>4, DecideRollbackQuiet DEF DecideFail
<1> QED
  BY <1>1, <1>2, <1>3, <1>4

\* and an administrative edit: it waits for the row it changes.
LEMMA AdminQuiet ==
    ASSUME IInv, AdminNext
    PROVE  Quiet(Free)
<1>0. /\ seq \in Nat /\ Free \notin Submitters
      /\ groups \in [Groups -> [capacity : Capacities, active : BOOLEAN]]
      /\ UNCHANGED <<sub, rev, locks, reqs, seq>>
  BY DEF IInv, TypeOK, StoreTypeOK, AdminNext, AdjustCapacity, UpdateGroup, UpdateStudent,
         ToggleWindow
<1>1. \A g \in Groups : glock[g] # Free => groups'[g].capacity = groups[g].capacity
  BY <1>0 DEF AdminNext, AdjustCapacity, UpdateGroup, UpdateStudent, ToggleWindow
<1> QED
  BY <1>0, <1>1 DEF Quiet, locks

\* A commit of Submit adds one row, of the student and the group it has locked.
LEMMA CommitRows ==
    ASSUME IInv, NEW t \in Submitters, SubmitCommit(t)
    PROVE  /\ sub[t].id \in 1 .. seq /\ sub[t].id \notin DOMAIN reqs
           /\ DOMAIN reqs' = DOMAIN reqs \cup {sub[t].id}
           /\ \A r \in DOMAIN reqs : reqs'[r] = reqs[r]
           /\ reqs'[sub[t].id] = NewRow(t)
           /\ NewRow(t).student = sub[t].in.student /\ NewRow(t).group = sub[t].in.group
           /\ NewRow(t).semester = sub[t].in.semester
           /\ sub[t].in.student \in Students /\ sub[t].in.group \in Groups
           /\ glock[sub[t].in.group] = t /\ slock[sub[t].in.student] = t
<1>1. sub[t].pc = "commit" /\ SubmitOK(t) /\ sub[t] \in SubmitActive
  BY SubmitActiveType DEF SubmitCommit, IInv
<1>2. sub[t].id \in 1 .. seq /\ sub[t].id \notin DOMAIN reqs
  BY <1>1 DEF SubmitOK, UncommittedRow
<1>3. reqs' = Put(reqs, sub[t].id, NewRow(t))
  BY DEF SubmitCommit
<1>4. glock[sub[t].in.group] = t /\ slock[sub[t].in.student] = t
  BY <1>1 DEF SubmitOK, SubmitLocks, HoldsGroup, HoldsStudent
<1> QED
  BY <1>1, <1>2, <1>3, <1>4 DEF Put, NewRow, SubmitActive, SubmitInput

\* A commit of Submit disturbs no other transaction.
LEMMA CommitUndisturbed ==
    ASSUME IInv, NEW t \in Submitters, SubmitCommit(t), UNCHANGED <<rev, edits>>
    PROVE  Undisturbed(t)
<1>a. PICK id, g0, s0 : id = sub[t].id /\ g0 = sub[t].in.group /\ s0 = sub[t].in.student
  OBVIOUS
<1>0. /\ id \in 1 .. seq /\ id \notin DOMAIN reqs /\ id = sub[t].id
      /\ DOMAIN reqs' = DOMAIN reqs \cup {id}
      /\ \A r \in DOMAIN reqs : reqs'[r] = reqs[r]
      /\ reqs'[id].student = s0 /\ reqs'[id].group = g0
      /\ glock[g0] = t /\ slock[s0] = t
  BY <1>a, CommitRows
<1>1. \A g \in Groups : glock[g] # t => GroupStable(g)
  BY <1>0 DEF GroupStable
<1>2. \A s \in Students : slock[s] # t => StudentStable(s)
  BY <1>0 DEF StudentStable
<1>3. \A u \in Submitters \ {t} : sub[u].pc = "commit" => sub[u].id \notin DOMAIN reqs'
  BY <1>0 DEF IInv, SubmitOK, UncommittedRow, SubmitCommit
<1>4. sub'[t].pc = "done" /\ \A u \in Submitters \ {t} : sub'[u] = sub[u]
  BY DEF SubmitCommit, Reply, IInv, TypeOK, SubmitTypeOK, SubmitActive, SubmitIdle
<1>5. /\ \A g \in Groups : glock[g] # t => glock'[g] = glock[g]
      /\ \A s \in Students : slock[s] # t => slock'[s] = slock[s]
      /\ \A r \in Ids : rlock[r] # t => rlock'[r] = rlock[r]
  BY DEF SubmitCommit, ReleaseLocks
<1>6. seq \in Nat /\ seq' = seq /\ groups' = groups /\ DOMAIN reqs \subseteq Ids
  BY DEF SubmitCommit, IInv, TypeOK, StoreTypeOK, Ids
<1> QED
  BY <1>0, <1>1, <1>2, <1>3, <1>4, <1>5, <1>6 DEF Undisturbed

\* Nor does a cancellation, and it adds no active request.
LEMMA CancelUndisturbed ==
    ASSUME IInv, NEW s \in Students, NEW r \in Ids, Cancel(s, r), UNCHANGED <<rev, edits>>
    PROVE  Undisturbed(Free) /\ \A x \in Students : StudentStable(x)
<1>1. /\ r \in DOMAIN reqs /\ DOMAIN reqs' = DOMAIN reqs
      /\ reqs'[r] = [reqs[r] EXCEPT !.status = "CANCELLED_BY_STUDENT"]
      /\ \A q \in DOMAIN reqs : q # r => reqs'[q] = reqs[q]
      /\ reqs[r] \in Row
  BY DEF Cancel, IInv, TypeOK, StoreTypeOK
<1>2. /\ reqs'[r].student = reqs[r].student /\ reqs'[r].semester = reqs[r].semester
      /\ reqs'[r].key = reqs[r].key /\ reqs'[r].group = reqs[r].group
      /\ reqs'[r].priority = reqs[r].priority
      /\ reqs'[r].status = "CANCELLED_BY_STUDENT" /\ reqs[r].status # "ACCEPTED"
      /\ ~IsActive(reqs'[r].status)
  BY <1>1 DEF Row, Cancel, IsTerminal, IsActive
<1>3. \A g : GroupStable(g)
  BY <1>1, <1>2 DEF GroupStable
<1>4. \A x : StudentStable(x)
  BY <1>1, <1>2 DEF StudentStable
<1>5. seq \in Nat /\ UNCHANGED <<seq, groups, locks, sub>> /\ rlock[r] = Free
  BY DEF Cancel, IInv, TypeOK, StoreTypeOK
<1>6. \A u \in Submitters : sub[u].pc = "commit" => sub[u].id \notin DOMAIN reqs'
  BY <1>1 DEF IInv, SubmitOK, UncommittedRow
<1>7. Free \notin Submitters
  BY StoreAssumption
<1> QED
  BY <1>1, <1>3, <1>4, <1>5, <1>6, <1>7 DEF Undisturbed, locks

\* What a decision changes of its request, and what it keeps.
LEMMA DecidedChange ==
    ASSUME TypeOK, NEW a \in Reviewers, DecideOK(a), DecideCommit(a), ~DecideRollback(a)
    PROVE  LET r == rev[a].in.request
           IN /\ r \in DOMAIN reqs /\ DOMAIN reqs' = DOMAIN reqs
              /\ \A q \in DOMAIN reqs : q # r => reqs'[q] = reqs[q]
              /\ reqs'[r].student = reqs[r].student /\ reqs'[r].semester = reqs[r].semester
              /\ reqs'[r].key = reqs[r].key /\ reqs'[r].priority = reqs[r].priority
              /\ reqs'[r].status = DecisionOutcome(a)
              /\ reqs'[r].group = CapacityGroup(a) /\ CapacityGroup(a) \in Groups
              /\ rev[a].in.type # "CREATE_GROUP_ACCEPTANCE" => reqs'[r].group = reqs[r].group
              /\ rev[a].in.type \in AcceptanceTypes => reqs[r].status # "ACCEPTED"
              /\ IsActive(reqs'[r].status) => IsActive(reqs[r].status)
<1> DEFINE r  == rev[a].in.request
           st == DecisionOutcome(a)
           g  == CapacityGroup(a)
<1>1. /\ r \in DOMAIN reqs /\ g \in Groups /\ rev[a].pc = "apply" /\ st \notin DecisionErrors
      /\ reqs' = [reqs EXCEPT ![r] = [reqs[r] EXCEPT !.status = st, !.group = g]]
  BY DecidedRow
<1>2. reqs[r] \in Row /\ reqs \in [DOMAIN reqs -> Row]
  BY <1>1 DEF TypeOK, StoreTypeOK
<1>3. rev[a].in.type # "CREATE_GROUP_ACCEPTANCE" => g = reqs[r].group
  BY <1>1 DEF CapacityGroup, DecideOK
<1>4. /\ IsActive(st) => IsActive(reqs[r].status)
      /\ rev[a].in.type \in AcceptanceTypes => reqs[r].status # "ACCEPTED"
  <2>1. reqs[r].status \in Statuses
    BY <1>2 DEF Row
  <2> QED
    BY <1>1, <2>1, DecisionCases DEF IsActive, IsTerminal, Statuses, AcceptanceTypes
<1> HIDE DEF r, st, g
<1>5. /\ DOMAIN reqs' = DOMAIN reqs /\ reqs'[r] = [reqs[r] EXCEPT !.status = st, !.group = g]
      /\ \A q \in DOMAIN reqs : q # r => reqs'[q] = reqs[q]
  BY <1>1, <1>2
<1>6. /\ reqs'[r].student = reqs[r].student /\ reqs'[r].semester = reqs[r].semester
      /\ reqs'[r].key = reqs[r].key /\ reqs'[r].priority = reqs[r].priority
      /\ reqs'[r].status = st /\ reqs'[r].group = g
  BY <1>2, <1>5 DEF Row
<1> QED
  BY <1>1, <1>3, <1>4, <1>5, <1>6 DEF r, st, g

\* Nor does a decision, and it adds no active request either.
LEMMA DecideUndisturbed ==
    ASSUME IInv, NEW a \in Reviewers, DecideCommit(a), ~DecideRollback(a),
           UNCHANGED <<sub, edits>>
    PROVE  Undisturbed(a) /\ \A x \in Students : StudentStable(x)
<1>0. TypeOK /\ DecideOK(a)
  BY DEF IInv
<1>1. PICK r, ga : /\ r = rev[a].in.request /\ ga = CapacityGroup(a)
                   /\ rev[a].pc = "apply" /\ glock[ga] = a /\ rlock[r] = a
  BY DEF DecideCommit, IInv, DecideOK
<1>2. /\ r \in DOMAIN reqs /\ DOMAIN reqs' = DOMAIN reqs
      /\ \A q \in DOMAIN reqs : q # r => reqs'[q] = reqs[q]
      /\ reqs'[r].student = reqs[r].student /\ reqs'[r].semester = reqs[r].semester
      /\ reqs'[r].key = reqs[r].key /\ reqs'[r].priority = reqs[r].priority
      /\ reqs'[r].group = ga
      /\ IsActive(reqs'[r].status) => IsActive(reqs[r].status)
      /\ reqs[r].group # ga => reqs[r].status # "ACCEPTED"
  <2>1. rev[a].in.type # "CREATE_GROUP_ACCEPTANCE" \/ rev[a].in.type \in AcceptanceTypes
    BY DEF AcceptanceTypes
  <2> QED
    BY <1>0, <1>1, <2>1, DecidedChange
<1>3. \A g \in Groups : glock[g] # a => GroupStable(g)
  BY <1>1, <1>2 DEF GroupStable
<1>4. \A s : StudentStable(s)
  BY <1>2 DEF StudentStable
<1>5. rev' = [rev EXCEPT ![a] = DecideIdle] /\ ReleaseLocks(a) /\ UNCHANGED <<seq, groups>>
  BY <1>0, DecidedRow
<1>6. /\ \A b \in Reviewers \ {a} : rev'[b] = rev[b]
      /\ \A g \in Groups : glock[g] # a => glock'[g] = glock[g]
      /\ \A s \in Students : slock[s] # a => slock'[s] = slock[s]
      /\ \A q \in Ids : rlock[q] # a => rlock'[q] = rlock[q]
  BY <1>0, <1>5 DEF ReleaseLocks, TypeOK, ReviewTypeOK
<1>7. \A u \in Submitters : sub[u].pc = "commit" => sub[u].id \notin DOMAIN reqs'
  BY <1>2 DEF IInv, SubmitOK, UncommittedRow
<1>8. a \notin Submitters /\ seq \in Nat /\ DOMAIN reqs \subseteq Ids
  BY <1>0, StoreAssumption DEF TypeOK, StoreTypeOK, Ids
<1>9. \A q \in DOMAIN reqs : rlock[q] # a => reqs'[q] = reqs[q] /\ q \in DOMAIN reqs'
  BY <1>1, <1>2
<1> QED
  BY <1>3, <1>4, <1>5, <1>6, <1>7, <1>8, <1>9 DEF Undisturbed

----
(* What a transaction establishes for itself. *)

\* Outside the statements that follow a lock there is nothing to keep.
LEMMA NothingHeld ==
    ASSUME NEW t \in Submitters, sub'[t].pc \in {"idle", "done", "lockGroup"}
    PROVE  SubmitOK(t)'
BY DEF SubmitOK, SubmitLocks, CapReserved, SlotReserved, UncommittedRow, HoldsGroup, HoldsStudent

\* A call that returns has nothing to keep.
LEMMA RollbackOK ==
    ASSUME TypeOK, NEW t \in Submitters, NEW reply, NEW id, Reply(t, reply, id)
    PROVE  SubmitOK(t)'
<1>1. sub'[t].pc = "done"
  BY DEF Reply, TypeOK, SubmitTypeOK, SubmitActive, SubmitIdle
<1> QED
  BY <1>1, NothingHeld

\* The two locks: the capacity read with the first one is the current one.
LEMMA SubmitLockOK ==
    ASSUME IInv, NEW t \in Submitters, SubmitLockGroup(t) \/ SubmitLockStudent(t)
    PROVE  SubmitOK(t)'
<1>0. TypeOK /\ SubmitOK(t) /\ sub[t] \in SubmitActive
      /\ sub \in [Submitters -> SubmitActive \cup {SubmitIdle}]
  BY SubmitActiveType DEF IInv, SubmitLockGroup, SubmitLockStudent, TypeOK, SubmitTypeOK
<1>1. ASSUME NEW g \in Groups, g = sub[t].in.group,
             sub' = [sub EXCEPT ![t].pc = "lockStudent", ![t].capacity = groups[g].capacity],
             glock' = [glock EXCEPT ![g] = t], UNCHANGED <<tables, slock, rlock>>
      PROVE  SubmitOK(t)'
  <2>1. sub'[t].pc = "lockStudent" /\ sub'[t].capacity = groups[g].capacity /\ sub'[t].in.group = g
    BY <1>0, <1>1 DEF SubmitActive
  <2>2. glock'[g] = t /\ groups' = groups
    BY <1>0, <1>1 DEF TypeOK, StoreTypeOK, tables
  <2> QED
    BY <2>1, <2>2 DEF SubmitOK, SubmitLocks, CapReserved, SlotReserved, UncommittedRow,
                      HoldsGroup, HoldsStudent
<1>2. ASSUME NEW s \in Students, s = sub[t].in.student, sub[t].pc = "lockStudent",
             sub' = [sub EXCEPT ![t].pc = "window", ![t].shift = students[s].shift],
             slock' = [slock EXCEPT ![s] = t], UNCHANGED <<tables, glock, rlock>>
      PROVE  SubmitOK(t)'
  <2>1. sub'[t].pc = "window" /\ sub'[t].capacity = sub[t].capacity /\ sub'[t].in = sub[t].in
    BY <1>0, <1>2 DEF SubmitActive
  <2>2. slock'[s] = t /\ groups' = groups /\ glock' = glock
    BY <1>0, <1>2 DEF TypeOK, StoreTypeOK, tables
  <2>3. glock[sub[t].in.group] = t /\ sub[t].capacity = groups[sub[t].in.group].capacity
    BY <1>0, <1>2 DEF SubmitOK, SubmitLocks, HoldsGroup
  <2> QED
    BY <1>2, <2>1, <2>2, <2>3 DEF SubmitOK, SubmitLocks, CapReserved, SlotReserved, UncommittedRow,
                      HoldsGroup, HoldsStudent
<1>3. sub[t].in.group \in Groups /\ sub[t].in.student \in Students
  BY <1>0 DEF SubmitActive, SubmitInput
<1>4. CASE SubmitLockGroup(t)
  BY <1>0, <1>1, <1>3, <1>4, RollbackOK DEF SubmitLockGroup, Rollback
<1>5. CASE SubmitLockStudent(t)
  BY <1>0, <1>2, <1>3, <1>5, RollbackOK DEF SubmitLockStudent, Rollback
<1> QED
  BY <1>4, <1>5

\* A step that only moves on to the next statement keeps the locks' guarantee.
LEMMA HeldLocks ==
    ASSUME IInv, NEW t \in Submitters, sub[t].pc \in HoldsStudent, sub'[t].pc \in HoldsStudent,
           sub'[t].in = sub[t].in, sub'[t].capacity = sub[t].capacity,
           UNCHANGED <<groups, locks>>
    PROVE  SubmitLocks(t)'
BY DEF IInv, SubmitOK, SubmitLocks, HoldsStudent, locks

\* The reads: the count and the classification are right when they are made.
LEMMA SubmitReadOK ==
    ASSUME IInv, NEW t \in Submitters,
           SubmitWindow(t) \/ SubmitCount(t) \/ SubmitOccupancy(t)
    PROVE  SubmitOK(t)'
<1>0. TypeOK /\ SubmitOK(t) /\ sub[t] \in SubmitActive
      /\ sub \in [Submitters -> SubmitActive \cup {SubmitIdle}]
  BY SubmitActiveType DEF IInv, SubmitWindow, SubmitCount, SubmitOccupancy, TypeOK, SubmitTypeOK
<1> PICK in : in = sub[t].in
  OBVIOUS
<1>1. ASSUME NEW pc, Advance(t, pc)
      PROVE  /\ sub'[t].pc = pc /\ sub'[t].in = in /\ sub'[t].capacity = sub[t].capacity
             /\ UNCHANGED <<reqs, groups, locks>>
  BY <1>0, <1>1 DEF Advance, tables, SubmitActive
<1>2. CASE SubmitWindow(t)
  <2>1. CASE Advance(t, "count")
    BY <1>1, <1>2, <2>1, HeldLocks DEF SubmitWindow, HoldsStudent, HoldsGroup, SubmitOK,
       CapReserved, SlotReserved, UncommittedRow
  <2> QED
    BY <1>0, <1>2, <2>1, RollbackOK DEF SubmitWindow, Rollback
<1>3. CASE SubmitCount(t)
  <2>1. CASE Advance(t, "occupancy") /\ ValidateSubmissionAllowed(Cardinality(ActiveOf(in.student, in.semester)))
    <3>1. sub[t].pc = "count" /\ sub'[t].pc = "occupancy" /\ sub'[t].in = in
          /\ sub'[t].capacity = sub[t].capacity /\ UNCHANGED <<reqs, groups, locks>>
      BY <1>1, <1>3, <2>1 DEF SubmitCount
    <3>2. SubmitLocks(t)'
      BY <3>1, HeldLocks DEF HoldsStudent, HoldsGroup
    <3>3. Cardinality(ActiveOf(in.student, in.semester)') < MaxElectivesPerSemester
      BY <2>1, <3>1 DEF ValidateSubmissionAllowed, ActiveOf
    <3>4. CapReserved(t)'
      BY <3>1, <3>3 DEF CapReserved
    <3> QED
      BY <3>1, <3>2, <3>4 DEF SubmitOK, SlotReserved, UncommittedRow
  <2> QED
    BY <1>0, <1>3, <2>1, RollbackOK DEF SubmitCount, Rollback
<1>4. CASE SubmitOccupancy(t)
  <2> DEFINE g == in.group
             occ == [capacity |-> sub[t].capacity, accepted |-> Cardinality(AcceptedIn(g)),
                     pendingDirect |-> Cardinality(PendingDirectIn(g))]
             c == Classify(sub[t].shift, GroupShift[g], occ)
  <2>1. sub' = [sub EXCEPT ![t].pc = "insert", ![t].priority = c.priority, ![t].status = c.status]
        /\ UNCHANGED <<reqs, groups, locks>> /\ sub[t].pc = "occupancy"
    BY <1>4 DEF SubmitOccupancy, tables
  <2>2. c.priority = "DIRECT_SAME_SHIFT" =>
            Cardinality(AcceptedIn(g)) + Cardinality(PendingDirectIn(g)) < sub[t].capacity
    BY DEF Classify, Classification, HasDirectRoom, DirectSlotsTaken
  <2> HIDE DEF c
  <2>3. /\ sub'[t].pc = "insert" /\ sub'[t].priority = c.priority /\ sub'[t].in = in
        /\ sub'[t].capacity = sub[t].capacity
    BY <1>0, <2>1 DEF SubmitActive
  <2>4. SubmitLocks(t)'
    BY <2>1, <2>3, HeldLocks DEF HoldsStudent, HoldsGroup
  <2>5. sub[t].capacity = groups[g].capacity
    BY <1>0, <2>1 DEF SubmitOK, SubmitLocks, HoldsGroup
  <2>6. CapReserved(t)'
    BY <1>0, <2>1, <2>3 DEF SubmitOK, CapReserved, ActiveOf
  <2>7. AcceptedIn(g)' = AcceptedIn(g) /\ PendingDirectIn(g)' = PendingDirectIn(g)
    BY <2>1 DEF AcceptedIn, PendingDirectIn
  <2>8. SlotReserved(t)'
    BY <2>1, <2>2, <2>3, <2>5, <2>7 DEF SlotReserved
  <2> QED
    BY <2>3, <2>4, <2>6, <2>8 DEF SubmitOK, UncommittedRow
<1> QED
  BY <1>2, <1>3, <1>4

\* The insert: the new number is the highest of all.
LEMMA SubmitInsertOK ==
    ASSUME IInv, NEW t \in Submitters, SubmitInsert(t)
    PROVE  SubmitOK(t)'
<1>0. TypeOK /\ SubmitOK(t) /\ sub[t] \in SubmitActive /\ sub[t].pc = "insert"
      /\ sub \in [Submitters -> SubmitActive \cup {SubmitIdle}]
  BY SubmitActiveType DEF IInv, SubmitInsert, TypeOK, SubmitTypeOK
<1> PICK in : in = sub[t].in
  OBVIOUS
<1>1. ASSUME seq < MaxArrival, WithKey(in) = {},
             ActiveInGroup(in.student, in.semester, in.group) = {},
             sub' = [sub EXCEPT ![t].pc = "commit", ![t].id = seq + 1], UNCHANGED locks
      PROVE  SubmitOK(t)'
  <2>1. seq \in Nat /\ DOMAIN reqs \subseteq 1 .. seq /\ seq' = seq + 1 /\ UNCHANGED <<reqs, groups>>
    BY <1>0, <1>1 DEF SubmitInsert, TypeOK, StoreTypeOK
  <2>2. /\ sub'[t].pc = "commit" /\ sub'[t].id = seq + 1 /\ sub'[t].in = in
        /\ sub'[t].capacity = sub[t].capacity /\ sub'[t].priority = sub[t].priority
        /\ \A u \in Submitters \ {t} : sub'[u] = sub[u]
    BY <1>0, <1>1 DEF SubmitActive
  <2>3. SubmitLocks(t)'
    BY <1>0, <1>1, <2>1, <2>2, HeldLocks DEF HoldsStudent, HoldsGroup
  <2>4. CapReserved(t)'
    BY <1>0, <2>1, <2>2 DEF SubmitOK, CapReserved, ActiveOf
  <2>5. AcceptedIn(in.group)' = AcceptedIn(in.group)
        /\ PendingDirectIn(in.group)' = PendingDirectIn(in.group)
    BY <2>1 DEF AcceptedIn, PendingDirectIn
  <2>6. SlotReserved(t)'
    BY <1>0, <2>1, <2>2, <2>5 DEF SubmitOK, SlotReserved
  <2>7. UncommittedRow(t)'
    <3>1. sub'[t].id \in 1 .. seq' /\ sub'[t].id \notin DOMAIN reqs'
      BY <2>1, <2>2
    <3>2. \A r \in DOMAIN reqs' : r < sub'[t].id
      BY <2>1, <2>2
    <3>3. \A u \in Submitters \ {t} : sub'[u].pc = "commit" => sub'[u].id # sub'[t].id
      <4>1. \A u \in Submitters : sub[u].pc = "commit" => sub[u].id \in 1 .. seq
        BY DEF IInv, SubmitOK, UncommittedRow
      <4> QED
        BY <2>1, <2>2, <4>1
    <3>4. WithKey(in)' = {} /\ ActiveInGroup(in.student, in.semester, in.group)' = {}
      BY <1>1, <2>1 DEF WithKey, ActiveInGroup, ActiveOf
    <3> QED
      BY <2>2, <3>1, <3>2, <3>3, <3>4 DEF UncommittedRow
  <2> QED
    BY <2>3, <2>4, <2>6, <2>7 DEF SubmitOK
<1> QED
  BY <1>0, <1>1, RollbackOK DEF SubmitInsert

\* Every step of Submit re-establishes its own part of the invariant.
LEMMA SubmitOwnOK ==
    ASSUME IInv, NEW t \in Submitters,
           \/ \E in \in SubmitInput : SubmitBegin(t, in)
           \/ SubmitLockGroup(t) \/ SubmitLockStudent(t) \/ SubmitWindow(t) \/ SubmitCount(t)
           \/ SubmitOccupancy(t) \/ SubmitInsert(t) \/ SubmitCommit(t) \/ SubmitFail(t)
           \/ SubmitReturn(t)
    PROVE  SubmitOK(t)'
<1>0. TypeOK /\ sub \in [Submitters -> SubmitActive \cup {SubmitIdle}]
  BY DEF IInv, TypeOK, SubmitTypeOK
<1>1. ASSUME NEW in \in SubmitInput, SubmitBegin(t, in) PROVE SubmitOK(t)'
  <2>1. sub'[t].pc \in {"done", "lockGroup"}
    BY <1>0, <1>1 DEF SubmitBegin
  <2> QED
    BY <2>1, NothingHeld
<1>2. CASE SubmitCommit(t) \/ SubmitFail(t)
  BY <1>0, <1>2, RollbackOK DEF SubmitCommit, SubmitFail, Rollback
<1>3. CASE SubmitReturn(t)
  BY <1>0, <1>3, NothingHeld DEF SubmitReturn, SubmitIdle
<1> QED
  BY <1>1, <1>2, <1>3, SubmitLockOK, SubmitReadOK, SubmitInsertOK

\* Every step of Decide re-establishes its own part of the invariant.
LEMMA DecideOwnOK ==
    ASSUME IInv, NEW a \in Reviewers,
           \/ \E in \in DecisionInput : DecideLockRequest(a, in)
           \/ DecideLockGroup(a) \/ DecideCount(a) \/ DecideCommit(a) \/ DecideFail(a)
    PROVE  DecideOK(a)'
<1>0. TypeOK /\ DecideOK(a) /\ rev \in [Reviewers -> DecideActive \cup {DecideIdle}]
  BY DEF IInv, TypeOK, ReviewTypeOK
<1>1. ASSUME rev' = [rev EXCEPT ![a] = DecideIdle] PROVE DecideOK(a)'
  BY <1>0, <1>1 DEF DecideOK, DecideIdle
<1>2. ASSUME NEW in \in DecisionInput, DecideLockRequest(a, in) PROVE DecideOK(a)'
  <2>1. /\ rev'[a].pc = "lockGroup" /\ rev'[a].in = in
        /\ rev'[a].status = reqs[in.request].status /\ rev'[a].group = reqs[in.request].group
    BY <1>0, <1>2 DEF DecideLockRequest
  <2>3. /\ in.request \in DOMAIN reqs /\ in.request \in Ids /\ reqs' = reqs
        /\ rlock' = [rlock EXCEPT ![in.request] = a]
        /\ in.type = "CREATE_GROUP_ACCEPTANCE" <=> in.target # NoGroup
    BY <1>2 DEF DecideLockRequest, DecisionInput, tables
  <2>4. rlock'[in.request] = a
    BY <1>0, <2>3 DEF TypeOK, StoreTypeOK
  <2> QED
    BY <2>1, <2>3, <2>4 DEF DecideOK
<1>3. CASE DecideLockGroup(a)
  <2> PICK g : g = CapacityGroup(a)
    OBVIOUS
  <2>1. CASE DecideRollback(a)
    BY <1>1, <2>1 DEF DecideRollback
  <2>2. CASE /\ glock' = [glock EXCEPT ![g] = a]
             /\ rev' = [rev EXCEPT ![a].pc = "count", ![a].capacity = groups[g].capacity]
             /\ UNCHANGED <<tables, slock, rlock>>
    <3>1. rev[a] \in DecideActive /\ rev[a].pc = "lockGroup" /\ g \in Groups
      BY <1>0, <1>3, DecideActiveType, CapacityGroupType DEF DecideLockGroup
    <3>2. /\ rev'[a].pc = "count" /\ rev'[a].capacity = groups[g].capacity
          /\ rev'[a].in = rev[a].in /\ rev'[a].status = rev[a].status
          /\ rev'[a].group = rev[a].group
      BY <1>0, <2>2, <3>1 DEF DecideActive
    <3>3. glock'[g] = a /\ UNCHANGED <<reqs, groups, rlock>> /\ CapacityGroup(a)' = g
      BY <1>0, <2>2, <3>1, <3>2 DEF TypeOK, StoreTypeOK, CapacityGroup, tables
    <3> QED
      BY <1>0, <3>1, <3>2, <3>3 DEF DecideOK
  <2> QED
    BY <1>3, <2>1, <2>2 DEF DecideLockGroup
<1>4. CASE DecideCount(a)
  <2> DEFINE row == reqs[rev[a].in.request]
             n == Cardinality(AcceptedIn(CapacityGroup(a)))
             m == Cardinality(AcceptedOf(row.student, row.semester))
  <2>1. rev' = [rev EXCEPT ![a].pc = "apply", ![a].groupAccepted = n, ![a].studentAccepted = m]
    BY <1>4, Zenon DEF DecideCount
  <2>2. rev[a] \in DecideActive /\ rev[a].pc = "count" /\ UNCHANGED <<reqs, groups, glock, rlock>>
    BY <1>0, <1>4, DecideActiveType DEF DecideCount, tables, locks
  <2> HIDE DEF m, n
  <2>3. /\ rev'[a].pc = "apply" /\ rev'[a].capacity = rev[a].capacity
        /\ rev'[a].groupAccepted = n
        /\ rev'[a].in = rev[a].in /\ rev'[a].status = rev[a].status
        /\ rev'[a].group = rev[a].group
    BY <1>0, <2>1, <2>2 DEF DecideActive
  <2>4. CapacityGroup(a)' = CapacityGroup(a)
    BY <2>3 DEF CapacityGroup
  <2>5. rev'[a].groupAccepted = Cardinality(AcceptedIn(CapacityGroup(a)))'
    BY <2>2, <2>3, <2>4 DEF n, AcceptedIn
  <2> QED
    BY <1>0, <2>2, <2>3, <2>4, <2>5 DEF DecideOK
<1>5. CASE DecideCommit(a) \/ DecideFail(a)
  BY <1>1, <1>5 DEF DecideCommit, DecideFail, DecideRollback
<1> QED
  BY <1>2, <1>3, <1>4, <1>5

\* The cap survives: only a commit of Submit adds an active request, and it has
\* counted under the student's lock.
LEMMA CommitCap ==
    ASSUME IInv, NEW t \in Submitters, SubmitCommit(t)
    PROVE  StudentCap'
<1> PICK id, in : id = sub[t].id /\ in = sub[t].in
  OBVIOUS
<1>1. /\ id \notin DOMAIN reqs /\ DOMAIN reqs' = DOMAIN reqs \cup {id}
      /\ \A r \in DOMAIN reqs : reqs'[r] = reqs[r]
      /\ reqs'[id].student = in.student /\ reqs'[id].semester = in.semester
  BY CommitRows
<1>2. Cardinality(ActiveOf(in.student, in.semester)) < MaxElectivesPerSemester
  BY DEF SubmitCommit, IInv, SubmitOK, CapReserved
<1> SUFFICES ASSUME NEW s \in Students, NEW sem \in Semesters
             PROVE  Cardinality(ActiveOf(s, sem)') <= MaxElectivesPerSemester
  BY DEF StudentCap
<1>3. CASE s = in.student /\ sem = in.semester
  <2>1. ActiveOf(s, sem)' \subseteq ActiveOf(s, sem) \cup {id}
    BY <1>1 DEF ActiveOf
  <2>2. IsFiniteSet(ActiveOf(s, sem)) /\ Cardinality(ActiveOf(s, sem)) \in Nat
    BY CountsType DEF IInv
  <2>3. /\ IsFiniteSet(ActiveOf(s, sem) \cup {id})
        /\ Cardinality(ActiveOf(s, sem) \cup {id}) <= Cardinality(ActiveOf(s, sem)) + 1
        /\ Cardinality(ActiveOf(s, sem) \cup {id}) \in Nat
    <3>1. /\ IsFiniteSet(ActiveOf(s, sem) \cup {id})
          /\ Cardinality(ActiveOf(s, sem) \cup {id}) =
                IF id \in ActiveOf(s, sem) THEN Cardinality(ActiveOf(s, sem))
                ELSE Cardinality(ActiveOf(s, sem)) + 1
      BY <2>2, FS_AddElement
    <3> QED
      BY <2>2, <3>1
  <2>4. /\ Cardinality(ActiveOf(s, sem)') <= Cardinality(ActiveOf(s, sem) \cup {id})
        /\ Cardinality(ActiveOf(s, sem)') \in Nat
    BY <2>1, <2>3, FS_Subset, FS_CardinalityType
  <2> QED
    BY <1>2, <1>3, <2>2, <2>3, <2>4
<1>4. CASE ~(s = in.student /\ sem = in.semester)
  <2>1. ActiveOf(s, sem)' = ActiveOf(s, sem)
    BY <1>1, <1>4 DEF ActiveOf
  <2> QED
    BY <2>1 DEF IInv, StudentCap
<1> QED
  BY <1>3, <1>4

\* Steps that add no active request keep the cap,
LEMMA StableCap ==
    ASSUME IInv, \A s \in Students : StudentStable(s)
    PROVE  StudentCap'
<1> SUFFICES ASSUME NEW s \in Students, NEW sem \in Semesters
             PROVE  Cardinality(ActiveOf(s, sem)') <= MaxElectivesPerSemester
  BY DEF StudentCap
<1>1. /\ Cardinality(ActiveOf(s, sem)') <= Cardinality(ActiveOf(s, sem))
      /\ Cardinality(ActiveOf(s, sem)') \in Nat
      /\ Cardinality(ActiveOf(s, sem)) \in Nat
  BY StableCounts, CountsType DEF IInv
<1>2. Cardinality(ActiveOf(s, sem)) <= MaxElectivesPerSemester
  BY DEF IInv, StudentCap
<1> QED
  BY <1>1, <1>2

\* quiet ones in particular.
LEMMA QuietCap ==
    ASSUME IInv, NEW x, Quiet(x)
    PROVE  StudentCap'
BY StableCap DEF Quiet, StudentStable

----
(* The inductive invariant. *)

\* The invariant holds initially.
LEMMA InitInv == Init => IInv
<1> SUFFICES ASSUME Init PROVE IInv
  OBVIOUS
<1>1. TypeOK
  BY InitType
<1>2. \A t \in Submitters : sub[t].pc = "idle"
  BY DEF Init, SubmitInit, SubmitIdle
<1>3. \A t \in Submitters : SubmitOK(t)
  BY <1>2 DEF SubmitOK, SubmitLocks, CapReserved, SlotReserved, UncommittedRow,
              HoldsGroup, HoldsStudent
<1>4. \A a \in Reviewers : DecideOK(a)
  BY DEF Init, ReviewInit, DecideIdle, DecideOK
<1>5. StudentCap
  <2>1. DOMAIN reqs = {}
    BY DEF Init, StoreInit
  <2>2. \A s, sem : ActiveOf(s, sem) = {}
    BY <2>1 DEF ActiveOf
  <2>3. Cardinality({}) = 0
    BY FS_EmptySet
  <2> QED
    BY <2>2, <2>3 DEF StudentCap
<1> QED
  BY <1>1, <1>3, <1>4, <1>5 DEF IInv

\* Every transaction other than the one that moves keeps its part of the invariant.
LEMMA Others ==
    ASSUME IInv, NEW x, Undisturbed(x)
    PROVE  /\ \A u \in Submitters \ {x} : SubmitOK(u)'
           /\ \A b \in Reviewers \ {x} : DecideOK(b)'
BY OtherSubmitOK, OtherDecideOK DEF IInv

\* It is kept by the steps of Submit,
LEMMA SubmitInv ==
    ASSUME IInv, NEW t \in Submitters, UNCHANGED <<rev, edits>>, TypeOK',
           \/ \E in \in SubmitInput : SubmitBegin(t, in)
           \/ SubmitLockGroup(t) \/ SubmitLockStudent(t) \/ SubmitWindow(t) \/ SubmitCount(t)
           \/ SubmitOccupancy(t) \/ SubmitInsert(t) \/ SubmitCommit(t) \/ SubmitFail(t)
           \/ SubmitReturn(t)
    PROVE  IInv'
<1>1. SubmitOK(t)'
  BY SubmitOwnOK
<1>2. Undisturbed(t) /\ StudentCap'
  <2>1. CASE SubmitCommit(t)
    BY <2>1, CommitUndisturbed, CommitCap
  <2>2. CASE ~SubmitCommit(t)
    <3>1. Quiet(t)
      BY <2>2, SubmitQuiet
    <3> QED
      BY <3>1, QuietUndisturbed, QuietCap
  <2> QED
    BY <2>1, <2>2
<1>3. t \notin Reviewers
  BY StoreAssumption
<1> QED
  BY <1>1, <1>2, <1>3, Others DEF IInv

\* and by those of Decide.
LEMMA DecideInv ==
    ASSUME IInv, NEW a \in Reviewers, UNCHANGED <<sub, edits>>, TypeOK',
           \/ \E in \in DecisionInput : DecideLockRequest(a, in)
           \/ DecideLockGroup(a) \/ DecideCount(a) \/ DecideCommit(a) \/ DecideFail(a)
    PROVE  IInv'
<1>1. DecideOK(a)'
  BY DecideOwnOK
<1>2. Undisturbed(a) /\ StudentCap'
  <2>1. CASE DecideCommit(a) /\ ~DecideRollback(a)
    BY <2>1, DecideUndisturbed, StableCap
  <2>2. CASE ~(DecideCommit(a) /\ ~DecideRollback(a))
    <3>1. Quiet(a)
      BY <2>2, DecideQuiet, DecideRollbackQuiet
    <3> QED
      BY <3>1, QuietUndisturbed, QuietCap
  <2> QED
    BY <2>1, <2>2
<1>3. a \notin Submitters
  BY StoreAssumption
<1> QED
  BY <1>1, <1>2, <1>3, Others DEF IInv

\* The invariant is inductive.
LEMMA NextInv ==
    ASSUME IInv, [Next]_vars
    PROVE  IInv'
<1>0. TypeOK'
  BY NextType
<1>1. CASE SubmitNext
  BY <1>0, <1>1, SubmitInv DEF SubmitNext
<1>2. CASE CancelNext
  <2>1. Undisturbed(Free) /\ StudentCap'
    BY <1>2, CancelUndisturbed, StableCap DEF CancelNext
  <2> QED
    BY <1>0, <2>1, Others, StoreAssumption DEF IInv
<1>3. CASE ReviewNext
  BY <1>0, <1>3, DecideInv DEF ReviewNext
<1>4. CASE AdminNext
  <2>1. Undisturbed(Free) /\ StudentCap'
    BY <1>4, AdminQuiet, QuietUndisturbed, QuietCap
  <2> QED
    BY <1>0, <2>1, Others, StoreAssumption DEF IInv
<1>5. CASE UNCHANGED vars
  <2>1. Quiet(Free)
    BY <1>5, StoreAssumption DEF Quiet, vars, tables, locks, IInv, TypeOK, StoreTypeOK
  <2>2. Undisturbed(Free) /\ StudentCap'
    BY <2>1, QuietUndisturbed, QuietCap
  <2> QED
    BY <1>0, <2>2, Others, StoreAssumption DEF IInv
<1> QED
  BY <1>1, <1>2, <1>3, <1>4, <1>5 DEF Next

\* The inductive invariant holds in every reachable state: what a running Submit or
\* Decide has read stays good enough until it commits.
THEOREM InductiveInvariant == Spec => []IInv
<1>1. IInv /\ [Next]_vars => IInv'
  BY NextInv
<1> QED
  BY InitInv, <1>1, PTL DEF Spec

\* Every table row, row lock and transaction local of the store keeps its type,
\* for any number of students, groups and transactions.
THEOREM TypeCorrect == Spec => []TypeOK
<1>1. IInv => TypeOK
  BY DEF IInv
<1> QED
  BY InductiveInvariant, <1>1, PTL

\* The cap of Submit holds for any number of students, groups and transactions.
THEOREM CapHolds == Spec => []StudentCap
<1>1. IInv => StudentCap
  BY DEF IInv
<1> QED
  BY InductiveInvariant, <1>1, PTL

====
