---- MODULE EnrollmentRefinementProofs ----
(***************************************************************************)
(* Idempotent answers, and the refinement of the atomic ledger: the        *)
(* transactions of submit.go, cancel.go and decide.go, interleaved         *)
(* statement by statement, change the committed requests only as one of    *)
(* the atomic operations of EnrollmentLedger would.                        *)
(*                                                                         *)
(* IInv says what a running transaction may rely on.  AnswerInv adds what  *)
(* its commit leaves behind: rows that obey the two unique indexes,        *)
(* classifications that exist, and answers that name a request with the    *)
(* key of the call.                                                        *)
(***************************************************************************)
EXTENDS EnrollmentSafetyProofs

----
(* The rows that are there stay, with the columns the unique indexes are made of. *)

\* A cancellation changes nothing but the status.
LEMMA CancelKeeps ==
    ASSUME IInv, NEW s \in Students, NEW r \in Ids, Cancel(s, r)
    PROVE  /\ reqs'[r].student = reqs[r].student /\ reqs'[r].semester = reqs[r].semester
           /\ reqs'[r].key = reqs[r].key /\ reqs'[r].group = reqs[r].group
           /\ ~IsActive(reqs'[r].status)
<1>1. r \in DOMAIN reqs /\ reqs[r] \in Row /\ reqs \in [DOMAIN reqs -> Row]
  BY DEF Cancel, IInv, TypeOK, StoreTypeOK
<1>2. reqs' = [reqs EXCEPT ![r] = [reqs[r] EXCEPT !.status = "CANCELLED_BY_STUDENT"]]
  BY DEF Cancel
<1> QED
  BY <1>1, <1>2 DEF Row, IsActive

\* No step removes a request or changes its student, its semester or its key.
LEMMA RowsKept ==
    ASSUME IInv, [Next]_vars, NEW r \in DOMAIN reqs
    PROVE  /\ r \in DOMAIN reqs' /\ reqs'[r].student = reqs[r].student
           /\ reqs'[r].semester = reqs[r].semester /\ reqs'[r].key = reqs[r].key
<1>1. CASE reqs' = reqs
  BY <1>1
<1>2. ASSUME NEW t \in Submitters, SubmitCommit(t)
      PROVE  r \in DOMAIN reqs' /\ reqs'[r] = reqs[r]
  BY <1>2, CommitRows
<1>3. ASSUME NEW s \in Students, NEW q \in Ids, Cancel(s, q)
      PROVE  /\ r \in DOMAIN reqs' /\ reqs'[r].student = reqs[r].student
             /\ reqs'[r].semester = reqs[r].semester /\ reqs'[r].key = reqs[r].key
  BY <1>3, CancelledRow, CancelKeeps
<1>4. ASSUME NEW a \in Reviewers, DecideCommit(a), ~DecideRollback(a)
      PROVE  /\ r \in DOMAIN reqs' /\ reqs'[r].student = reqs[r].student
             /\ reqs'[r].semester = reqs[r].semester /\ reqs'[r].key = reqs[r].key
  <2>1. TypeOK /\ DecideOK(a)
    BY DEF IInv
  <2> QED
    BY <1>4, <2>1, DecidedChange
<1> QED
  BY <1>1, <1>2, <1>3, <1>4, WritingSteps

----
(* The unique indexes. *)

\* A commit of Submit adds a row whose index entries nobody has.
LEMMA CommitUnique ==
    ASSUME IInv, UniqueIndexes, NEW t \in Submitters, SubmitCommit(t)
    PROVE  UniqueIndexes'
<1> PICK id, in : id = sub[t].id /\ in = sub[t].in
  OBVIOUS
<1>1. /\ id \notin DOMAIN reqs /\ DOMAIN reqs' = DOMAIN reqs \cup {id}
      /\ \A r \in DOMAIN reqs : reqs'[r] = reqs[r]
      /\ reqs'[id] = NewRow(t)
  BY CommitRows
<1>2. /\ reqs'[id].student = in.student /\ reqs'[id].semester = in.semester
      /\ reqs'[id].key = in.key /\ reqs'[id].group = in.group
  BY <1>1 DEF NewRow
<1>3. WithKey(in) = {} /\ ActiveInGroup(in.student, in.semester, in.group) = {}
  BY DEF IInv, SubmitOK, UncommittedRow, SubmitCommit
<1>4. \A r \in DOMAIN reqs : reqs[r].student = in.student /\ reqs[r].semester = in.semester =>
          /\ reqs[r].key # in.key
          /\ ~(IsActive(reqs[r].status) /\ reqs[r].group = in.group)
  BY <1>3 DEF WithKey, ActiveInGroup, ActiveOf
<1> QED
  BY <1>1, <1>2, <1>4 DEF UniqueIndexes

\* Every step keeps the committed rows unique: a row that is moved to another group is
\* checked against uq_active_request_per_group like a new one.
LEMMA UniqueStep ==
    ASSUME IInv, UniqueIndexes, [Next]_vars
    PROVE  UniqueIndexes'
<1>1. CASE reqs' = reqs
  BY <1>1 DEF UniqueIndexes
<1>2. ASSUME NEW s \in Students, NEW r \in Ids, Cancel(s, r)
      PROVE  UniqueIndexes'
  <2>1. /\ r \in DOMAIN reqs /\ DOMAIN reqs' = DOMAIN reqs
        /\ \A q \in DOMAIN reqs : q # r => reqs'[q] = reqs[q]
    BY <1>2, CancelledRow
  <2>2. /\ reqs'[r].student = reqs[r].student /\ reqs'[r].semester = reqs[r].semester
        /\ reqs'[r].key = reqs[r].key /\ ~IsActive(reqs'[r].status)
    BY <1>2, CancelKeeps
  <2> QED
    BY <2>1, <2>2 DEF UniqueIndexes
<1>3. ASSUME NEW a \in Reviewers, DecideCommit(a), ~DecideRollback(a)
      PROVE  UniqueIndexes'
  <2>0. TypeOK /\ DecideOK(a)
    BY DEF IInv
  <2> PICK r : r = rev[a].in.request
    OBVIOUS
  <2>1. /\ r \in DOMAIN reqs /\ DOMAIN reqs' = DOMAIN reqs
        /\ \A q \in DOMAIN reqs : q # r => reqs'[q] = reqs[q]
        /\ reqs'[r].student = reqs[r].student /\ reqs'[r].semester = reqs[r].semester
        /\ reqs'[r].key = reqs[r].key
        /\ rev[a].in.type # "CREATE_GROUP_ACCEPTANCE" => reqs'[r].group = reqs[r].group
        /\ IsActive(reqs'[r].status) => IsActive(reqs[r].status)
        /\ reqs'[r].group = CapacityGroup(a)
    BY <1>3, <2>0, DecidedChange
  <2>2. CASE rev[a].in.type # "CREATE_GROUP_ACCEPTANCE"
    BY <2>1, <2>2 DEF UniqueIndexes
  <2>3. CASE rev[a].in.type = "CREATE_GROUP_ACCEPTANCE"
    <3>1. ~TargetTaken(a)
      BY <1>3, <2>0, DecidedRow
    <3>2. reqs'[r].group = rev[a].in.target
      BY <2>1, <2>3 DEF CapacityGroup
    <3>3. \A q \in DOMAIN reqs :
             q # r /\ reqs[q].student = reqs[r].student /\ reqs[q].semester = reqs[r].semester
             /\ IsActive(reqs[q].status) => reqs[q].group # rev[a].in.target
      BY <2>3, <3>1 DEF TargetTaken, ActiveInGroup, ActiveOf
    <3> QED
      BY <2>1, <3>2, <3>3 DEF UniqueIndexes
  <2> QED
    BY <2>2, <2>3
<1> QED
  BY <1>1, <1>2, <1>3, CommitUnique, WritingSteps

----
(* The answers of Submit. *)

\* What Classify returns is one of the three ways a request may enter the ledger.
LEMMA ClassifyCases ==
    ASSUME NEW shift, NEW groupShift, NEW occ
    PROVE  Classify(shift, groupShift, occ) \in Ledger!Classifications
BY DEF Classify, Classification, Ledger!Classifications, Ledger!Classification

\* A refusal and an error name no request.
LEMMA RefusalNamesNothing ==
    ASSUME IInv, NEW t \in Submitters, sub[t].pc # "idle", NEW reply, NEW id,
           reply \notin {"OK", "EXISTING"}, Reply(t, reply, id)
    PROVE  (Classified(t) /\ AnswerNamesRequest(t))'
<1>1. sub[t] \in SubmitActive /\ sub \in [Submitters -> SubmitActive \cup {SubmitIdle}]
  BY SubmitActiveType DEF IInv, TypeOK, SubmitTypeOK
<1>2. sub'[t].pc = "done" /\ sub'[t].reply = reply
  BY <1>1 DEF Reply, SubmitActive
<1> QED
  BY <1>2 DEF Classified, AnswerNamesRequest

\* An existing request is named only after it was found by its key.
LEMMA ExistingNamed ==
    ASSUME IInv, NEW t \in Submitters, sub[t].pc # "idle", UNCHANGED reqs,
           NEW r \in WithKey(sub[t].in), Reply(t, "EXISTING", r)
    PROVE  (Classified(t) /\ AnswerNamesRequest(t))'
<1>1. sub[t] \in SubmitActive /\ sub \in [Submitters -> SubmitActive \cup {SubmitIdle}]
  BY SubmitActiveType DEF IInv, TypeOK, SubmitTypeOK
<1>2. sub'[t].pc = "done" /\ sub'[t].id = r /\ sub'[t].in = sub[t].in
  BY <1>1 DEF Reply, SubmitActive
<1> QED
  BY <1>2 DEF Classified, AnswerNamesRequest, WithKey

\* A step that goes on to a statement before the insert has nothing to say yet.
LEMMA NotYetAnswered ==
    ASSUME NEW t \in Submitters, sub'[t].pc \notin {"done", "insert", "commit"}
    PROVE  (Classified(t) /\ AnswerNamesRequest(t))'
BY DEF Classified, AnswerNamesRequest

\* Every step of Submit up to the insert keeps its own part of AnswerInv.
LEMMA SubmitAnswers ==
    ASSUME IInv, NEW t \in Submitters, Classified(t),
           \/ \E in \in SubmitInput : SubmitBegin(t, in)
           \/ SubmitLockGroup(t) \/ SubmitLockStudent(t) \/ SubmitWindow(t) \/ SubmitCount(t)
           \/ SubmitOccupancy(t) \/ SubmitInsert(t) \/ SubmitFail(t) \/ SubmitReturn(t)
    PROVE  (Classified(t) /\ AnswerNamesRequest(t))'
<1>0. sub \in [Submitters -> SubmitActive \cup {SubmitIdle}]
  BY DEF IInv, TypeOK, SubmitTypeOK
<1>1. ASSUME sub[t].pc # "idle", NEW reply, NEW id, reply \notin {"OK", "EXISTING"},
             Rollback(t, reply, id)
      PROVE  (Classified(t) /\ AnswerNamesRequest(t))'
  BY <1>1, RefusalNamesNothing DEF Rollback
<1>2. ASSUME NEW pc, pc \notin {"done", "insert", "commit"}, Advance(t, pc), sub[t].pc # "idle"
      PROVE  (Classified(t) /\ AnswerNamesRequest(t))'
  <2>1. sub'[t].pc = pc
    BY <1>0, <1>2, SubmitActiveType DEF Advance, SubmitActive, IInv
  <2> QED
    BY <1>2, <2>1, NotYetAnswered
<1>3. ASSUME NEW in \in SubmitInput, SubmitBegin(t, in)
      PROVE  (Classified(t) /\ AnswerNamesRequest(t))'
  <2>1. CASE WithKey(in) = {}
    <3>1. sub'[t].pc = "lockGroup"
      BY <1>0, <1>3, <2>1 DEF SubmitBegin
    <3> QED
      BY <3>1, NotYetAnswered
  <2>2. CASE WithKey(in) # {}
    <3>1. /\ sub'[t].pc = "done" /\ sub'[t].id \in WithKey(in) /\ sub'[t].in = in
          /\ UNCHANGED reqs
      BY <1>0, <1>3, <2>2 DEF SubmitBegin, tables
    <3> QED
      BY <3>1 DEF Classified, AnswerNamesRequest, WithKey
  <2> QED
    BY <2>1, <2>2
<1>4. CASE SubmitLockGroup(t)
  <2>1. CASE Rollback(t, "ErrGroupNotFound", 0)
    BY <1>1, <1>4, <2>1 DEF SubmitLockGroup
  <2>2. CASE ~Rollback(t, "ErrGroupNotFound", 0)
    <3>1. \E v : sub' = [sub EXCEPT ![t].pc = "lockStudent", ![t].capacity = v]
      BY <1>4, <2>2 DEF SubmitLockGroup
    <3>2. sub'[t].pc = "lockStudent"
      BY <1>0, <1>4, <3>1, SubmitActiveType DEF SubmitLockGroup, SubmitActive, IInv
    <3> QED
      BY <3>2, NotYetAnswered
  <2> QED
    BY <2>1, <2>2
<1>5. CASE SubmitLockStudent(t)
  <2>1. CASE Rollback(t, "ErrStudentNotFound", 0)
    BY <1>1, <1>5, <2>1 DEF SubmitLockStudent
  <2>2. CASE ~Rollback(t, "ErrStudentNotFound", 0)
    <3>1. \E v : sub' = [sub EXCEPT ![t].pc = "window", ![t].shift = v]
      BY <1>5, <2>2 DEF SubmitLockStudent
    <3>2. sub'[t].pc = "window"
      BY <1>0, <1>5, <3>1, SubmitActiveType DEF SubmitLockStudent, SubmitActive, IInv
    <3> QED
      BY <3>2, NotYetAnswered
  <2> QED
    BY <2>1, <2>2
<1>6. CASE SubmitWindow(t)
  BY <1>1, <1>2, <1>6 DEF SubmitWindow
<1>7. CASE SubmitCount(t)
  BY <1>1, <1>2, <1>7 DEF SubmitCount
<1>8. CASE SubmitOccupancy(t)
  <2>1. PICK shift, gs, occ :
            sub' = [sub EXCEPT ![t].pc = "insert",
                      ![t].priority = Classify(shift, gs, occ).priority,
                      ![t].status = Classify(shift, gs, occ).status]
    BY <1>8 DEF SubmitOccupancy
  <2> PICK c : c = Classify(shift, gs, occ)
    OBVIOUS
  <2>2. c \in Ledger!Classifications /\ c = Classification(c.priority, c.status)
    BY ClassifyCases DEF Ledger!Classifications, Ledger!Classification, Classification
  <2>3. /\ sub'[t].pc = "insert" /\ sub'[t].priority = c.priority
        /\ sub'[t].status = c.status
    BY <1>0, <1>8, <2>1, SubmitActiveType DEF SubmitOccupancy, SubmitActive, IInv
  <2> QED
    BY <2>2, <2>3 DEF Classified, AnswerNamesRequest
<1>9. CASE SubmitInsert(t)
  <2>0. sub[t].pc = "insert" /\ sub[t].pc # "idle" /\ UNCHANGED reqs /\ sub[t] \in SubmitActive
    BY <1>9, SubmitActiveType DEF SubmitInsert, IInv
  <2>1. ASSUME NEW reply, NEW id, reply \notin {"OK", "EXISTING"}, Reply(t, reply, id)
        PROVE  (Classified(t) /\ AnswerNamesRequest(t))'
    BY <2>0, <2>1, RefusalNamesNothing
  <2>2. ASSUME NEW r \in WithKey(sub[t].in), Reply(t, "EXISTING", r)
        PROVE  (Classified(t) /\ AnswerNamesRequest(t))'
    BY <2>0, <2>2, ExistingNamed
  <2>3. ASSUME sub' = [sub EXCEPT ![t].pc = "commit", ![t].id = seq + 1]
        PROVE  (Classified(t) /\ AnswerNamesRequest(t))'
    <3>1. /\ sub'[t].pc = "commit" /\ sub'[t].priority = sub[t].priority
          /\ sub'[t].status = sub[t].status
      BY <1>0, <2>0, <2>3 DEF SubmitActive
    <3> QED
      BY <2>0, <3>1 DEF Classified, AnswerNamesRequest
  <2> QED
    BY <1>9, <2>1, <2>2, <2>3 DEF SubmitInsert
<1>10. CASE SubmitFail(t)
  BY <1>1, <1>10 DEF SubmitFail, InTx
<1>11. CASE SubmitReturn(t)
  <2>1. sub'[t].pc = "idle"
    BY <1>0, <1>11 DEF SubmitReturn, SubmitIdle
  <2> QED
    BY <2>1, NotYetAnswered
<1> QED
  BY <1>3, <1>4, <1>5, <1>6, <1>7, <1>8, <1>9, <1>10, <1>11

\* The commit leaves a row with the key of the call, and names it.
LEMMA CommitAnswers ==
    ASSUME IInv, NEW t \in Submitters, SubmitCommit(t)
    PROVE  (Classified(t) /\ AnswerNamesRequest(t))'
<1>1. sub[t] \in SubmitActive /\ sub \in [Submitters -> SubmitActive \cup {SubmitIdle}]
  BY SubmitActiveType DEF IInv, TypeOK, SubmitTypeOK, SubmitCommit
<1>2. sub'[t].pc = "done" /\ sub'[t].id = sub[t].id /\ sub'[t].in = sub[t].in
  BY <1>1 DEF SubmitCommit, Reply, SubmitActive
<1>3. sub[t].id \in DOMAIN reqs' /\ reqs'[sub[t].id] = NewRow(t)
  BY CommitRows
<1> QED
  BY <1>2, <1>3 DEF Classified, AnswerNamesRequest, WithKey, NewRow

\* A call that takes no part in the step keeps its answer.
LEMMA OtherAnswers ==
    ASSUME IInv, [Next]_vars, NEW u \in Submitters, sub'[u] = sub[u],
           Classified(u), AnswerNamesRequest(u)
    PROVE  (Classified(u) /\ AnswerNamesRequest(u))'
BY RowsKept DEF Classified, AnswerNamesRequest, WithKey

\* AnswerInv is inductive relative to IInv.
LEMMA AnswerStep ==
    ASSUME IInv, AnswerInv, [Next]_vars
    PROVE  AnswerInv'
<1>1. UniqueIndexes'
  BY UniqueStep DEF AnswerInv
<1>2. ASSUME NEW u \in Submitters
      PROVE  (Classified(u) /\ AnswerNamesRequest(u))'
  <2>0. Classified(u) /\ AnswerNamesRequest(u)
    BY DEF AnswerInv
  <2>1. CASE sub'[u] = sub[u]
    BY <2>0, <2>1, OtherAnswers
  <2>2. CASE SubmitNext /\ sub'[u] # sub[u]
    <3>1. PICK t \in Submitters :
            \/ \E in \in SubmitInput : SubmitBegin(t, in)
            \/ SubmitLockGroup(t) \/ SubmitLockStudent(t) \/ SubmitWindow(t) \/ SubmitCount(t)
            \/ SubmitOccupancy(t) \/ SubmitInsert(t) \/ SubmitCommit(t) \/ SubmitFail(t)
            \/ SubmitReturn(t)
      BY <2>2 DEF SubmitNext
    <3>2. UNCHANGED <<rev, edits>>
      BY <2>2 DEF SubmitNext
    <3>3. t = u
      BY <2>2, <3>1, <3>2, SubmitQuiet, CommitUndisturbed DEF Quiet, Undisturbed
    <3> QED
      BY <2>0, <3>1, <3>3, SubmitAnswers, CommitAnswers
  <2>3. CASE ~SubmitNext
    BY <2>1, <2>3 DEF Next, CancelNext, Cancel, ReviewNext, AdminNext, vars
  <2> QED
    BY <2>1, <2>2, <2>3
<1> QED
  BY <1>1, <1>2 DEF AnswerInv

\* No request has been answered or inserted when the server starts.
LEMMA AnswerInit == Init => AnswerInv
BY DEF Init, StoreInit, SubmitInit, SubmitIdle, AnswerInv, UniqueIndexes, Classified,
       AnswerNamesRequest

\* In every reachable state the committed rows obey both unique indexes and every
\* successful answer of Submit names a request with the key of its call.
THEOREM AnswerInvariant == Spec => []AnswerInv
BY InductiveInvariant, AnswerInit, AnswerStep, PTL DEF Spec

\* Two successful answers to one idempotency key name the same request.
THEOREM SameKeySameRequestHolds == Spec => []SameKeySameRequest
<1>1. AnswerInv => SameKeySameRequest
  BY DEF AnswerInv, UniqueIndexes, AnswerNamesRequest, WithKey, SameKeySameRequest
<1> QED
  BY <1>1, AnswerInvariant, PTL

----
(* The refinement: the committed rows and the capacities of the groups are a ledger. *)

\* The capacities, as the ledger sees them.
Capacity == [g \in Groups |-> groups[g].capacity]

\* The rules and the queries of the ledger are those of the store.
LEMMA LedgerView ==
    /\ \A st : (Ledger!IsActive(st) <=> IsActive(st)) /\ (Ledger!IsTerminal(st) <=> IsTerminal(st))
    /\ \A s, sem : Ledger!Active(s, sem) = ActiveOf(s, sem)
    /\ \A g : Ledger!Accepted(g) = AcceptedIn(g) /\ Ledger!Direct(g) = PendingDirectIn(g)
    /\ Ledger!Statuses = Statuses
    /\ \A S : Ledger!Cardinality(S) = Cardinality(S)
<1>1. \A st : (Ledger!IsActive(st) <=> IsActive(st)) /\ (Ledger!IsTerminal(st) <=> IsTerminal(st))
  BY DEF Ledger!IsActive, IsActive, Ledger!IsTerminal, IsTerminal
<1>2. \A s, sem : Ledger!Active(s, sem) = ActiveOf(s, sem)
  BY <1>1 DEF Ledger!Active, ActiveOf
<1>3. \A g : Ledger!Accepted(g) = AcceptedIn(g) /\ Ledger!Direct(g) = PendingDirectIn(g)
  BY DEF Ledger!Accepted, AcceptedIn, Ledger!Direct, PendingDirectIn
<1>4. Ledger!Statuses = Statuses
  BY DEF Ledger!Statuses, Statuses
<1>5. \A S : Ledger!Cardinality(S) = Cardinality(S)
  BY DEF Ledger!Cardinality, Cardinality
<1> QED
  BY <1>1, <1>2, <1>3, <1>4, <1>5

\* The commit of Submit is a new entry of the ledger.
LEMMA CommitEnrolls ==
    ASSUME IInv, AnswerInv, NEW t \in Submitters, SubmitCommit(t)
    PROVE  Ledger!LedgerNext
<1> PICK id, in, row, c :
        /\ id = sub[t].id /\ in = sub[t].in /\ row = NewRow(t)
        /\ c = Classification(sub[t].priority, sub[t].status)
  OBVIOUS
<1>0. TypeOK /\ SubmitOK(t) /\ sub[t].pc = "commit" /\ sub[t] \in SubmitActive
  BY SubmitActiveType DEF IInv, SubmitCommit
<1>1. /\ id \in Ids /\ in \in SubmitInput /\ in.student \in Students
      /\ in.semester \in Semesters /\ in.group \in Groups /\ in.key \in Keys
  BY <1>0, StoreAssumption
  DEF SubmitActive, SubmitInput, SubmitOK, UncommittedRow, Ids, TypeOK, StoreTypeOK
<1>2. /\ row = [student |-> in.student, semester |-> in.semester, group |-> in.group,
                key |-> in.key, priority |-> c.priority, status |-> c.status]
      /\ c \in Ledger!Classifications /\ c.priority = sub[t].priority
  BY <1>0 DEF NewRow, Classification, AnswerInv, Classified
<1>3. /\ id \notin DOMAIN reqs
      /\ \A r \in DOMAIN reqs : reqs[r].group = row.group => r < id
  BY <1>0, <1>2 DEF SubmitOK, UncommittedRow
<1>4. Cardinality(Ledger!Active(row.student, row.semester)) < MaxElectivesPerSemester
  BY <1>0, <1>2, LedgerView DEF SubmitOK, CapReserved
<1>5. \A r \in DOMAIN reqs :
         reqs[r].student = row.student /\ reqs[r].semester = row.semester =>
            /\ reqs[r].key # row.key
            /\ reqs[r].group = row.group => ~Ledger!IsActive(reqs[r].status)
  BY <1>0, <1>2, LedgerView DEF SubmitOK, UncommittedRow, WithKey, ActiveInGroup, ActiveOf
<1>6. row.priority = "DIRECT_SAME_SHIFT" =>
         Cardinality(Ledger!Accepted(row.group)) + Cardinality(Ledger!Direct(row.group))
             < Capacity[row.group]
  BY <1>0, <1>1, <1>2, LedgerView DEF SubmitOK, SlotReserved, Capacity
<1>7. /\ reqs' = [r \in DOMAIN reqs \cup {id} |-> IF r = id THEN row ELSE reqs[r]]
      /\ Capacity' = Capacity
  BY DEF SubmitCommit, Put, Capacity
<1>8. Ledger!Enroll(id, row)
  BY <1>1, <1>2, <1>3, <1>4, <1>5, <1>6, <1>7, LedgerView DEF Ledger!Enroll, Capacity
<1> QED
  BY <1>1, <1>2, <1>8 DEF Ledger!LedgerNext

\* A cancellation settles an open request.
LEMMA CancelSettles ==
    ASSUME IInv, NEW s \in Students, NEW r \in Ids, Cancel(s, r)
    PROVE  Ledger!LedgerNext
<1>1. Ledger!Settle(r, "CANCELLED_BY_STUDENT")
  BY LedgerView DEF Ledger!Settle, Cancel
<1> QED
  BY <1>1, LedgerView DEF Ledger!LedgerNext, Cancel, Statuses

\* A decision accepts its request where it has counted a free seat, or settles it.
LEMMA DecisionEntered ==
    ASSUME IInv, AnswerInv, NEW a \in Reviewers, DecideCommit(a), ~DecideRollback(a)
    PROVE  Ledger!LedgerNext
<1>0. TypeOK /\ DecideOK(a)
  BY DEF IInv
<1> DEFINE r  == rev[a].in.request
           g  == CapacityGroup(a)
           st == DecisionOutcome(a)
<1>1. /\ rev[a].pc = "apply" /\ st \notin DecisionErrors /\ ~TargetTaken(a)
      /\ r \in DOMAIN reqs /\ g \in Groups /\ st \in Statuses
      /\ reqs' = [reqs EXCEPT ![r] = [reqs[r] EXCEPT !.status = st, !.group = g]]
      /\ UNCHANGED <<seq, groups, students, windows>>
  BY <1>0, DecidedRow
<1>2. reqs[r] \in Row /\ reqs \in [DOMAIN reqs -> Row] /\ Capacity' = Capacity
  BY <1>0, <1>1 DEF TypeOK, StoreTypeOK, Capacity
<1>3. rev[a].in.type # "CREATE_GROUP_ACCEPTANCE" => g = reqs[r].group
  BY <1>0, <1>1 DEF CapacityGroup, DecideOK
<1>4. \/ st = "CANCELLED_BY_ADMIN" /\ rev[a].in.type = "ADMIN_CANCEL"
         /\ IsCancellableByAdmin(reqs[r].status)
      \/ st \in {"REJECTED", "PENDING_REVIEW"}
         /\ rev[a].in.type \in {"REJECT", "MOVE_TO_REVIEW"} /\ ~IsTerminal(reqs[r].status)
      \/ st = "ACCEPTED" /\ rev[a].in.type \in AcceptanceTypes /\ ~IsTerminal(reqs[r].status)
         /\ rev[a].groupAccepted < rev[a].capacity
  BY <1>0, <1>1, DecisionCases
<1>5. rev[a].in.type = "CREATE_GROUP_ACCEPTANCE" => g = rev[a].in.target
  BY DEF CapacityGroup
<1>6. /\ rev[a].groupAccepted = Cardinality(AcceptedIn(g))
      /\ rev[a].capacity = groups[g].capacity
  BY <1>0, <1>1 DEF DecideOK
<1>7. rev[a].in.type = "CREATE_GROUP_ACCEPTANCE" =>
         ActiveInGroup(reqs[r].student, reqs[r].semester, g) \ {r} = {}
  BY <1>1, <1>5 DEF TargetTaken
<1> HIDE DEF st, g, r
<1>8. CASE st = "ACCEPTED"
  <2>1. ~IsTerminal(reqs[r].status) /\ rev[a].groupAccepted < rev[a].capacity
    BY <1>4, <1>8
  <2>2. Cardinality(Ledger!Accepted(g)) < Capacity[g]
    BY <1>1, <1>6, <2>1, LedgerView DEF Capacity
  <2>3. IsActive(reqs[r].status)
    BY <1>2, <2>1 DEF Row, Statuses, IsActive, IsTerminal
  <2>4. ASSUME NEW q \in Ledger!Active(reqs[r].student, reqs[r].semester) \ {r}
        PROVE  reqs[q].group # g
    <3>1. /\ q \in DOMAIN reqs /\ q # r /\ reqs[q].student = reqs[r].student
          /\ reqs[q].semester = reqs[r].semester /\ IsActive(reqs[q].status)
          /\ q \in ActiveOf(reqs[r].student, reqs[r].semester)
      BY <2>4, LedgerView DEF ActiveOf
    <3>2. CASE rev[a].in.type # "CREATE_GROUP_ACCEPTANCE"
      BY <1>1, <1>3, <2>3, <3>1, <3>2 DEF AnswerInv, UniqueIndexes
    <3>3. CASE rev[a].in.type = "CREATE_GROUP_ACCEPTANCE"
      BY <1>7, <3>1, <3>3 DEF ActiveInGroup
    <3> QED
      BY <3>2, <3>3
  <2>5. reqs' = [reqs EXCEPT ![r].status = "ACCEPTED", ![r].group = g]
    BY <1>1, <1>2, <1>8
  <2>6. Ledger!Accept(r, g)
    BY <1>1, <1>2, <2>1, <2>2, <2>4, <2>5, LedgerView DEF Ledger!Accept, Capacity
  <2> QED
    BY <1>1, <2>6 DEF Ledger!LedgerNext
<1>9. CASE st # "ACCEPTED"
  <2>1. g = reqs[r].group
    BY <1>3, <1>4, <1>9
  <2>2. reqs' = [reqs EXCEPT ![r].status = st]
    <3>1. [reqs[r] EXCEPT !.status = st, !.group = g] = [reqs[r] EXCEPT !.status = st]
      BY <1>2, <2>1 DEF Row
    <3> QED
      BY <1>1, <3>1
  <2>3. \/ ~IsTerminal(reqs[r].status)
           /\ st \in {"REJECTED", "CANCELLED_BY_STUDENT", "CANCELLED_BY_ADMIN", "PENDING_REVIEW"}
        \/ reqs[r].status = "ACCEPTED" /\ st = "CANCELLED_BY_ADMIN"
    BY <1>4, <1>9 DEF IsTerminal, IsCancellableByAdmin
  <2>4. Ledger!Settle(r, st)
    BY <1>2, <2>2, <2>3, LedgerView DEF Ledger!Settle, Capacity
  <2> QED
    BY <1>1, <2>4, LedgerView DEF Ledger!LedgerNext
<1> QED
  BY <1>8, <1>9

\* A step that writes no request changes at most the capacity of one group.
LEMMA ReadsInvisible ==
    ASSUME IInv, [Next]_vars, reqs' = reqs
    PROVE  Ledger!LedgerNext \/ Capacity' = Capacity
<1>0. groups \in [Groups -> [capacity : Capacities, active : BOOLEAN]]
  BY DEF IInv, TypeOK, StoreTypeOK
<1>1. CASE SubmitNext
  <2>1. ASSUME NEW t \in Submitters, NEW in \in SubmitInput, SubmitBegin(t, in)
        PROVE  UNCHANGED groups
    BY <2>1 DEF SubmitBegin, tables
  <2>2. ASSUME NEW t \in Submitters, SubmitLockGroup(t) \/ SubmitLockStudent(t)
        PROVE  UNCHANGED groups
    BY <2>2 DEF SubmitLockGroup, SubmitLockStudent, Rollback, tables
  <2>3. ASSUME NEW t \in Submitters, SubmitWindow(t) \/ SubmitCount(t) \/ SubmitOccupancy(t)
        PROVE  UNCHANGED groups
    BY <2>3 DEF SubmitWindow, SubmitCount, SubmitOccupancy, Rollback, Advance, tables
  <2>4. ASSUME NEW t \in Submitters,
               SubmitInsert(t) \/ SubmitCommit(t) \/ SubmitFail(t) \/ SubmitReturn(t)
        PROVE  UNCHANGED groups
    BY <2>4 DEF SubmitInsert, SubmitCommit, SubmitFail, SubmitReturn, Rollback, tables
  <2>5. UNCHANGED groups
    BY <1>1, <2>1, <2>2, <2>3, <2>4 DEF SubmitNext
  <2> QED
    BY <2>5 DEF Capacity
<1>2. CASE CancelNext
  BY <1>2 DEF CancelNext, Cancel, Capacity
<1>3. CASE ReviewNext
  BY <1>3 DEF ReviewNext, DecideLockRequest, DecideLockGroup, DecideCount, DecideCommit,
              DecideFail, DecideRollback, tables, Capacity
<1>4. ASSUME NEW g \in Groups, NEW c \in Capacities, AdjustCapacity(g, c)
      PROVE  Ledger!LedgerNext
  <2>1. groups' = [groups EXCEPT ![g].capacity = c]
    BY <1>4 DEF AdjustCapacity
  <2>2. Capacity' = [Capacity EXCEPT ![g] = c]
    BY <1>0, <2>1 DEF Capacity
  <2>3. Ledger!Resize(g, c)
    BY <2>2 DEF Ledger!Resize, Capacity
  <2> QED
    BY <2>3 DEF Ledger!LedgerNext
<1>5. ASSUME NEW g \in Groups, NEW active \in BOOLEAN, UpdateGroup(g, active)
      PROVE  Capacity' = Capacity
  <2>1. groups' = [groups EXCEPT ![g].active = active]
    BY <1>5 DEF UpdateGroup
  <2> QED
    BY <1>0, <2>1 DEF Capacity
<1>6. CASE AdminNext
  BY <1>4, <1>5, <1>6 DEF AdminNext, UpdateStudent, ToggleWindow, Capacity
<1>7. CASE UNCHANGED vars
  BY <1>7 DEF vars, tables, Capacity
<1> QED
  BY <1>1, <1>2, <1>3, <1>6, <1>7 DEF Next

\* Every step of the transactions is a step of the ledger or leaves it alone.
LEMMA LedgerStep ==
    ASSUME IInv, AnswerInv, [Next]_vars
    PROVE  [Ledger!LedgerNext]_(Ledger!ledger)
<1>1. CASE reqs' = reqs
  BY <1>1, ReadsInvisible DEF Ledger!ledger, Capacity
<1> QED
  BY <1>1, CommitEnrolls, CancelSettles, DecisionEntered, WritingSteps

\* The transactions implement the atomic ledger: every commit is one legal entry.
THEOREM LedgerImplemented == Spec => ImplementsLedger
<1>1. Init => Ledger!LedgerInit
  BY DEF Init, StoreInit, Ledger!LedgerInit
<1> QED
  BY <1>1, LedgerStep, InductiveInvariant, AnswerInvariant, PTL
  DEF Spec, ImplementsLedger, Ledger!LedgerSpec

====
