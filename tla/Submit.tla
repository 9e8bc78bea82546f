---- MODULE Submit ----
(***************************************************************************)
(* SubmitRepo.Submit, the capacity transaction                             *)
(* (internal/enrollment/adapter/postgres/submit.go), one action per        *)
(* statement it sends: the idempotency fast path outside the transaction,  *)
(* the group and student row locks, the window check, the two counts, the  *)
(* insert and the commit.  SubmitRepo.Cancel is here too.                  *)
(***************************************************************************)
EXTENDS EnrollmentStore

VARIABLE sub   \* the state of each Submit call

SubmitInput == [student : Students, semester : Semesters, group : Groups, key : Keys]

SubmitPcs == {"idle", "lockGroup", "lockStudent", "window", "count", "occupancy",
              "insert", "commit", "done"}

\* Every error of Submit before which nothing was written.
SubmitRefusals == {"ErrGroupNotFound", "ErrStudentNotFound", "ErrWindowClosed",
                   "ErrMaxElectivesReached", "ErrDuplicateActiveRequest"}

\* "FAILED" is an infrastructure error: the caller cannot know whether the
\* transaction committed.
SubmitReplies == SubmitRefusals \cup {"none", "OK", "EXISTING", "FAILED"}

\* The locals of an idle call; the input fields are arbitrary until it starts.
SubmitIdle == [pc |-> "idle", reply |-> "none", id |-> 0]

\* The statuses Classify gives a new request; "SUBMITTED" stands for "not yet".
EntryStatuses == {"SUBMITTED", "PENDING_REVIEW", "WAITLIST_SAME_SHIFT", "WAITLIST_OPPOSITE_SHIFT"}

SubmitActive == [pc : SubmitPcs \ {"idle"}, reply : SubmitReplies, id : 0 .. MaxArrival,
                 in : SubmitInput, capacity : Capacities \cup {0}, shift : Shifts,
                 priority : Priorities, status : EntryStatuses]

SubmitTypeOK == sub \in [Submitters -> SubmitActive \cup {SubmitIdle}]

SubmitInit == sub = [t \in Submitters |-> SubmitIdle]

\* Submit has a transaction open.
InTx(t) == sub[t].pc \notin {"idle", "done"}

\* Return to the caller: COMMIT or ROLLBACK has run.
Reply(t, reply, id) ==
    sub' = [sub EXCEPT ![t].pc = "done", ![t].reply = reply, ![t].id = id]

\* Roll back and return an error (or the existing request).
Rollback(t, reply, id) ==
    /\ Reply(t, reply, id)
    /\ ReleaseLocks(t)
    /\ UNCHANGED tables

\* Proceed to the next statement, holding the same locks.
Advance(t, pc) ==
    /\ sub' = [sub EXCEPT ![t].pc = pc]
    /\ UNCHANGED <<tables, locks>>

----
\* The fast path findByIdempotencyKey: an existing request with the key is
\* returned without opening a transaction.
SubmitBegin(t, in) ==
    LET call(pc, reply, id) ==
            [pc |-> pc, reply |-> reply, id |-> id, in |-> in, capacity |-> 0,
             shift |-> "DAY", priority |-> "WAITLIST_SAME_SHIFT", status |-> "SUBMITTED"]
    IN /\ sub[t].pc = "idle"
       /\ \/ \E r \in WithKey(in) : sub' = [sub EXCEPT ![t] = call("done", "EXISTING", r)]
          \/ /\ WithKey(in) = {}
             /\ sub' = [sub EXCEPT ![t] = call("lockGroup", "none", 0)]
       /\ UNCHANGED <<tables, locks>>

\* Mutant: the group is read without FOR UPDATE.
SubmitLockGroup_PlainSelect(t) ==
    LET g == sub[t].in.group
    IN /\ sub[t].pc = "lockGroup"
       /\ \/ /\ ~groups[g].active
             /\ Rollback(t, "ErrGroupNotFound", 0)
          \/ /\ groups[g].active
             /\ sub' = [sub EXCEPT ![t].pc = "lockStudent", ![t].capacity = groups[g].capacity]
             /\ UNCHANGED <<tables, locks>>

\* SELECT ... WHERE id AND status = 'ACTIVE' FOR UPDATE: an inactive group is no
\* row, an active one is waited for and its capacity read under the lock.
SubmitLockGroup(t) ==
    LET g == sub[t].in.group
    IN /\ sub[t].pc = "lockGroup"
       /\ \/ /\ ~groups[g].active
             /\ Rollback(t, "ErrGroupNotFound", 0)
          \/ /\ groups[g].active /\ glock[g] = Free
             /\ glock' = [glock EXCEPT ![g] = t]
             /\ sub' = [sub EXCEPT ![t].pc = "lockStudent", ![t].capacity = groups[g].capacity]
             /\ UNCHANGED <<tables, slock, rlock>>

\* Mutant: the student row is read without FOR UPDATE.
SubmitLockStudent_PlainSelect(t) ==
    LET s == sub[t].in.student
    IN /\ sub[t].pc = "lockStudent"
       /\ \/ /\ ~students[s].active
             /\ Rollback(t, "ErrStudentNotFound", 0)
          \/ /\ students[s].active
             /\ sub' = [sub EXCEPT ![t].pc = "window", ![t].shift = students[s].shift]
             /\ UNCHANGED <<tables, locks>>

\* The student row is locked the same way; the group lock is kept meanwhile.
SubmitLockStudent(t) ==
    LET s == sub[t].in.student
    IN /\ sub[t].pc = "lockStudent"
       /\ \/ /\ ~students[s].active
             /\ Rollback(t, "ErrStudentNotFound", 0)
          \/ /\ students[s].active /\ slock[s] = Free
             /\ slock' = [slock EXCEPT ![s] = t]
             /\ sub' = [sub EXCEPT ![t].pc = "window", ![t].shift = students[s].shift]
             /\ UNCHANGED <<tables, glock, rlock>>

\* Is a window of the semester open for the shift read under the student lock?  The dates
\* are compared with now(), the start of the transaction; a window that ends between that
\* and this statement is closed here and still open there, which only decides whether the
\* call is refused.
SubmitWindow(t) ==
    /\ sub[t].pc = "window"
    /\ \/ /\ <<sub[t].in.semester, sub[t].shift>> \in windows
          /\ Advance(t, "count")
       \/ /\ <<sub[t].in.semester, sub[t].shift>> \notin windows
          /\ Rollback(t, "ErrWindowClosed", 0)

\* Mutant: the early return forgets the deferred rollback and keeps the locks.
SubmitCount_LocksLeaked(t) ==
    LET n == Cardinality(ActiveOf(sub[t].in.student, sub[t].in.semester))
    IN /\ sub[t].pc = "count"
       /\ \/ /\ ValidateSubmissionAllowed(n)
             /\ Advance(t, "occupancy")
          \/ /\ ~ValidateSubmissionAllowed(n)
             /\ Reply(t, "ErrMaxElectivesReached", 0)
             /\ UNCHANGED <<tables, locks>>

\* The student's active requests of the semester against the cap.
SubmitCount(t) ==
    LET n == Cardinality(ActiveOf(sub[t].in.student, sub[t].in.semester))
    IN /\ sub[t].pc = "count"
       /\ \/ /\ ValidateSubmissionAllowed(n)
             /\ Advance(t, "occupancy")
          \/ /\ ~ValidateSubmissionAllowed(n)
             /\ Rollback(t, "ErrMaxElectivesReached", 0)

\* The seat occupancy of the group, and the classification made from it and
\* from the capacity read with the lock.
SubmitOccupancy(t) ==
    LET g == sub[t].in.group
        c == Classify(sub[t].shift, GroupShift[g],
                      [capacity |-> sub[t].capacity,
                       accepted |-> Cardinality(AcceptedIn(g)),
                       pendingDirect |-> Cardinality(PendingDirectIn(g))])
    IN /\ sub[t].pc = "occupancy"
       /\ sub' = [sub EXCEPT ![t].pc = "insert", ![t].priority = c.priority,
                             ![t].status = c.status]
       /\ UNCHANGED <<tables, locks>>

\* The row Submit inserts.
NewRow(t) == [student |-> sub[t].in.student, semester |-> sub[t].in.semester,
              group |-> sub[t].in.group, key |-> sub[t].in.key,
              priority |-> sub[t].priority, status |-> sub[t].status]

\* An uncommitted row of another transaction has an entry in a unique index
\* that this student, semester and key or group would need: the statement waits.
IndexEntryPending(t, s, sem, k, g) ==
    \E u \in Submitters \ {t} :
        /\ sub[u].pc = "commit"
        /\ sub[u].in.student = s /\ sub[u].in.semester = sem
        /\ sub[u].in.key = k \/ sub[u].in.group = g

\* Mutant: the migration created no uq_request_idempotency index.
SubmitInsert_NoIdempotencyIndex(t) ==
    LET in == sub[t].in
    IN /\ sub[t].pc = "insert"
       /\ ~IndexEntryPending(t, in.student, in.semester, in.key, in.group)
       /\ seq < MaxArrival
       /\ seq' = seq + 1
       /\ sub' = [sub EXCEPT ![t].pc = "commit", ![t].id = seq + 1]
       /\ UNCHANGED <<reqs, groups, students, windows, audit, outbox, locks>>

\* INSERT ... RETURNING id, arrival_sequence.  nextval runs first and is never
\* undone; then the unique indexes are checked in the order they were created.
SubmitInsert(t) ==
    LET in   == sub[t].in
        mine == ActiveInGroup(in.student, in.semester, in.group)
    IN /\ sub[t].pc = "insert"
       /\ ~IndexEntryPending(t, in.student, in.semester, in.key, in.group)
       /\ seq' = IF seq < MaxArrival THEN seq + 1 ELSE seq
       /\ \/ /\ seq = MaxArrival                    \* nextval: sequence exhausted
             /\ Reply(t, "FAILED", 0) /\ ReleaseLocks(t)
          \/ /\ seq < MaxArrival
             /\ \E r \in WithKey(in) : Reply(t, "EXISTING", r)
             /\ ReleaseLocks(t)
          \/ /\ seq < MaxArrival /\ WithKey(in) = {} /\ mine # {}
             /\ Reply(t, "ErrDuplicateActiveRequest", 0) /\ ReleaseLocks(t)
          \/ /\ seq < MaxArrival /\ WithKey(in) = {} /\ mine = {}
             /\ sub' = [sub EXCEPT ![t].pc = "commit", ![t].id = seq + 1]
             /\ UNCHANGED locks
       /\ UNCHANGED <<reqs, groups, students, windows, audit, outbox>>

\* Audit event, notification and COMMIT.  The row becomes visible and the locks
\* are given back at once; the answer of the server may still be lost.
SubmitCommit(t) ==
    /\ sub[t].pc = "commit"
    /\ reqs' = Put(reqs, sub[t].id, NewRow(t))
    /\ Record(sub[t].id, NoStatus, sub[t].status, "REQUEST_SUBMITTED")
    /\ \E reply \in {"OK", "FAILED"} : Reply(t, reply, sub[t].id)
    /\ ReleaseLocks(t)
    /\ UNCHANGED <<seq, groups, students, windows>>

\* A cancelled context, a lost connection or a crash of the server before the
\* commit: the deferred rollback, or PostgreSQL itself, undoes the transaction.
SubmitFail(t) ==
    /\ InTx(t)
    /\ Rollback(t, "FAILED", 0)

\* The handler has written the response; the goroutine is free again.
SubmitReturn(t) ==
    /\ sub[t].pc = "done"
    /\ sub' = [sub EXCEPT ![t] = SubmitIdle]
    /\ UNCHANGED <<tables, locks>>

\* The statements of a running Submit, without failures and new calls.
SubmitStep(t) ==
    \/ SubmitLockGroup(t) \/ SubmitLockStudent(t) \/ SubmitWindow(t) \/ SubmitCount(t)
    \/ SubmitOccupancy(t) \/ SubmitInsert(t) \/ SubmitCommit(t) \/ SubmitReturn(t)

----
\* Mutant: Cancel trusts an earlier read of the row and takes no lock.
Cancel_NoRowLock(s, r) ==
    /\ r \in DOMAIN reqs
    /\ reqs[r].student = s
    /\ ~IsTerminal(reqs[r].status)
    /\ reqs' = [reqs EXCEPT ![r].status = "CANCELLED_BY_STUDENT"]
    /\ Record(r, reqs[r].status, "CANCELLED_BY_STUDENT", "REQUEST_CANCELLED_BY_STUDENT")
    /\ UNCHANGED <<seq, groups, students, windows, locks, sub>>

\* Mutant: a status the CHECK constraint of the table does not know.
Cancel_StatusMisspelt(s, r) ==
    /\ r \in DOMAIN reqs /\ rlock[r] = Free
    /\ reqs[r].student = s
    /\ ~IsTerminal(reqs[r].status)
    /\ reqs' = [reqs EXCEPT ![r].status = "CANCELED_BY_STUDENT"]
    /\ Record(r, reqs[r].status, "CANCELED_BY_STUDENT", "REQUEST_CANCELLED_BY_STUDENT")
    /\ UNCHANGED <<seq, groups, students, windows, locks, sub>>

\* SubmitRepo.Cancel: everything it reads it reads under the lock of the request
\* row, and it needs no other lock, so the transaction is one step that waits for
\* the row.  A missing row, another student's row and a terminal one change nothing.
Cancel(s, r) ==
    /\ r \in DOMAIN reqs /\ rlock[r] = Free
    /\ reqs[r].student = s
    /\ ~IsTerminal(reqs[r].status)
    /\ reqs' = [reqs EXCEPT ![r].status = "CANCELLED_BY_STUDENT"]
    /\ Record(r, reqs[r].status, "CANCELLED_BY_STUDENT", "REQUEST_CANCELLED_BY_STUDENT")
    /\ UNCHANGED <<seq, groups, students, windows, locks, sub>>

====
