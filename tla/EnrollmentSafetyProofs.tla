---- MODULE EnrollmentSafetyProofs ----
(***************************************************************************)
(* What no step of Enrollment may do, proved from the inductive invariant: *)
(* overbook a group, hand out a direct slot that is taken, insert into the *)
(* queue of a group, reopen a settled request or misreport a change.       *)
(***************************************************************************)
EXTENDS EnrollmentProofs

\* Only three steps write enrollment_requests.
LEMMA WritingSteps ==
    ASSUME IInv, [Next]_vars
    PROVE  \/ reqs' = reqs
           \/ \E t \in Submitters : SubmitCommit(t)
           \/ \E s \in Students, r \in Ids : Cancel(s, r)
           \/ \E a \in Reviewers : DecideCommit(a) /\ ~DecideRollback(a)
<1>1. CASE SubmitNext
  BY <1>1, SubmitQuiet DEF SubmitNext, Quiet
<1>2. CASE CancelNext
  BY <1>2 DEF CancelNext
<1>3. CASE ReviewNext
  BY <1>3, DecideQuiet, DecideRollbackQuiet DEF ReviewNext, Quiet
<1>4. CASE AdminNext
  BY <1>4, AdminQuiet DEF Quiet
<1>5. CASE UNCHANGED vars
  BY <1>5 DEF vars, tables
<1> QED
  BY <1>1, <1>2, <1>3, <1>4, <1>5 DEF Next

\* A committing Submit never brings an accepted seat with it.
LEMMA CommitAcceptsNothing ==
    ASSUME IInv, NEW t \in Submitters, SubmitCommit(t), NEW g
    PROVE  AcceptedIn(g)' = AcceptedIn(g)
<1> PICK id : id = sub[t].id
  OBVIOUS
<1>1. /\ id \notin DOMAIN reqs /\ DOMAIN reqs' = DOMAIN reqs \cup {id}
      /\ \A r \in DOMAIN reqs : reqs'[r] = reqs[r]
      /\ reqs'[id] = NewRow(t)
  BY CommitRows
<1>2. sub[t] \in SubmitActive
  BY SubmitActiveType DEF SubmitCommit, IInv
<1>3. reqs'[id].status # "ACCEPTED"
  BY <1>1, <1>2 DEF NewRow, SubmitActive, EntryStatuses
<1> QED
  BY <1>1, <1>3 DEF AcceptedIn

\* What a cancellation changes.
LEMMA CancelledRow ==
    ASSUME IInv, NEW s \in Students, NEW r \in Ids, Cancel(s, r)
    PROVE  /\ r \in DOMAIN reqs /\ DOMAIN reqs' = DOMAIN reqs
           /\ \A q \in DOMAIN reqs : q # r => reqs'[q] = reqs[q]
           /\ reqs'[r].status = "CANCELLED_BY_STUDENT" /\ ~IsTerminal(reqs[r].status)
<1>1. r \in DOMAIN reqs /\ reqs[r] \in Row /\ reqs \in [DOMAIN reqs -> Row]
  BY DEF Cancel, IInv, TypeOK, StoreTypeOK
<1>2. reqs' = [reqs EXCEPT ![r] = [reqs[r] EXCEPT !.status = "CANCELLED_BY_STUDENT"]]
  BY DEF Cancel
<1> QED
  BY <1>1, <1>2 DEF Row, Cancel

\* A request that becomes visible is the one a Submit just committed.
LEMMA NewRequest ==
    ASSUME IInv, [Next]_vars, NEW id \in DOMAIN reqs' \ DOMAIN reqs
    PROVE  \E t \in Submitters :
              /\ SubmitCommit(t) /\ id = sub[t].id
              /\ DOMAIN reqs' = DOMAIN reqs \cup {id}
              /\ \A r \in DOMAIN reqs : reqs'[r] = reqs[r]
              /\ reqs'[id] = NewRow(t) /\ reqs'[id].group = sub[t].in.group
<1>1. TypeOK /\ \A a \in Reviewers : DecideOK(a)
  BY DEF IInv
<1>2. PICK t \in Submitters : SubmitCommit(t)
  BY <1>1, WritingSteps, CancelledRow, DecidedChange
<1>3. /\ sub[t].id \notin DOMAIN reqs /\ DOMAIN reqs' = DOMAIN reqs \cup {sub[t].id}
      /\ \A r \in DOMAIN reqs : reqs'[r] = reqs[r]
      /\ reqs'[sub[t].id] = NewRow(t) /\ NewRow(t).group = sub[t].in.group
  BY <1>2, CommitRows
<1>4. id = sub[t].id
  BY <1>3
<1> QED
  BY <1>2, <1>3, <1>4

\* A decision accepts at most its own request, into the group it has counted.
LEMMA DecisionSeats ==
    ASSUME IInv, NEW a \in Reviewers, DecideCommit(a), ~DecideRollback(a), NEW g \in Groups
    PROVE  \/ AcceptedIn(g)' \subseteq AcceptedIn(g)
           \/ Cardinality(AcceptedIn(g)') <= groups[g].capacity
<1>0. TypeOK /\ DecideOK(a)
  BY DEF IInv
<1>1. PICK r, ga, st : r = rev[a].in.request /\ ga = CapacityGroup(a) /\ st = DecisionOutcome(a)
  OBVIOUS
<1>2. /\ r \in DOMAIN reqs /\ DOMAIN reqs' = DOMAIN reqs
      /\ \A q \in DOMAIN reqs : q # r => reqs'[q] = reqs[q]
      /\ reqs'[r].status = st /\ reqs'[r].group = ga /\ ga \in Groups
  BY <1>0, <1>1, DecidedChange
<1>3. CASE st # "ACCEPTED" \/ g # ga
  BY <1>2, <1>3 DEF AcceptedIn
<1>4. CASE st = "ACCEPTED" /\ g = ga
  <2>1. rev[a].pc = "apply" /\ st \notin DecisionErrors
    BY <1>0, <1>1, DecidedRow
  <2>2. rev[a].groupAccepted < rev[a].capacity
    BY <1>0, <1>1, <1>4, <2>1, DecisionCases
  <2>3. rev[a].groupAccepted = Cardinality(AcceptedIn(g)) /\ rev[a].capacity = groups[g].capacity
    BY <1>0, <1>1, <1>4, <2>1 DEF DecideOK
  <2>4. AcceptedIn(g)' \subseteq AcceptedIn(g) \cup {r}
    BY <1>2 DEF AcceptedIn
  <2>5. IsFiniteSet(AcceptedIn(g)) /\ Cardinality(AcceptedIn(g)) \in Nat
    BY <1>0, CountsType
  <2>6. /\ IsFiniteSet(AcceptedIn(g) \cup {r})
        /\ Cardinality(AcceptedIn(g) \cup {r}) =
              IF r \in AcceptedIn(g) THEN Cardinality(AcceptedIn(g))
              ELSE Cardinality(AcceptedIn(g)) + 1
    BY <2>5, FS_AddElement
  <2>7. /\ Cardinality(AcceptedIn(g)') <= Cardinality(AcceptedIn(g) \cup {r})
        /\ Cardinality(AcceptedIn(g)') \in Nat
    BY <2>4, <2>6, FS_Subset, FS_CardinalityType
  <2>8. groups[g].capacity \in Nat
    BY <1>0, StoreAssumption DEF TypeOK, StoreTypeOK
  <2> QED
    BY <2>2, <2>3, <2>5, <2>6, <2>7, <2>8
<1> QED
  BY <1>3, <1>4

\* No step accepts a request into a group that has no seat left.
THEOREM NoOverbookingHolds == Spec => NoOverbooking
<1>1. ASSUME IInv, [Next]_vars
      PROVE  \A g \in Groups :
                AcceptedIn(g)' \subseteq AcceptedIn(g)
                \/ Cardinality(AcceptedIn(g)') <= groups[g].capacity
  <2>1. CASE reqs' = reqs
    BY <2>1 DEF AcceptedIn
  <2>2. ASSUME NEW t \in Submitters, SubmitCommit(t)
        PROVE  \A g \in Groups : AcceptedIn(g)' \subseteq AcceptedIn(g)
    BY <1>1, <2>2, CommitAcceptsNothing
  <2>3. ASSUME NEW s \in Students, NEW r \in Ids, Cancel(s, r)
        PROVE  \A g \in Groups : AcceptedIn(g)' \subseteq AcceptedIn(g)
    <3>1. /\ r \in DOMAIN reqs /\ DOMAIN reqs' = DOMAIN reqs
          /\ \A q \in DOMAIN reqs : q # r => reqs'[q] = reqs[q]
          /\ reqs'[r].status = "CANCELLED_BY_STUDENT"
      BY <1>1, <2>3, CancelledRow
    <3> QED
      BY <3>1 DEF AcceptedIn
  <2> QED
    BY <1>1, <2>1, <2>2, <2>3, WritingSteps, DecisionSeats
<1> QED
  BY InductiveInvariant, <1>1, PTL DEF Spec, NoOverbooking

\* No submission takes a direct slot the group does not have.
THEOREM NoDirectOverbookingHolds == Spec => NoDirectOverbooking
<1>1. ASSUME IInv, [Next]_vars
      PROVE  \A id \in DOMAIN reqs' \ DOMAIN reqs, g \in Groups :
                reqs'[id].group = g /\ reqs'[id].priority = "DIRECT_SAME_SHIFT" =>
                    Cardinality(AcceptedIn(g)') + Cardinality(PendingDirectIn(g)')
                        <= groups[g].capacity
  <2> SUFFICES ASSUME NEW id \in DOMAIN reqs' \ DOMAIN reqs, NEW g \in Groups,
                      reqs'[id].group = g, reqs'[id].priority = "DIRECT_SAME_SHIFT"
               PROVE  Cardinality(AcceptedIn(g)') + Cardinality(PendingDirectIn(g)')
                          <= groups[g].capacity
    OBVIOUS
  <2>0. TypeOK
    BY <1>1 DEF IInv
  <2>1. PICK t \in Submitters :
              /\ SubmitCommit(t) /\ id = sub[t].id
              /\ DOMAIN reqs' = DOMAIN reqs \cup {id}
              /\ \A r \in DOMAIN reqs : reqs'[r] = reqs[r]
              /\ reqs'[id] = NewRow(t) /\ reqs'[id].group = sub[t].in.group
    BY <1>1, NewRequest
  <2>2. g = sub[t].in.group
    BY <2>1
  <2>3. sub[t].priority = "DIRECT_SAME_SHIFT"
    BY <2>1 DEF NewRow
  <2>4. Cardinality(AcceptedIn(g)) + Cardinality(PendingDirectIn(g)) < groups[g].capacity
    BY <1>1, <2>1, <2>2, <2>3 DEF IInv, SubmitOK, SlotReserved, SubmitCommit
  <2>5. AcceptedIn(g)' = AcceptedIn(g)
    BY <1>1, <2>1, CommitAcceptsNothing
  <2>6. PendingDirectIn(g)' \subseteq PendingDirectIn(g) \cup {id}
    BY <2>1 DEF PendingDirectIn
  <2>7. /\ IsFiniteSet(PendingDirectIn(g)) /\ Cardinality(PendingDirectIn(g)) \in Nat
        /\ Cardinality(AcceptedIn(g)) \in Nat
    BY <2>0, CountsType
  <2>8. /\ IsFiniteSet(PendingDirectIn(g) \cup {id})
        /\ Cardinality(PendingDirectIn(g) \cup {id}) =
              IF id \in PendingDirectIn(g) THEN Cardinality(PendingDirectIn(g))
              ELSE Cardinality(PendingDirectIn(g)) + 1
    BY <2>7, FS_AddElement
  <2>9. /\ Cardinality(PendingDirectIn(g)') <= Cardinality(PendingDirectIn(g) \cup {id})
        /\ Cardinality(PendingDirectIn(g)') \in Nat
    BY <2>6, <2>8, FS_Subset, FS_CardinalityType
  <2>10. groups[g].capacity \in Nat
    BY <2>0, StoreAssumption DEF TypeOK, StoreTypeOK
  <2> QED
    BY <2>4, <2>5, <2>7, <2>8, <2>9, <2>10
<1> QED
  BY InductiveInvariant, <1>1, PTL DEF Spec, NoDirectOverbooking

\* Within a group requests become visible in arrival order.
THEOREM ArrivalOrderHolds == Spec => ArrivalOrder
<1>1. ASSUME IInv, [Next]_vars
      PROVE  \A id \in DOMAIN reqs' \ DOMAIN reqs :
                \A r \in DOMAIN reqs : reqs[r].group = reqs'[id].group => r < id
  <2> SUFFICES ASSUME NEW id \in DOMAIN reqs' \ DOMAIN reqs
               PROVE  \A r \in DOMAIN reqs : reqs[r].group = reqs'[id].group => r < id
    OBVIOUS
  <2>1. PICK t \in Submitters : /\ SubmitCommit(t) /\ id = sub[t].id
                                /\ reqs'[id].group = sub[t].in.group
    BY <1>1, NewRequest
  <2> QED
    BY <1>1, <2>1 DEF IInv, SubmitOK, UncommittedRow, SubmitCommit
<1> QED
  BY InductiveInvariant, <1>1, PTL DEF Spec, ArrivalOrder

\* A rejected or cancelled request never changes again, and an accepted one is
\* only ever cancelled by an administrator.
THEOREM SettledStaysHolds == Spec => SettledStays
<1>1. ASSUME IInv, [Next]_vars
      PROVE  \A r \in DOMAIN reqs :
                /\ reqs[r].status \in {"REJECTED", "CANCELLED_BY_STUDENT", "CANCELLED_BY_ADMIN"}
                      => reqs'[r] = reqs[r]
                /\ reqs[r].status = "ACCEPTED" =>
                      reqs'[r].status \in {"ACCEPTED", "CANCELLED_BY_ADMIN"}
  <2> SUFFICES ASSUME NEW r \in DOMAIN reqs, reqs'[r] # reqs[r]
               PROVE  /\ reqs[r].status \notin
                            {"REJECTED", "CANCELLED_BY_STUDENT", "CANCELLED_BY_ADMIN"}
                      /\ reqs[r].status = "ACCEPTED" => reqs'[r].status = "CANCELLED_BY_ADMIN"
    OBVIOUS
  <2>1. ASSUME NEW t \in Submitters, SubmitCommit(t) PROVE FALSE
    BY <1>1, <2>1, CommitRows
  <2>2. ASSUME NEW s \in Students, NEW q \in Ids, Cancel(s, q)
        PROVE  ~IsTerminal(reqs[r].status)
    BY <1>1, <2>2, CancelledRow
  <2>3. ASSUME NEW a \in Reviewers, DecideCommit(a), ~DecideRollback(a)
        PROVE  /\ reqs[r].status \notin
                     {"REJECTED", "CANCELLED_BY_STUDENT", "CANCELLED_BY_ADMIN"}
               /\ reqs[r].status = "ACCEPTED" => reqs'[r].status = "CANCELLED_BY_ADMIN"
    <3>1. TypeOK /\ DecideOK(a)
      BY <1>1 DEF IInv
    <3>2. r = rev[a].in.request /\ reqs'[r].status = DecisionOutcome(a)
      BY <2>3, <3>1, DecidedChange
    <3>3. rev[a].pc = "apply" /\ DecisionOutcome(a) \notin DecisionErrors
      BY <2>3, <3>1, DecidedRow
    <3> QED
      BY <3>1, <3>2, <3>3, DecisionCases DEF IsTerminal, IsCancellableByAdmin
  <2> QED
    BY <1>1, <2>1, <2>2, <2>3, WritingSteps DEF IsTerminal
<1> QED
  BY InductiveInvariant, <1>1, PTL DEF Spec, SettledStays

\* Each status change leaves an audit event that names the status before and after.
THEOREM AuditTruthfulHolds == Spec => AuditTruthful
<1>1. ASSUME IInv, [Next]_vars
      PROVE  \A r \in DOMAIN reqs :
                reqs'[r].status # reqs[r].status =>
                    audit'[r] = [prev |-> reqs[r].status, new |-> reqs'[r].status]
  <2> SUFFICES ASSUME NEW r \in DOMAIN reqs, reqs'[r] # reqs[r]
               PROVE  audit'[r] = [prev |-> reqs[r].status, new |-> reqs'[r].status]
    OBVIOUS
  <2>1. ASSUME NEW t \in Submitters, SubmitCommit(t) PROVE FALSE
    BY <1>1, <2>1, CommitRows
  <2>2. ASSUME NEW prev, NEW st, NEW type, Record(r, prev, st, type)
        PROVE  audit'[r] = [prev |-> prev, new |-> st]
    BY <2>2 DEF Record, Put
  <2>3. ASSUME NEW s \in Students, NEW q \in Ids, Cancel(s, q)
        PROVE  audit'[r] = [prev |-> reqs[r].status, new |-> reqs'[r].status]
    <3>1. r = q /\ reqs'[r].status = "CANCELLED_BY_STUDENT"
      BY <1>1, <2>3, CancelledRow
    <3> QED
      BY <2>2, <2>3, <3>1 DEF Cancel
  <2>4. ASSUME NEW a \in Reviewers, DecideCommit(a), ~DecideRollback(a)
        PROVE  audit'[r] = [prev |-> reqs[r].status, new |-> reqs'[r].status]
    <3>1. TypeOK /\ DecideOK(a)
      BY <1>1 DEF IInv
    <3>2. r = rev[a].in.request /\ reqs'[r].status = DecisionOutcome(a)
      BY <2>4, <3>1, DecidedChange
    <3>3. /\ Record(r, rev[a].status, DecisionOutcome(a), NotifyFor(rev[a].in.type))
          /\ rev[a].pc = "apply"
      BY <2>4, <3>1, <3>2, DecidedRow
    <3>4. rev[a].status = reqs[r].status
      BY <3>1, <3>2, <3>3 DEF DecideOK
    <3> QED
      BY <2>2, <3>2, <3>3, <3>4
  <2> QED
    BY <1>1, <2>1, <2>3, <2>4, WritingSteps
<1> QED
  BY InductiveInvariant, <1>1, PTL DEF Spec, AuditTruthful

====
