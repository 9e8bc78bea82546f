---- MODULE Review ----
(***************************************************************************)
(* Repo.Decide of internal/review/adapter/postgres/decide.go: the          *)
(* administrative decision on one request, one action per statement that   *)
(* takes a lock or reads what another transaction may change.              *)
(***************************************************************************)
EXTENDS EnrollmentStore

CONSTANTS
    NoGroup,     \* TargetGroupID = ""
    Decisions,   \* the decision types the reviewers send
    Reasons      \* whether the reasons they give are long enough

ASSUME ReviewAssumption ==
    /\ NoGroup \notin Groups
    /\ Decisions \subseteq DecisionTypes \cup {UnknownDecision}
    /\ Reasons \subseteq BOOLEAN

VARIABLE rev   \* the state of each Decide call

\* A target is only looked at for CREATE_GROUP_ACCEPTANCE.
DecisionInput ==
    [request : Ids, type : Decisions, reasonValid : Reasons,
     target : Groups \cup {NoGroup}]

DecideIdle == [pc |-> "idle"]

\* status and group are what the locking SELECT returned; capacity,
\* groupAccepted and studentAccepted what the later statements did.
DecideActive == [pc : {"lockGroup", "count", "apply"}, in : DecisionInput,
                 status : Statuses, group : Groups, capacity : Capacities \cup {0},
                 groupAccepted : Nat, studentAccepted : Nat]

ReviewTypeOK == rev \in [Reviewers -> DecideActive \cup {DecideIdle}]

ReviewInit == rev = [a \in Reviewers |-> DecideIdle]

\* Mutant: a move is judged by the seats of the group the request leaves.
CapacityGroup_Original(a) == rev[a].group

\* The group whose seats the decision is about.
CapacityGroup(a) ==
    IF rev[a].in.type = "CREATE_GROUP_ACCEPTANCE" THEN rev[a].in.target ELSE rev[a].group

DecideRollback(a) ==
    /\ rev' = [rev EXCEPT ![a] = DecideIdle]
    /\ ReleaseLocks(a)
    /\ UNCHANGED tables

\* Mutant: the request is read without FOR UPDATE.
DecideLockRequest_PlainSelect(a, in) ==
    /\ rev[a].pc = "idle"
    /\ in.request \in DOMAIN reqs
    /\ in.type = "CREATE_GROUP_ACCEPTANCE" <=> in.target # NoGroup
    /\ rev' = [rev EXCEPT ![a] =
                 [pc |-> "lockGroup", in |-> in, status |-> reqs[in.request].status,
                  group |-> reqs[in.request].group, capacity |-> 0,
                  groupAccepted |-> 0, studentAccepted |-> 0]]
    /\ UNCHANGED <<tables, locks>>

\* SELECT ... FOR UPDATE OF er.  A missing request changes nothing, nor does a
\* CREATE_GROUP_ACCEPTANCE without a target, refused right after this read.
DecideLockRequest(a, in) ==
    /\ rev[a].pc = "idle"
    /\ in.request \in DOMAIN reqs /\ rlock[in.request] = Free
    /\ in.type = "CREATE_GROUP_ACCEPTANCE" <=> in.target # NoGroup
    /\ rlock' = [rlock EXCEPT ![in.request] = a]
    /\ rev' = [rev EXCEPT ![a] =
                 [pc |-> "lockGroup", in |-> in, status |-> reqs[in.request].status,
                  group |-> reqs[in.request].group, capacity |-> 0,
                  groupAccepted |-> 0, studentAccepted |-> 0]]
    /\ UNCHANGED <<tables, glock, slock>>

\* Mutant: the capacity is read without FOR UPDATE.
DecideLockGroup_PlainSelect(a) ==
    LET g == CapacityGroup(a)
    IN /\ rev[a].pc = "lockGroup"
       /\ rev' = [rev EXCEPT ![a].pc = "count", ![a].capacity = groups[g].capacity]
       /\ UNCHANGED <<tables, locks>>

\* The capacity-relevant group is locked; for CREATE_GROUP_ACCEPTANCE that is the
\* target, which must belong to the offering of the request.  Whether the group
\* is ACTIVE is not asked.
DecideLockGroup(a) ==
    LET g == CapacityGroup(a)
    IN /\ rev[a].pc = "lockGroup"
       /\ glock[g] = Free
       /\ \/ /\ GroupOffering[g] # GroupOffering[rev[a].group]
             /\ DecideRollback(a)
          \/ /\ GroupOffering[g] = GroupOffering[rev[a].group]
             /\ glock' = [glock EXCEPT ![g] = a]
             /\ rev' = [rev EXCEPT ![a].pc = "count", ![a].capacity = groups[g].capacity]
             /\ UNCHANGED <<tables, slock, rlock>>

\* The two counts.  The first is stable under the group lock, so both are taken
\* here, at the instant of the second, which no lock of Decide protects.
DecideCount(a) ==
    LET row == reqs[rev[a].in.request]
    IN /\ rev[a].pc = "count"
       /\ rev' = [rev EXCEPT ![a].pc = "apply",
                    ![a].groupAccepted = Cardinality(AcceptedIn(CapacityGroup(a))),
                    ![a].studentAccepted = Cardinality(AcceptedOf(row.student, row.semester))]
       /\ UNCHANGED <<tables, locks>>

\* notifyFor: MOVE_TO_REVIEW tells the student nothing.
NotifyFor(dt) ==
    CASE dt \in AcceptanceTypes -> "REQUEST_ACCEPTED"
      [] dt = "REJECT"          -> "REQUEST_REJECTED"
      [] dt = "ADMIN_CANCEL"    -> "REQUEST_CANCELLED_BY_ADMIN"
      [] OTHER                  -> "NONE"

DecisionOutcome(a) ==
    ApplyDecision(rev[a].in.type,
                  [status |-> rev[a].status, reasonValid |-> rev[a].in.reasonValid,
                   targetGiven |-> rev[a].in.target # NoGroup,
                   capacity |-> rev[a].capacity, groupAccepted |-> rev[a].groupAccepted,
                   studentAccepted |-> rev[a].studentAccepted])

\* Mutant: the partial index does not cover the move to another group.
TargetTaken_NotIndexed(a) == FALSE

\* CREATE_GROUP_ACCEPTANCE would put a second active request of the student in
\* the target group: uq_active_request_per_group refuses the UPDATE.
TargetTaken(a) ==
    LET row == reqs[rev[a].in.request]
    IN /\ rev[a].in.type = "CREATE_GROUP_ACCEPTANCE"
       /\ ActiveInGroup(row.student, row.semester, rev[a].in.target)
              \ {rev[a].in.request} # {}

\* ApplyDecision, the UPDATE, the decision row, the audit event, the
\* notification and COMMIT; or ROLLBACK when the rules or the index refuse.
DecideCommit(a) ==
    LET r  == rev[a].in.request
        st == DecisionOutcome(a)
    IN /\ rev[a].pc = "apply"
       /\ \/ /\ st \in DecisionErrors \/ TargetTaken(a)
             /\ DecideRollback(a)
          \/ /\ st \notin DecisionErrors /\ ~TargetTaken(a)
             /\ reqs' = [reqs EXCEPT ![r].status = st,
                           ![r].group = IF rev[a].in.type = "CREATE_GROUP_ACCEPTANCE"
                                        THEN rev[a].in.target ELSE @]
             /\ Record(r, rev[a].status, st, NotifyFor(rev[a].in.type))
             /\ rev' = [rev EXCEPT ![a] = DecideIdle]
             /\ ReleaseLocks(a)
             /\ UNCHANGED <<seq, groups, students, windows>>

\* A failure before the commit: the transaction is rolled back.
DecideFail(a) ==
    /\ rev[a].pc # "idle"
    /\ DecideRollback(a)

DecideStep(a) == DecideLockGroup(a) \/ DecideCount(a) \/ DecideCommit(a)

====
