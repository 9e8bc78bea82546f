---- MODULE EnrollmentRules ----
(***************************************************************************)
(* The pure business rules of the enrollment context                       *)
(* (internal/enrollment/domain): the statuses of a request, the            *)
(* classification of a new request, the per-semester cap and the           *)
(* validation of an administrative decision.  No state: Submit, Review and *)
(* the abstract EnrollmentLedger are all built from these operators.       *)
(***************************************************************************)
EXTENDS Naturals

\* The hard cap of domain/rules.go; the code compiles it in as 4.
CONSTANT MaxElectivesPerSemester

ASSUME MaxElectivesAssumption == MaxElectivesPerSemester \in Nat

Shifts == {"DAY", "NIGHT"}

Priorities == {"DIRECT_SAME_SHIFT", "WAITLIST_SAME_SHIFT", "WAITLIST_OPPOSITE_SHIFT"}

Statuses == {"SUBMITTED", "PENDING_REVIEW", "WAITLIST_SAME_SHIFT",
             "WAITLIST_OPPOSITE_SHIFT", "ACCEPTED", "REJECTED",
             "CANCELLED_BY_STUDENT", "CANCELLED_BY_ADMIN"}

\* The request still occupies a position.
IsActive(status) ==
    status \in {"SUBMITTED", "PENDING_REVIEW", "WAITLIST_SAME_SHIFT",
                "WAITLIST_OPPOSITE_SHIFT", "ACCEPTED"}

\* No decision except ADMIN_CANCEL, and no student cancellation, may follow.
IsTerminal(status) ==
    status \in {"ACCEPTED", "REJECTED", "CANCELLED_BY_STUDENT", "CANCELLED_BY_ADMIN"}

\* An administrator may still free the seat, of an accepted request too.
IsCancellableByAdmin(status) ==
    status \notin {"REJECTED", "CANCELLED_BY_STUDENT", "CANCELLED_BY_ADMIN"}

----
(* Submission rules. *)

ValidateSubmissionAllowed(activeCount) == activeCount < MaxElectivesPerSemester

\* occ is the snapshot [capacity, accepted, pendingDirect] of the group.
DirectSlotsTaken(occ) == occ.accepted + occ.pendingDirect

\* Mutant: room is judged by the accepted seats alone.
HasDirectRoom_AcceptedOnly(occ) == occ.accepted < occ.capacity

HasDirectRoom(occ) == DirectSlotsTaken(occ) < occ.capacity

Classification(priority, status) == [priority |-> priority, status |-> status]

Classify(studentShift, groupShift, occ) ==
    IF studentShift # groupShift
    THEN Classification("WAITLIST_OPPOSITE_SHIFT", "WAITLIST_OPPOSITE_SHIFT")
    ELSE IF HasDirectRoom(occ)
         THEN Classification("DIRECT_SAME_SHIFT", "PENDING_REVIEW")
         ELSE Classification("WAITLIST_SAME_SHIFT", "WAITLIST_SAME_SHIFT")

----
(* Decision rules. *)

AcceptanceTypes == {"ACCEPT", "CREATE_GROUP_ACCEPTANCE", "CAPACITY_ADJUSTMENT_ACCEPTANCE"}

DecisionTypes == AcceptanceTypes \cup {"REJECT", "ADMIN_CANCEL", "MOVE_TO_REVIEW"}

\* The API layer only refuses an empty type: any other string reaches the rules.
UnknownDecision == "UNKNOWN"

DecisionErrors == {"ErrReasonRequired", "ErrAlreadyTerminal", "ErrTargetGroupRequired",
                   "ErrMaxElectivesReached", "ErrCapacityExceeded", "ErrUnknownDecision"}

\* Mutant: the capacity exemption that "Fix #5" removed from the rules.
AcceptanceOutcome_CapacityExempt(dt, ctx) ==
    IF ctx.studentAccepted >= MaxElectivesPerSemester THEN "ErrMaxElectivesReached"
    ELSE IF dt = "ACCEPT" /\ ctx.groupAccepted >= ctx.capacity THEN "ErrCapacityExceeded"
    ELSE "ACCEPTED"

\* ctx is the DecisionContext gathered inside the decision transaction:
\* [status, reasonValid, targetGiven, capacity, groupAccepted, studentAccepted].
AcceptanceOutcome(dt, ctx) ==
    IF dt = "CREATE_GROUP_ACCEPTANCE" /\ ~ctx.targetGiven THEN "ErrTargetGroupRequired"
    ELSE IF ctx.studentAccepted >= MaxElectivesPerSemester THEN "ErrMaxElectivesReached"
    ELSE IF ctx.groupAccepted >= ctx.capacity THEN "ErrCapacityExceeded"
    ELSE "ACCEPTED"

OpenOutcome(dt, ctx) ==
    CASE dt \in AcceptanceTypes   -> AcceptanceOutcome(dt, ctx)
      [] dt = "REJECT"            -> "REJECTED"
      [] dt = "MOVE_TO_REVIEW"    -> "PENDING_REVIEW"
      [] OTHER                    -> "ErrUnknownDecision"

\* The new status, or the error that rolls the transaction back.
ApplyDecision(dt, ctx) ==
    IF ~ctx.reasonValid THEN "ErrReasonRequired"
    ELSE IF dt = "ADMIN_CANCEL"
         THEN IF IsCancellableByAdmin(ctx.status) THEN "CANCELLED_BY_ADMIN"
              ELSE "ErrAlreadyTerminal"
         ELSE IF IsTerminal(ctx.status) THEN "ErrAlreadyTerminal"
              ELSE OpenOutcome(dt, ctx)

====
