---- MODULE EnrollmentStore ----
(***************************************************************************)
(* The database state shared by the enrollment and review repositories: the *)
(* committed rows of enrollment_requests, offering_groups, students and     *)
(* enrollment_windows, the arrival sequence, the newest audit event and     *)
(* notification of each request, and the row locks (SELECT ... FOR UPDATE)  *)
(* the running transactions hold.                                           *)
(*                                                                          *)
(* PostgreSQL runs the transactions at READ COMMITTED: a statement sees     *)
(* what was committed when it started, an uncommitted write is invisible,   *)
(* and the only thing that makes a statement wait is a row lock or a unique *)
(* index entry of a running transaction.                                    *)
(***************************************************************************)
EXTENDS EnrollmentRules, FiniteSets

CONSTANTS
    Students, Semesters, Groups, Keys,
    GroupShift,      \* [Groups -> Shifts]: offering_groups.shift is never updated
    GroupOffering,   \* [Groups -> offering]: neither is offering_id
    Capacities,      \* the capacities an administrator may give a group
    Submitters,      \* the server goroutines running Submit
    Reviewers,       \* the server goroutines running Decide
    Free,            \* "no transaction holds the lock"
    MaxArrival       \* MAXVALUE of enrollment_arrival_seq

ASSUME StoreAssumption ==
    /\ GroupShift \in [Groups -> Shifts]
    /\ GroupOffering = [g \in Groups |-> GroupOffering[g]]
    /\ Capacities \subseteq Nat
    /\ MaxArrival \in Nat
    /\ Submitters \cap Reviewers = {}
    /\ Free \notin Submitters \cup Reviewers

VARIABLES
    reqs,      \* committed enrollment_requests, indexed by arrival_sequence
    seq,       \* last value handed out by enrollment_arrival_seq
    groups,    \* offering_groups: capacity and whether status is ACTIVE
    students,  \* students: academic_shift and whether status is ACTIVE
    windows,   \* the (semester, shift) pairs that have an open window right now
    audit,     \* newest audit event of each request: its previous and new status
    outbox,    \* type of the newest notification queued about each request
    glock, slock, rlock   \* holders of the group, student and request row locks

tables == <<reqs, seq, groups, students, windows, audit, outbox>>
locks  == <<glock, slock, rlock>>

Ids == 1 .. MaxArrival

Row == [student : Students, semester : Semesters, group : Groups, key : Keys,
        priority : Priorities, status : Statuses]

\* What a request had before it existed, in its first audit event.
NoStatus == "NONE"

NotificationTypes == {"NONE", "REQUEST_SUBMITTED", "REQUEST_ACCEPTED", "REQUEST_REJECTED",
                      "REQUEST_CANCELLED_BY_STUDENT", "REQUEST_CANCELLED_BY_ADMIN"}

StoreTypeOK ==
    /\ seq \in 0 .. MaxArrival
    /\ DOMAIN reqs \subseteq 1 .. seq
    /\ reqs \in [DOMAIN reqs -> Row]
    /\ groups \in [Groups -> [capacity : Capacities, active : BOOLEAN]]
    /\ students \in [Students -> [shift : Shifts, active : BOOLEAN]]
    /\ windows \subseteq Semesters \X Shifts
    /\ audit \in [DOMAIN reqs -> [prev : Statuses \cup {NoStatus}, new : Statuses]]
    /\ outbox \in [DOMAIN reqs -> NotificationTypes]
    /\ glock \in [Groups -> Submitters \cup Reviewers \cup {Free}]
    /\ slock \in [Students -> Submitters \cup {Free}]
    /\ rlock \in [Ids -> Reviewers \cup {Free}]

\* No requests yet: groups of any capacity and students of any shift, all active,
\* and the windows of every semester open.
StoreInit ==
    /\ reqs = << >> /\ audit = << >> /\ outbox = << >>
    /\ seq = 0
    /\ groups \in [Groups -> [capacity : Capacities, active : {TRUE}]]
    /\ students \in [Students -> [shift : Shifts, active : {TRUE}]]
    /\ windows = Semesters \X Shifts
    /\ glock = [g \in Groups |-> Free]
    /\ slock = [s \in Students |-> Free]
    /\ rlock = [r \in Ids |-> Free]

----
(* The queries the transactions run on the committed rows. *)

\* The student's active requests in the semester.
ActiveOf(s, sem) ==
    {r \in DOMAIN reqs : /\ reqs[r].student = s /\ reqs[r].semester = sem
                         /\ IsActive(reqs[r].status)}

AcceptedIn(g) == {r \in DOMAIN reqs : reqs[r].group = g /\ reqs[r].status = "ACCEPTED"}

\* Same-shift requests that hold a direct slot of the group, pending review.
PendingDirectIn(g) ==
    {r \in DOMAIN reqs : /\ reqs[r].group = g /\ reqs[r].status = "PENDING_REVIEW"
                         /\ reqs[r].priority = "DIRECT_SAME_SHIFT"}

AcceptedOf(s, sem) ==
    {r \in DOMAIN reqs : /\ reqs[r].student = s /\ reqs[r].semester = sem
                         /\ reqs[r].status = "ACCEPTED"}

\* uq_request_idempotency: the requests with this student, semester and key.
WithKey(in) ==
    {r \in DOMAIN reqs : /\ reqs[r].student = in.student
                         /\ reqs[r].semester = in.semester /\ reqs[r].key = in.key}

\* uq_active_request_per_group: the student's active requests for this group.
ActiveInGroup(s, sem, g) == {r \in ActiveOf(s, sem) : reqs[r].group = g}

----
(* Writes. *)

\* f with the pair (x, v) added or replaced.
Put(f, x, v) == [y \in DOMAIN f \cup {x} |-> IF y = x THEN v ELSE f[y]]

\* audit.Write and notification.Enqueue of one status change, in the
\* transaction of the change itself; type "NONE" queues nothing.
Record(r, prev, new, type) ==
    /\ audit' = Put(audit, r, [prev |-> prev, new |-> new])
    /\ outbox' = IF type = "NONE" THEN outbox ELSE Put(outbox, r, type)

\* COMMIT or ROLLBACK of transaction t gives back every row lock it holds.
ReleaseLocks(t) ==
    /\ glock' = [g \in Groups |-> IF glock[g] = t THEN Free ELSE glock[g]]
    /\ slock' = [s \in Students |-> IF slock[s] = t THEN Free ELSE slock[s]]
    /\ rlock' = [r \in Ids |-> IF rlock[r] = t THEN Free ELSE rlock[r]]

====
