---- MODULE EnrollmentLedger ----
(***************************************************************************)
(* What enrollment promises, as if every operation were one atomic change  *)
(* of the ledger of requests: no locks, no statements, no waiting.  The    *)
(* composed module Enrollment is shown to implement it.                    *)
(***************************************************************************)
EXTENDS EnrollmentRules, FiniteSets

CONSTANTS Students, Semesters, Groups, Keys, Capacities, Ids

VARIABLES reqs, capacity

ledger == <<reqs, capacity>>

Active(s, sem) ==
    {r \in DOMAIN reqs : /\ reqs[r].student = s /\ reqs[r].semester = sem
                         /\ IsActive(reqs[r].status)}

Accepted(g) == {r \in DOMAIN reqs : reqs[r].group = g /\ reqs[r].status = "ACCEPTED"}

Direct(g) == {r \in DOMAIN reqs : /\ reqs[r].group = g /\ reqs[r].status = "PENDING_REVIEW"
                                  /\ reqs[r].priority = "DIRECT_SAME_SHIFT"}

LedgerInit == reqs = << >> /\ capacity \in [Groups -> Capacities]

\* How a request may enter: on a direct slot or on one of the two waitlists.
Classifications == {Classification("DIRECT_SAME_SHIFT", "PENDING_REVIEW"),
                    Classification("WAITLIST_SAME_SHIFT", "WAITLIST_SAME_SHIFT"),
                    Classification("WAITLIST_OPPOSITE_SHIFT", "WAITLIST_OPPOSITE_SHIFT")}

\* A new request enters with the highest number of its group, under the cap, as
\* the only one with its key and the only active one of the student in the group;
\* it enters on a direct slot only if the group has one left.
Enroll(id, row) ==
    /\ id \notin DOMAIN reqs
    /\ \A r \in DOMAIN reqs : reqs[r].group = row.group => r < id
    /\ Cardinality(Active(row.student, row.semester)) < MaxElectivesPerSemester
    /\ \A r \in DOMAIN reqs :
          /\ reqs[r].student = row.student
          /\ reqs[r].semester = row.semester
          => /\ reqs[r].key # row.key
             /\ reqs[r].group = row.group => ~IsActive(reqs[r].status)
    /\ row.priority = "DIRECT_SAME_SHIFT" =>
          Cardinality(Accepted(row.group)) + Cardinality(Direct(row.group))
              < capacity[row.group]
    /\ reqs' = [r \in DOMAIN reqs \cup {id} |-> IF r = id THEN row ELSE reqs[r]]
    /\ UNCHANGED capacity

\* An open request is accepted, in its own group or in another one, where a seat
\* is free and the student has no other active request.
Accept(r, g) ==
    /\ ~IsTerminal(reqs[r].status)
    /\ Cardinality(Accepted(g)) < capacity[g]
    /\ \A q \in Active(reqs[r].student, reqs[r].semester) \ {r} : reqs[q].group # g
    /\ reqs' = [reqs EXCEPT ![r].status = "ACCEPTED", ![r].group = g]
    /\ UNCHANGED capacity

\* An open request is rejected, cancelled or put back in review; an accepted one
\* can only be cancelled by an administrator.
Settle(r, st) ==
    /\ \/ ~IsTerminal(reqs[r].status)
             /\ st \in {"REJECTED", "CANCELLED_BY_STUDENT", "CANCELLED_BY_ADMIN",
                        "PENDING_REVIEW"}
       \/ reqs[r].status = "ACCEPTED" /\ st = "CANCELLED_BY_ADMIN"
    /\ reqs' = [reqs EXCEPT ![r].status = st]
    /\ UNCHANGED capacity

Resize(g, c) == capacity' = [capacity EXCEPT ![g] = c] /\ UNCHANGED reqs

LedgerNext ==
    \/ \E id \in Ids, s \in Students, sem \in Semesters, g \in Groups, k \in Keys,
          c \in Classifications :
          Enroll(id, [student |-> s, semester |-> sem, group |-> g, key |-> k,
                      priority |-> c.priority, status |-> c.status])
    \/ \E r \in DOMAIN reqs, g \in Groups : Accept(r, g)
    \/ \E r \in DOMAIN reqs, st \in Statuses : Settle(r, st)
    \/ \E g \in Groups, c \in Capacities : Resize(g, c)

LedgerSpec == LedgerInit /\ [][LedgerNext]_ledger

====
