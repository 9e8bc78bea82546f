---- MODULE Administration ----
(***************************************************************************)
(* What other endpoints and the clock do to the rows Submit and Decide     *)
(* read while those are running: capacity adjustments and group edits      *)
(* (internal/catalog), student edits (internal/student), and enrollment    *)
(* windows opening and closing (internal/window and time itself).          *)
(*                                                                         *)
(* Each transaction locks one row, reads nothing else, and is one step     *)
(* that waits for that row.                                                *)
(***************************************************************************)
EXTENDS EnrollmentStore

CONSTANT MaxEdits   \* bound: administrative edits in one behaviour

ASSUME MaxEditsAssumption == MaxEdits \in Nat

VARIABLE edits

AdminTypeOK == edits \in 0 .. MaxEdits

AdminInit == edits = 0

Edit == edits < MaxEdits /\ edits' = edits + 1

\* POST /offering-groups/{id}/capacity-adjustments.  The new capacity is only
\* required to be non-negative: it may fall below the seats already accepted.
AdjustCapacity(g, c) ==
    /\ Edit
    /\ glock[g] = Free
    /\ groups' = [groups EXCEPT ![g].capacity = c]
    /\ UNCHANGED <<reqs, seq, students, windows, audit, outbox, locks>>

\* PATCH /offering-groups/{id}: the part Submit depends on, the status.
UpdateGroup(g, active) ==
    /\ Edit
    /\ glock[g] = Free
    /\ groups' = [groups EXCEPT ![g].active = active]
    /\ UNCHANGED <<reqs, seq, students, windows, audit, outbox, locks>>

\* PATCH /students/{id}: shift and status; completed electives and the name play
\* no part in enrollment.
UpdateStudent(s, shift, active) ==
    /\ Edit
    /\ slock[s] = Free
    /\ students' = [students EXCEPT ![s] = [shift |-> shift, active |-> active]]
    /\ UNCHANGED <<reqs, seq, groups, windows, audit, outbox, locks>>

\* A window of the semester opens or closes for a shift: its interval begins or
\* ends, or an administrator creates or edits it.  Submit takes no lock on it.
ToggleWindow(w) ==
    /\ Edit
    /\ windows' = IF w \in windows THEN windows \ {w} ELSE windows \cup {w}
    /\ UNCHANGED <<reqs, seq, groups, students, audit, outbox, locks>>

====
