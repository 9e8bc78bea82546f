---- MODULE MCEnrollment ----
(* Small instances of Enrollment for TLC; the .cfg files choose the sizes. *)
EXTENDS Enrollment, TLC

CONSTANTS s1, s2, g1, g2, t1, t2, a1, a2, k1, k2

\* All groups are taught by day and belong to one offering.
MCGroupShift == [g \in Groups |-> "DAY"]
MCGroupOffering == [g \in Groups |-> "elective A"]

\* Transactions of one kind are interchangeable, and so are students and keys:
\* nothing in the model tells them apart.
MCSymmetry == Permutations(Submitters) \cup Permutations(Reviewers)
              \cup Permutations(Students) \cup Permutations(Keys)

\* So are the groups where both may have any capacity to begin with.
MCGroupSymmetry == MCSymmetry \cup Permutations(Groups)

====
