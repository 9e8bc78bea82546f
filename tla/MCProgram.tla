---- MODULE MCProgram ----
(* A small instance of Program for TLC. *)
EXTENDS Program

CONSTANTS s1, s2, g1, g2, g3

\* g1 and g2 are groups of one elective, taught by day; g3 is taught by night.
MCStudentShift == [s \in Students |-> "DAY"]
MCGroupShift == [g \in Groups |-> IF g = g3 THEN "NIGHT" ELSE "DAY"]
MCGroupOffering == [g \in Groups |-> IF g = g3 THEN "B" ELSE "A"]

MCIds == 1 .. 6

\* Two groups, the same one twice, and more than the cap.
MCLists == {<<g1, g2>>, <<g1, g1>>, <<g1, g2, g3>>}

MCCompleted == [s \in Students |-> 0]

\* The pending workload of a semester.
MCPending(sem) == [semester |-> sem, offering |-> None, group |-> None, priority |-> None,
                   status |-> None]

\* Two pages of one item each, another semester with the default size, and a list with
\* every filter and a size that is too large.
MCQueueRequests ==
    {[page |-> 0, size |-> 1, filter |-> MCPending("2026-1")],
     [page |-> 2, size |-> 1, filter |-> MCPending("2026-1")],
     [page |-> 1, size |-> 0, filter |-> MCPending("2026-2")],
     [page |-> 1, size |-> 9, filter |-> [semester |-> "2026-1", offering |-> "A", group |-> g1,
                                          priority |-> "DIRECT_SAME_SHIFT", status |-> "ACCEPTED"]]}

\* [calls, browses, reads, exports, stops]
MCBudget(n, down) == [calls |-> n[1], browses |-> n[2], reads |-> n[3], exports |-> n[4],
                      stops |-> n[5], down |-> down, seats |-> [g \in Groups |-> 1]]

\* Calls that overlap; calls while the catalog is read; calls while the queue is read, and
\* decided on; two pages one after another; a call and a report of it; reports while
\* replicas stop; replicas that start.
MCBudgets ==
    {MCBudget(n, FALSE) : n \in {<<3, 0, 0, 0, 0>>, <<2, 1, 0, 0, 0>>, <<2, 0, 1, 0, 0>>,
                                 <<1, 0, 2, 0, 0>>, <<1, 0, 0, 1, 1>>, <<0, 0, 0, 2, 1>>}}
        \cup {MCBudget(<<0, 0, 0, 1, 2>>, TRUE)}

\* A batch and another call of the same student.
MCBatchBudgets == {MCBudget(<<2, 0, 0, 0, 0>>, FALSE)}

\* An export and a stop.
MCExportsBudgets == {MCBudget(<<0, 0, 0, 1, 1>>, FALSE)}

====
