---- MODULE CatalogBrowsing ----
(***************************************************************************)
(* What students see of the catalog (internal/catalog): the active         *)
(* offerings of a semester and, read by a second statement, the groups and *)
(* the occupancy of each.                                                  *)
(***************************************************************************)
EXTENDS Requests

CONSTANTS
    GroupOffering,   \* [Groups -> offering]
    ActiveOfferings  \* the offerings of the semester that are ACTIVE

VARIABLE browse      \* the locals of the reader's call and what it was shown

NotBrowsing == [pc |-> "idle", shift |-> None, onlyOpen |-> FALSE, ids |-> {}, shown |-> {}]

BrowseInit == browse = NotBrowsing

\* One row of groupsQuery.
Waitlisted(g, status) == {r \in DOMAIN reqs : reqs[r].group = g /\ reqs[r].status = status}

GroupRow(g) ==
    [group |-> g, capacity |-> capacity[g], status |-> IF g \in closed THEN "CLOSED" ELSE "ACTIVE",
     acceptedCount |-> Cardinality(Accepted(g)), pendingDirectCount |-> Cardinality(Direct(g)),
     waitlistSame |-> Cardinality(Waitlisted(g, "WAITLIST_SAME_SHIFT")),
     waitlistOpposite |-> Cardinality(Waitlisted(g, "WAITLIST_OPPOSITE_SHIFT"))]

HasOpenSeats(row) ==
    row.status = "ACTIVE" /\ row.acceptedCount + row.pendingDirectCount < row.capacity

GroupsFor(ids, shift) ==
    {GroupRow(g) : g \in {h \in Groups : /\ GroupOffering[h] \in ids
                                         /\ shift = None \/ GroupShift[h] = shift}}

FilterGroups(rows, onlyOpen) == IF onlyOpen THEN {row \in rows : HasOpenSeats(row)} ELSE rows

\* GET /offerings of a semester, for one shift or both, all groups or only open ones.
ListOfferings ==
    /\ browse.pc = "idle"
    /\ Spend("browses")
    /\ \E shift \in Shifts \cup {None}, onlyOpen \in BOOLEAN :
          browse' = IF ActiveOfferings = {} THEN NotBrowsing
                    ELSE [NotBrowsing EXCEPT !.pc = "groups", !.shift = shift,
                            !.onlyOpen = onlyOpen, !.ids = ActiveOfferings]
    /\ UNCHANGED <<reqs, capacity, closed, open, calls, faults>>

\* GET /offerings/{id}: any offering, whatever its status, with all its groups.
GetOfferingDetail ==
    /\ browse.pc = "idle"
    /\ Spend("browses")
    /\ \E g \in Groups :
          browse' = [NotBrowsing EXCEPT !.pc = "groups", !.ids = {GroupOffering[g]}]
    /\ UNCHANGED <<reqs, capacity, closed, open, calls, faults>>

\* The second statement; onlyOpen leaves out offerings without an open group.
ListGroups ==
    /\ browse.pc = "groups"
    /\ browse' = [browse EXCEPT !.pc = "idle",
                    !.shown = FilterGroups(GroupsFor(browse.ids, browse.shift), browse.onlyOpen)]
    /\ UNCHANGED requestVars

====
