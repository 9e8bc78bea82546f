---- MODULE Catalog ----
(***************************************************************************)
(* Catalog administration (internal/catalog: electives, prerequisites,     *)
(* offerings, groups) and enrollment windows (internal/window).            *)
(***************************************************************************)
EXTENDS BackofficeStore

\* AdminService's checks of names, codes, shifts, capacities and reasons.
PostCatalog(c, pc, table) ==
    \E e \in Table(table), valid \in BOOLEAN : Receive(c, pc, [e |-> e], valid)

\* Every elective that is created is a new one.
PostElective(c) ==
    \E e \in Table("electives"), valid \in BOOLEAN :
        rows[e] = None /\ Receive(c, "createElective", [e |-> e], valid)

CreateElective(c) == calls[c].pc = "createElective" /\ Insert(c, "500", "500")

\* AdminService.UpdateElective checks nothing but that the body can be decoded: the
\* status is left to the CHECK.
PatchElective(c) ==
    \E e \in Table("electives"), p \in Patches, valid \in BOOLEAN :
        Receive(c, "updateElective", [e |-> e, patch |-> p], valid)

UpdateElective(c) ==
    /\ calls[c].pc = "updateElective"
    /\ UpdateInPlace(c, calls[c].op.patch, Bad \notin {calls[c].op.patch.a, calls[c].op.patch.b})

\* A second ACTIVE prerequisite of the same name is answered 409 (asDuplicate); an
\* elective that does not exist 500.
PostPrerequisite(c) == PostCatalog(c, "createPrerequisite", "prerequisites")

CreatePrerequisite(c) == calls[c].pc = "createPrerequisite" /\ Insert(c, "409", "500")

\* asDuplicate is not applied to offerings and groups: a duplicate is answered 500.
PostOffering(c) == PostCatalog(c, "createOffering", "elective_offerings")

CreateOffering(c) == calls[c].pc = "createOffering" /\ Insert(c, "500", "500")

PostOfferingPrereq(c) == PostCatalog(c, "createOfferingPrereq", "offering_prerequisites")

CreateOfferingPrereq(c) == calls[c].pc = "createOfferingPrereq" /\ Insert(c, "409", "500")

PostGroup(c) == PostCatalog(c, "createGroup", "offering_groups")

CreateGroup(c) == calls[c].pc = "createGroup" /\ Insert(c, "500", "500")

\* b stands for the columns UpdateGroup sets; the capacity, a, is not among them.
PatchGroup(c) ==
    \E e \in Table("offering_groups"), p \in Patches, valid \in BOOLEAN :
        p.a = None /\ Receive(c, "updateGroup", [e |-> e, patch |-> p], valid)

UpdateGroup(c) ==
    /\ calls[c].pc = "updateGroup"
    /\ UpdateInPlace(c, calls[c].op.patch, calls[c].op.patch.b # Bad)

\* A reason of three blanks passes the service and not the CHECK.
PostCapacity(c) ==
    \E e \in Table("offering_groups"), v \in Values, valid, blank \in BOOLEAN :
        Receive(c, "lockGroup", [e |-> e, value |-> v, blank |-> blank], valid)

\* A group that does not exist is answered 500 here.
LockGroup(c) == calls[c].pc = "lockGroup" /\ LockRow(c, "adjustCapacity", "500")

\* The capacity, the adjustment row and the event.
AdjustCapacity(c) ==
    /\ calls[c].pc = "adjustCapacity"
    /\ IF calls[c].op.blank THEN Refuse(c, "500")
       ELSE WriteBack(c, [rows[Entity(c)] EXCEPT !.a = calls[c].op.value])

----
(* Windows: a is starts_at and b is ends_at. *)

\* Dates must be parsable and in order.
PostWindow(c) ==
    \E e \in Table("enrollment_windows"), valid \in BOOLEAN :
        rows[e] = None /\ Receive(c, "createWindow", [e |-> e], valid)

CreateWindow(c) == calls[c].pc = "createWindow" /\ Insert(c, "500", "500")

\* A date that cannot be parsed is left out of the update.
Parsed(p) == [a |-> IF p.a = Bad THEN None ELSE p.a, b |-> IF p.b = Bad THEN None ELSE p.b]

PatchWindow(c) ==
    \E e \in Table("enrollment_windows"), p \in Patches, valid \in BOOLEAN :
        Receive(c, "updateWindow", [e |-> e, patch |-> Parsed(p)], valid)

\* window_dates_valid
InOrder(row) == row.b > row.a

UpdateWindow(c) ==
    /\ calls[c].pc = "updateWindow"
    /\ UpdateInPlace(c, calls[c].op.patch,
                     rows[Entity(c)] # None => InOrder(Patched(rows[Entity(c)], calls[c].op.patch)))

CatalogPosts(c) ==
    \/ PostElective(c) \/ PatchElective(c) \/ PostPrerequisite(c)
    \/ PostOffering(c) \/ PostOfferingPrereq(c)
    \/ PostGroup(c) \/ PatchGroup(c) \/ PostCapacity(c)
    \/ PostWindow(c) \/ PatchWindow(c)

CatalogStep(c) ==
    \/ CreateElective(c) \/ UpdateElective(c) \/ CreatePrerequisite(c)
    \/ CreateOffering(c) \/ CreateOfferingPrereq(c)
    \/ CreateGroup(c) \/ UpdateGroup(c) \/ LockGroup(c) \/ AdjustCapacity(c)
    \/ CreateWindow(c) \/ UpdateWindow(c)

====
