---- MODULE Semesters ----
(***************************************************************************)
(* Semesters (internal/semester).  Activate closes the active semester and *)
(* activates another one in two statements of one READ COMMITTED           *)
(* transaction, under the unique index uq_one_active_semester.             *)
(***************************************************************************)
EXTENDS BackofficeStore

Active(e) == rows[e] # None /\ rows[e].a = "ACTIVE"

\* POST /semesters, PUT .../activate and .../close; closing needs a reason.
PostSemester(c) ==
    \E e \in Table("semesters"), valid \in BOOLEAN : Receive(c, "createSemester", [e |-> e], valid)

PostActivate(c) == \E e \in Table("semesters") : Receive(c, "activate", [e |-> e], TRUE)

PostClose(c) ==
    \E e \in Table("semesters"), valid \in BOOLEAN : Receive(c, "closeSemester", [e |-> e], valid)

\* A duplicate code is a plain error.
CreateSemester(c) == calls[c].pc = "createSemester" /\ Insert(c, "500", "500")

\* The first UPDATE sees the semesters that are ACTIVE when it begins.
ActivateSnapshot(c) ==
    /\ calls[c].pc = "activate"
    /\ Step(c, "closeOthers", [calls[c] EXCEPT !.closing =
                                 {e \in Table("semesters") \ {Entity(c)} : Active(e)}])
    /\ UNCHANGED <<rows, trail, answers, made, faults>>

\* It waits for their locks, and leaves out the ones that are ACTIVE no longer.
CloseOthers(c) ==
    LET still == {e \in calls[c].closing : Active(e)}
    IN /\ calls[c].pc = "closeOthers"
       /\ \A e \in calls[c].closing : Free(c, e)
       /\ Step(c, "activateThis", [calls[c] EXCEPT !.closing = still, !.held = still])
       /\ UNCHANGED <<rows, trail, answers, made, faults>>

\* Mutant: an unknown id is noticed after the commit.
ActivateThis_NotFoundCommits(c) ==
    /\ calls[c].pc = "activateThis"
    /\ \/ /\ rows[Entity(c)] = None
          /\ rows' = [e \in Entities |-> IF e \in calls[c].closing
                                         THEN [rows[e] EXCEPT !.a = "CLOSED"] ELSE rows[e]]
          /\ Answer(c, "404")
          /\ UNCHANGED <<trail, made, faults>>
       \/ /\ rows[Entity(c)] # None
          /\ Free(c, Entity(c))
          /\ Step(c, "indexEntry", [calls[c] EXCEPT !.held = @ \cup {Entity(c)}])
          /\ UNCHANGED <<rows, trail, answers, made, faults>>

\* The second UPDATE locks its row; an unknown id rolls everything back.
ActivateThis(c) ==
    /\ calls[c].pc = "activateThis"
    /\ \/ rows[Entity(c)] = None /\ Refuse(c, "404")
       \/ /\ rows[Entity(c)] # None
          /\ Free(c, Entity(c))
          /\ Step(c, "indexEntry", [calls[c] EXCEPT !.held = @ \cup {Entity(c)}])
          /\ UNCHANGED <<rows, trail, answers, made, faults>>

\* Another row with an entry in uq_one_active_semester: committed, or of a transaction
\* that has not ended.
Others(c) ==
    {e \in Table("semesters") \ (calls[c].closing \cup {Entity(c)}) :
        \/ Active(e)
        \/ \E d \in Admins : calls[d].pc = "commitActivation" /\ Entity(d) = e}

\* The transactions whose end the index entry has to wait for.
IndexHolders(c) ==
    {d \in Admins \ {c} :
        \/ calls[d].held \cap Others(c) # {}
        \/ calls[d].pc = "commitActivation" /\ Entity(d) \in Others(c)}

\* Mutant: no unique index.
IndexEntry_NotUnique(c) ==
    /\ calls[c].pc = "indexEntry"
    /\ Step(c, "commitActivation", calls[c])
    /\ UNCHANGED <<rows, trail, answers, made, faults>>

\* The new index entry, unless the row was ACTIVE already.  A row entered or being
\* removed by an unfinished transaction is waited for; a unique violation is answered
\* 500.
IndexEntry(c) ==
    /\ calls[c].pc = "indexEntry"
    /\ Active(Entity(c)) \/ IndexHolders(c) = {}
    /\ IF Active(Entity(c)) \/ Others(c) = {}
       THEN /\ Step(c, "commitActivation", calls[c])
            /\ UNCHANGED <<rows, trail, answers, made, faults>>
       ELSE Refuse(c, "500")

\* Both updates and the event become visible together.  The semester that is closed
\* has no event of its own.
CommitActivation(c) ==
    /\ calls[c].pc = "commitActivation"
    /\ rows' = [e \in Entities |->
                  IF e = Entity(c) THEN [rows[e] EXCEPT !.a = "ACTIVE"]
                  ELSE IF e \in calls[c].closing THEN [rows[e] EXCEPT !.a = "CLOSED"]
                  ELSE rows[e]]
    /\ Write(c, Entity(c), None, None)
    /\ Done(c, "200")

CloseSemester(c) ==
    LET e == Entity(c)
    IN /\ calls[c].pc = "closeSemester"
       /\ Free(c, e)
       /\ \/ rows[e] = None /\ Refuse(c, "404")
          \/ /\ rows[e] # None
             /\ rows' = [rows EXCEPT ![e].a = "CLOSED"]
             /\ Write(c, e, None, None)
             /\ Done(c, "200")

\* The calls whose transactions c waits for.
WaitsFor(c) ==
    {d \in Admins \ {c} :
        \/ calls[c].pc = "closeOthers" /\ calls[c].closing \cap calls[d].held # {}
        \/ calls[c].pc = "activateThis" /\ Entity(c) \in calls[d].held
        \/ calls[c].pc = "indexEntry" /\ ~Active(Entity(c)) /\ d \in IndexHolders(c)}

\* PostgreSQL ends a circle of waiting transactions by aborting one of them.
DeadlockDetected(c) ==
    /\ calls[c].pc \in {"closeOthers", "activateThis", "indexEntry"}
    /\ \E S \in SUBSET Admins :
          c \in S /\ \A d \in S : WaitsFor(d) \cap S # {} /\ \E f \in S : d \in WaitsFor(f)
    /\ Refuse(c, "500")

SemesterPosts(c) == PostSemester(c) \/ PostActivate(c) \/ PostClose(c)

SemesterStep(c) ==
    \/ CreateSemester(c) \/ CloseSemester(c)
    \/ ActivateSnapshot(c) \/ CloseOthers(c) \/ ActivateThis(c) \/ IndexEntry(c)
    \/ CommitActivation(c) \/ DeadlockDetected(c)

====
