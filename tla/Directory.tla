---- MODULE Directory ----
(***************************************************************************)
(* Students, their academic records and their import (internal/student),   *)
(* administrators (internal/adminuser) and global settings                 *)
(* (internal/settings).                                                    *)
(***************************************************************************)
EXTENDS BackofficeStore

CONSTANT Imports   \* the lists that may be imported: sequences of [e, valid]

ASSUME ImportsAssumption ==
    \A list \in Imports :
        /\ list \in Seq([e : Entities, valid : BOOLEAN])
        /\ \A i \in DOMAIN list : Info[list[i].e].table = "students"

\* StudentPatch.Validate and AdminUserPatch.Validate: every field that is present is valid.
ValidPatch(p) == Bad \notin {p.a, p.b}

----
(* Students. *)

\* NewStudent.Validate, per row of a request.
PostStudent(c) ==
    \E e \in Table("students"), valid \in BOOLEAN : Receive(c, "createStudent", [e |-> e], valid)

\* A duplicate e-mail or document is answered 409.
CreateStudent(c) == calls[c].pc = "createStudent" /\ Insert(c, "409", "404")

PatchStudent(c) ==
    \E e \in Table("students"), p \in Patches :
        Receive(c, "lockStudent", [e |-> e, patch |-> p], ValidPatch(p))

LockStudent(c) == calls[c].pc = "lockStudent" /\ LockRow(c, "updateStudent", "404")

\* An empty patch writes no row, but an event.
UpdateStudent(c) ==
    /\ calls[c].pc = "updateStudent"
    /\ WriteBack(c, Patched(rows[Entity(c)], calls[c].op.patch))

PostRecord(c) ==
    \E e \in Table("student_academic_records"), valid \in BOOLEAN :
        rows[e] = None /\ Receive(c, "createRecord", [e |-> e], valid)

\* EXISTS, then the insert; a student or a semester that is missing is answered 404.
CreateAcademicRecord(c) == calls[c].pc = "createRecord" /\ Insert(c, "500", "404")

\* The body is an object with a list, or the bare list.
PostImport(c) ==
    \E list \in Imports, valid \in BOOLEAN :
        /\ \A i \in DOMAIN list : list[i].e \in world.scope
        /\ Receive(c, "import", [list |-> list], valid)

\* The next row of the list, with this one counted.
NextRow(call, stored) ==
    [call EXCEPT !.op = [list |-> Tail(call.op.list)],
                 !.accepted = IF stored THEN call.accepted + 1 ELSE call.accepted,
                 !.rejected = IF stored THEN call.rejected ELSE call.rejected + 1]

\* Mutant: a row that could not be stored is counted as accepted.
ImportRow_CountsConflict(c) ==
    LET row == Head(calls[c].op.list)
        stored == row.valid /\ ~Conflict(row.e)
    IN /\ calls[c].pc = "import" /\ calls[c].op.list # << >>
       /\ rows' = IF stored THEN [rows EXCEPT ![row.e] = NewRow(row.e)] ELSE rows
       /\ IF stored THEN Write(c, row.e, None, View(row.e, NewRow(row.e))) ELSE UNCHANGED trail
       /\ calls' = [calls EXCEPT ![c] = NextRow(calls[c], row.valid)]
       /\ UNCHANGED <<answers, made, faults>>

\* Each row has a transaction of its own, and the list goes on whatever becomes of it.
ImportRow(c) ==
    LET row == Head(calls[c].op.list)
        stored == row.valid /\ ~Conflict(row.e)
    IN /\ calls[c].pc = "import" /\ calls[c].op.list # << >>
       /\ rows' = IF stored THEN [rows EXCEPT ![row.e] = NewRow(row.e)] ELSE rows
       /\ IF stored THEN Write(c, row.e, None, View(row.e, NewRow(row.e))) ELSE UNCHANGED trail
       /\ calls' = [calls EXCEPT ![c] = NextRow(calls[c], stored)]
       /\ UNCHANGED <<answers, made, faults>>

\* The row's transaction fails: before its commit, or with the reply to the commit lost.
ImportRowFails(c) ==
    LET row == Head(calls[c].op.list)
        stored == row.valid /\ ~Conflict(row.e)
    IN /\ calls[c].pc = "import" /\ calls[c].op.list # << >>
       /\ Fault
       /\ \/ UNCHANGED <<rows, trail>>
          \/ /\ stored
             /\ rows' = [rows EXCEPT ![row.e] = NewRow(row.e)]
             /\ Write(c, row.e, None, View(row.e, NewRow(row.e)))
       /\ calls' = [calls EXCEPT ![c] = NextRow(calls[c], FALSE)]
       /\ UNCHANGED <<answers, made>>

\* 202 with the two counts.
ImportDone(c) ==
    /\ calls[c].pc = "import" /\ calls[c].op.list = << >>
    /\ Refuse(c, "202")

\* The process dies in the middle of the list.
ImportDies(c) ==
    /\ calls[c].pc = "import"
    /\ Fault
    /\ Answer(c, "lost")
    /\ UNCHANGED <<rows, trail, made>>

----
(* Administrators. *)

PostAdminUser(c) ==
    \E e \in Table("admin_users"), valid \in BOOLEAN :
        Receive(c, "createAdminUser", [e |-> e], valid)

CreateAdminUser(c) == calls[c].pc = "createAdminUser" /\ Insert(c, "409", "500")

PatchAdminUser(c) ==
    \E e \in Table("admin_users"), p \in Patches :
        Receive(c, "lockAdminUser", [e |-> e, patch |-> p], ValidPatch(p))

LockAdminUser(c) == calls[c].pc = "lockAdminUser" /\ LockRow(c, "updateAdminUser", "404")

UpdateAdminUser(c) ==
    /\ calls[c].pc = "updateAdminUser"
    /\ WriteBack(c, Patched(rows[Entity(c)], calls[c].op.patch))

----
(* Settings. *)

\* UpsertSetting.Validate: a JSON value that is not null, and a reason.
PutSetting(c) ==
    \E e \in Table("global_settings"), v \in Values, valid \in BOOLEAN :
        Receive(c, "readSetting", [e |-> e, value |-> v], valid)

\* SELECT ... FOR UPDATE: there is nothing to lock while the row does not exist.
ReadSetting(c) ==
    LET e == Entity(c)
    IN /\ calls[c].pc = "readSetting"
       /\ Free(c, e)
       /\ Step(c, "upsertSetting", [calls[c] EXCEPT !.before = rows[e],
                                      !.held = IF rows[e] = None THEN {} ELSE {e}])
       /\ UNCHANGED <<rows, trail, answers, made, faults>>

\* INSERT ... ON CONFLICT DO UPDATE; the event has the value that was read.
Upsert(c) ==
    LET e == Entity(c)
        after == [a |-> calls[c].op.value, b |-> 1]
        before == IF calls[c].before = None THEN None ELSE View(e, calls[c].before)
    IN /\ calls[c].pc = "upsertSetting"
       /\ Free(c, e)
       /\ rows' = [rows EXCEPT ![e] = after]
       /\ Write(c, e, before, View(e, after))
       /\ Done(c, "200")

DirectoryPosts(c) ==
    \/ PostStudent(c) \/ PatchStudent(c) \/ PostRecord(c) \/ PostImport(c)
    \/ PostAdminUser(c) \/ PatchAdminUser(c) \/ PutSetting(c)

DirectoryStep(c) ==
    \/ CreateStudent(c) \/ LockStudent(c) \/ UpdateStudent(c) \/ CreateAcademicRecord(c)
    \/ ImportRow(c) \/ ImportDone(c)
    \/ CreateAdminUser(c) \/ LockAdminUser(c) \/ UpdateAdminUser(c)
    \/ ReadSetting(c) \/ Upsert(c)

DirectoryFaults(c) == ImportRowFails(c) \/ ImportDies(c)

====
