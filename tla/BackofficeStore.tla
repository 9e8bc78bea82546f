---- MODULE BackofficeStore ----
(***************************************************************************)
(* What the administrative endpoints share: the tables they write, the     *)
(* audit trail they append to in the same transaction, the row locks of    *)
(* their transactions, and the answers they give.                          *)
(*                                                                         *)
(* An entity is a row that exists or may be created: its table, the values *)
(* that identify it and the rows its foreign keys refer to.  Of the other  *)
(* columns the model keeps two, a and b: two columns of one row that       *)
(* different calls may set.                                                *)
(***************************************************************************)
EXTENDS Integers, Sequences, FiniteSets

CONSTANTS
    Admins,     \* concurrent calls of administrators
    Entities,   \* rows that exist or may be created
    Info,       \* of each entity: [table, key, refs]
    Worlds,     \* [exist, scope, limit]: the rows there are to begin with, and, as bounds,
                \* the entities that the calls of one behaviour are about and their number
    Values,     \* column values
    None,       \* NULL, absent
    Bad,        \* an input that the code or a CHECK refuses
    Patches,    \* [a, b]: what an update sets; None leaves the column as it is
    MaxCalls,   \* bound: calls in any behaviour
    MaxFaults   \* bound: failed statements, lost commits and crashes

Cells    == Values \cup {None, Bad}
Statuses == {"DRAFT", "ACTIVE", "CLOSED"}

\* What the rows of a table, and a patch of them, may be.
Row         == [a : Cells, b : Cells]
SemesterRow == [a : Statuses, b : {0}]
Codes       == {"200", "201", "202", "400", "404", "409", "500", "lost"}

\* NULL is no value, no row and no status code; a student is identified by something.
ASSUME StoreAssumption ==
    /\ MaxCalls \in Nat /\ MaxFaults \in Nat
    /\ {0, 1} \subseteq Values /\ Bad \notin Values
    /\ None \notin Values /\ None \notin Row /\ None \notin SemesterRow /\ None \notin Codes
    /\ IsFiniteSet(Admins) /\ Admins # {}
    /\ Patches \subseteq Row
    /\ \A w \in Worlds : w.exist \cup w.scope \subseteq Entities /\ w.limit \in 0 .. MaxCalls
    /\ \A e \in Entities : Info[e].table = "students" => DOMAIN Info[e].key # {}

VARIABLES
    world,      \* the one of Worlds that the behaviour is in; never changes
    rows,       \* the row of each entity, or None
    trail,      \* audit_events of each entity, oldest first
    calls,      \* the locals and the transaction of each call
    answers,    \* what each call was answered, by call number
    made,       \* calls made so far
    faults      \* faults so far

vars == <<world, rows, trail, calls, answers, made, faults>>

Table(t) == {e \in world.scope : Info[e].table = t}

Idle == [pc |-> "idle", id |-> 0, op |-> None, held |-> {}, before |-> None, closing |-> {},
         accepted |-> 0, rejected |-> 0]

NoAnswer == [code |-> None, accepted |-> 0, rejected |-> 0]

\* What the audit events of a row show of it: the whole row, the value of a setting, the
\* capacity of a group; nothing that can be compared in the other tables.
Audited == {"students", "admin_users", "global_settings", "offering_groups"}

View(e, row) == CASE Info[e].table \in {"students", "admin_users"} -> row
                  [] Info[e].table \in {"global_settings", "offering_groups"} -> row.a
                  [] OTHER -> None

Event(prev, next, id) == [prev |-> prev, next |-> next, call |-> id]

InitialRow(e, active) ==
    IF Info[e].table = "semesters" THEN [a |-> IF e = active THEN "ACTIVE" ELSE "DRAFT", b |-> 0]
    ELSE [a |-> 0, b |-> 1]

Init ==
    \E w \in Worlds :
      \E active \in {None} \cup {e \in w.exist \cap w.scope : Info[e].table = "semesters"} :
        /\ world = w
        /\ rows = [e \in Entities |-> IF e \in w.exist THEN InitialRow(e, active) ELSE None]
        /\ trail = [e \in Entities |->
                      IF e \in w.exist THEN <<Event(None, View(e, InitialRow(e, active)), 0)>>
                      ELSE << >>]
        /\ calls = [c \in Admins |-> Idle]
        /\ answers = [n \in 1 .. MaxCalls |-> NoAnswer]
        /\ made = 0 /\ faults = 0

----
(* Calls and transactions. *)

\* The body is decoded and checked: 400, or the repository is called.
Receive(c, pc, op, valid) ==
    /\ calls[c].pc = "idle"
    /\ made < world.limit
    /\ made' = made + 1
    /\ IF valid
       THEN /\ calls' = [calls EXCEPT ![c] = [Idle EXCEPT !.pc = pc, !.id = made + 1, !.op = op]]
            /\ UNCHANGED answers
       ELSE /\ answers' = [answers EXCEPT ![made + 1] = [NoAnswer EXCEPT !.code = "400"]]
            /\ UNCHANGED calls
    /\ UNCHANGED <<rows, trail, faults>>

\* Mutant: an early return without Rollback leaves the transaction open.
Answer_NoRollback(c, code) ==
    /\ answers' = [answers EXCEPT ![calls[c].id] =
                     [code |-> code, accepted |-> calls[c].accepted,
                      rejected |-> calls[c].rejected]]
    /\ calls' = [calls EXCEPT ![c] = [Idle EXCEPT !.held = calls[c].held]]

\* The call is over and so is its transaction: committed, or rolled back by the
\* deferred Rollback.
Answer(c, code) ==
    /\ answers' = [answers EXCEPT ![calls[c].id] =
                     [code |-> code, accepted |-> calls[c].accepted,
                      rejected |-> calls[c].rejected]]
    /\ calls' = [calls EXCEPT ![c] = Idle]

Refuse(c, code) == Answer(c, code) /\ UNCHANGED <<rows, trail, made, faults>>

Fault == faults < MaxFaults /\ faults' = faults + 1

\* After Commit: the answer, or 500 when the commit was done and its reply was lost.
Done(c, code) ==
    /\ \/ Answer(c, code) /\ UNCHANGED faults
       \/ Fault /\ Answer(c, "500")
    /\ UNCHANGED made

\* A statement fails, the client goes away or the process dies: nothing is committed.
Fail(c) ==
    /\ calls[c].pc \notin {"idle", "import"}
    /\ Fault
    /\ \E code \in {"500", "lost"} : Answer(c, code)
    /\ UNCHANGED <<rows, trail, made>>

\* No other transaction has the row locked.
Free(c, e) == \A d \in Admins \ {c} : e \notin calls[d].held

Step(c, pc, f) == calls' = [calls EXCEPT ![c] = [f EXCEPT !.pc = pc]]

Entity(c) == calls[c].op.e

\* audit.Write, in the transaction of the change.
Write(c, e, prev, next) == trail' = [trail EXCEPT ![e] = Append(@, Event(prev, next, calls[c].id))]

\* Rows of one table that a unique constraint keeps apart: students by e-mail and by
\* document, the others by their key.
Clash(e, f) ==
    /\ Info[e].table = Info[f].table
    /\ IF Info[e].table = "students"
       THEN \E i \in DOMAIN Info[e].key : Info[e].key[i] = Info[f].key[i]
       ELSE e = f

Conflict(e)  == \E f \in Entities : rows[f] # None /\ Clash(e, f)
Dangling(e)  == \E r \in Info[e].refs : rows[r] = None

NewRow(e) == IF Info[e].table = "semesters" THEN [a |-> "DRAFT", b |-> 0] ELSE [a |-> 0, b |-> 1]

\* Mutant: the event is written outside the transaction of the insert.
Insert_AuditOutside(c, conflict, dangling) ==
    LET e == Entity(c)
        code == IF Conflict(e) THEN conflict ELSE dangling
    IN IF Conflict(e) \/ Dangling(e)
       THEN Answer(c, code) /\ Write(c, e, None, None) /\ UNCHANGED <<rows, made, faults>>
       ELSE /\ rows' = [rows EXCEPT ![e] = NewRow(e)]
            /\ Write(c, e, None, View(e, NewRow(e)))
            /\ Done(c, "201")

\* INSERT ... RETURNING, its audit event and Commit.  The insert waits for an unfinished
\* insert of the same key, so it is one step.  Its foreign keys wait for SELECT ... FOR
\* UPDATE of a row they refer to, not for the UPDATE of a semester.
Insert(c, conflict, dangling) ==
    LET e == Entity(c)
    IN /\ \A r \in Info[e].refs : Info[r].table = "semesters" \/ Free(c, r)
       /\ \/ Conflict(e) /\ Refuse(c, conflict)
          \/ ~Conflict(e) /\ Dangling(e) /\ Refuse(c, dangling)
          \/ /\ ~Conflict(e) /\ ~Dangling(e)
             /\ rows' = [rows EXCEPT ![e] = NewRow(e)]
             /\ Write(c, e, None, View(e, NewRow(e)))
             /\ Done(c, "201")

\* COALESCE($n, column)
Patched(row, p) == [a |-> IF p.a = None THEN row.a ELSE p.a,
                    b |-> IF p.b = None THEN row.b ELSE p.b]

\* Mutant: SELECT without FOR UPDATE.
LockRow_NoLock(c, pc, missing) ==
    IF rows[Entity(c)] = None THEN Refuse(c, missing)
    ELSE /\ Step(c, pc, [calls[c] EXCEPT !.before = rows[Entity(c)]])
         /\ UNCHANGED <<rows, trail, answers, made, faults>>

\* SELECT ... FOR UPDATE
LockRow(c, pc, missing) ==
    /\ Free(c, Entity(c))
    /\ IF rows[Entity(c)] = None THEN Refuse(c, missing)
       ELSE /\ Step(c, pc, [calls[c] EXCEPT !.before = rows[Entity(c)], !.held = {Entity(c)}])
            /\ UNCHANGED <<rows, trail, answers, made, faults>>

\* UPDATE ... RETURNING of the locked row, its audit event and Commit.
WriteBack(c, after) ==
    LET e == Entity(c)
    IN /\ Free(c, e)
       /\ rows' = [rows EXCEPT ![e] = after]
       /\ Write(c, e, View(e, calls[c].before), View(e, after))
       /\ Done(c, "200")

\* UPDATE of a row that was not read before, an event that says only that it was
\* updated, and Commit; 500 when a CHECK refuses the row.
UpdateInPlace(c, patch, check) ==
    LET e == Entity(c)
    IN /\ Free(c, e)
       /\ \/ rows[e] = None /\ Refuse(c, "404")
          \/ rows[e] # None /\ ~check /\ Refuse(c, "500")
          \/ /\ rows[e] # None /\ check
             /\ rows' = [rows EXCEPT ![e] = Patched(@, patch)]
             /\ Write(c, e, None, None)
             /\ Done(c, "200")

====
