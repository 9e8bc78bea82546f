---- MODULE Backoffice ----
(***************************************************************************)
(* The administrative endpoints together: concurrent calls on semesters,   *)
(* on the directory and on the catalog, with statements that fail, replies *)
(* to commits that are lost and clients that go away.                      *)
(***************************************************************************)
EXTENDS Semesters, Directory, Catalog, Functions

Posts(c)  == SemesterPosts(c) \/ DirectoryPosts(c) \/ CatalogPosts(c)
Steps(c)  == SemesterStep(c) \/ DirectoryStep(c) \/ CatalogStep(c)
Faults(c) == Fail(c) \/ DirectoryFaults(c)

Next == UNCHANGED world /\ \E c \in Admins : Posts(c) \/ Steps(c) \/ Faults(c)

\* Every request runs in a goroutine of its own, which the scheduler does not neglect.
Fairness == \A c \in Admins : WF_vars(UNCHANGED world /\ Steps(c))

Spec == Init /\ [][Next]_vars /\ Fairness

----
(* Properties. *)

\* There is never more than one ACTIVE semester, however many activations run at once
\* (the two UPDATEs of Activate and uq_one_active_semester).
OneActiveSemester == Cardinality({e \in Table("semesters") : Active(e)}) <= 1

\* Only Close leaves the program without an active semester: an activation that fails,
\* or names a semester that does not exist, has closed nothing (the rollback of Activate).
ActivationKeepsOne ==
    [][ (\E e \in Table("semesters") : Active(e)) =>
          \/ \E e \in Table("semesters") : Active(e)'
          \/ \E c \in Admins : calls[c].pc = "closeSemester" /\ calls'[c].pc = "idle" ]_vars

\* The events that show what the row became.
Valued(e) == {i \in DOMAIN trail[e] : trail[e][i].next # None}

Follows(e, i, j) == i < j /\ \A k \in Valued(e) : k <= i \/ j <= k

Prevless(e) == {i \in Valued(e) : trail[e][i].prev = None}

History(e) ==
    /\ rows[e] = None <=> Valued(e) = {}
    /\ \A i, j \in Valued(e) :
          Follows(e, i, j) =>
             \/ trail[e][j].prev = trail[e][i].next
             \/ Info[e].table = "global_settings" /\ trail[e][j].prev = None
    /\ \A i \in Valued(e) : (\A j \in Valued(e) : j <= i) => trail[e][i].next = View(e, rows[e])
    /\ Cardinality(Prevless(e)) <= Cardinality(Admins)

\* The trail of a row tells its history: it begins with the row and ends with what is
\* stored now, and each event continues the one before, although the previous value is
\* read and the new one written by separate statements (audit.Write in Update, Upsert
\* and AdjustCapacity).  Only upserts of a setting that began before there was one lack
\* a previous value, no more of them than ran at the same time.
AuditTrail == \A e \in Entities : Info[e].table \in Audited => History(e)

Written(n) == UNION {{<<e, i>> : i \in {j \in DOMAIN trail[e] : trail[e][j].call = n}} : e \in Entities}

\* What the administrator is told is what happened: a change that is answered 200 or 201
\* left exactly one event, one that is answered 400, 404 or 409 none (the writeErr and
\* writeDomainError of the handlers, after the commit or the rollback).
AnsweredMeansDone ==
    \A n \in 1 .. MaxCalls :
        /\ answers[n].code \in {"200", "201"} => Cardinality(Written(n)) = 1
        /\ answers[n].code \in {"400", "404", "409"} => Written(n) = {}

\* The counts of an import: every accepted row was created by that import, and no other
\* row was, but for commits whose reply was lost (Service.Import).
ImportReport ==
    \A n \in 1 .. MaxCalls :
        answers[n].code = "202" =>
            LET created == Cardinality(Written(n))
            IN answers[n].accepted <= created /\ created <= answers[n].accepted + faults

\* Every call is answered: no transaction waits for ever for the locks of another one.
CallsAnswered == \A c \in Admins : calls[c].pc # "idle" ~> calls[c].pc = "idle"

----
(* What keeps the safety properties true from step to step. *)

Busy(c) == calls[c].pc # "idle"

\* The tables that the steps of a call are about.
Activating == {"activateThis", "indexEntry", "commitActivation"}
OnSemesters == {"createSemester", "closeSemester", "activate", "closeOthers"} \cup Activating
OnAccounts  == {"createStudent", "lockStudent", "updateStudent",
                "createAdminUser", "lockAdminUser", "updateAdminUser"}
OnGroups    == {"createGroup", "updateGroup", "lockGroup", "adjustCapacity"}
OnSettings  == {"readSetting", "upsertSetting"}
OnOthers    == {"createRecord", "createElective", "updateElective", "createPrerequisite",
                "createOffering", "createOfferingPrereq", "createWindow", "updateWindow"}

\* Each call is at a step of its operation, about a row of the right table.
OpAt(pc, op) ==
    /\ pc \in {"idle", "import"} \cup OnSemesters \cup OnAccounts \cup OnGroups \cup OnSettings
              \cup OnOthers
    /\ pc \notin {"idle", "import"} => op.e \in world.scope
    /\ pc \in OnSemesters => Info[op.e].table = "semesters"
    /\ pc \in OnAccounts => Info[op.e].table \in {"students", "admin_users"}
    /\ pc \in OnGroups => Info[op.e].table = "offering_groups"
    /\ pc \in OnSettings => Info[op.e].table = "global_settings"
    /\ pc \in OnOthers => Info[op.e].table \notin Audited \cup {"semesters"}
    /\ pc \in {"lockStudent", "updateStudent", "lockAdminUser", "updateAdminUser",
               "updateElective", "updateWindow", "updateGroup"} => op.patch \in Row
    /\ pc = "updateGroup" => op.patch.a = None
    /\ pc \in {"lockGroup", "adjustCapacity"} \cup OnSettings => op.value \in Values
    /\ pc = "import" => /\ op.list \in Seq([e : Entities, valid : BOOLEAN])
                        /\ \A i \in DOMAIN op.list : Info[op.list[i].e].table = "students"

OpKept(call) == DOMAIN call = DOMAIN Idle /\ OpAt(call.pc, call.op)

RowKept(e) ==
    \/ rows[e] = None
    \/ Info[e].table = "semesters" /\ rows[e] \in SemesterRow
    \/ /\ Info[e].table # "semesters" /\ rows[e] \in Row
       /\ Info[e].table \in {"global_settings", "offering_groups"} => rows[e].a \in Values

StoreKept ==
    /\ world \in Worlds
    /\ DOMAIN rows = Entities /\ \A e \in Entities : RowKept(e)
    /\ DOMAIN trail = Entities
    /\ \A e \in Entities : trail[e] \in Seq(Range(trail[e]))
    /\ DOMAIN calls = Admins /\ \A c \in Admins : OpKept(calls[c])
    /\ DOMAIN answers = 1 .. MaxCalls
    /\ faults \in Nat

\* A row that a transaction has locked is there, and it is still what the transaction has
\* read.
ReadKept(call) ==
    /\ \A e \in call.held : e \in Entities /\ rows[e] # None
    /\ call.pc \in {"updateStudent", "updateAdminUser", "adjustCapacity"} =>
          call.op.e \in call.held /\ call.before = rows[call.op.e]
    /\ call.pc = "upsertSetting" /\ call.before # None =>
          call.op.e \in call.held /\ call.before = rows[call.op.e]
    /\ call.pc \in {"closeOthers"} \cup Activating => call.closing \subseteq Table("semesters")
    /\ call.pc \in Activating => call.closing \subseteq call.held
    /\ call.pc \in {"indexEntry", "commitActivation"} => call.op.e \in call.held

\* No two transactions have the same row locked.
LocksKept ==
    /\ \A c, d \in Admins : c # d => calls[c].held \cap calls[d].held = {}
    /\ \A c \in Admins : ReadKept(calls[c])

\* One semester is ACTIVE, and the activation that is about to commit, of which there is
\* one at most, closes it.
SemestersKept ==
    /\ \A e, f \in Table("semesters") : Active(e) /\ Active(f) => e = f
    /\ \A c, d \in Admins :
          calls[c].pc = "commitActivation" /\ calls[d].pc = "commitActivation" => c = d
    /\ \A c \in Admins : calls[c].pc = "commitActivation" =>
          \A e \in Table("semesters") \ {Entity(c)} : Active(e) => e \in calls[c].closing

\* Upserts that found no setting, and have not written yet.
Unread(e) == {c \in Admins : calls[c].pc = "upsertSetting" /\ Entity(c) = e /\ calls[c].before = None}

\* An event without a previous value was an upsert of this kind.
HistoryKept(e) ==
    /\ History(e)
    /\ Cardinality(Prevless(e)) + Cardinality(Unread(e)) <= Cardinality(Admins)

TrailKept == \A e \in Entities : Info[e].table \in Audited => HistoryKept(e)

\* A call that is not answered yet has written nothing, unless it is an import, which has
\* written what it has counted and what was lost.
Unanswered(call) ==
    /\ call.id \in 1 .. made /\ answers[call.id].code = None
    /\ call.pc # "import" => Written(call.id) = {}
    /\ call.pc = "import" => /\ call.accepted \in Nat
                             /\ call.accepted <= Cardinality(Written(call.id))
                             /\ Cardinality(Written(call.id)) <= call.accepted + faults

AnswerKept(n) ==
    /\ IsFiniteSet(Written(n))
    /\ n > made => answers[n].code = None /\ Written(n) = {}
    /\ answers[n].code \in {"200", "201"} => Cardinality(Written(n)) = 1
    /\ answers[n].code \in {"400", "404", "409"} => Written(n) = {}
    /\ answers[n].code = "202" => /\ answers[n].accepted \in Nat
                                  /\ answers[n].accepted <= Cardinality(Written(n))
                                  /\ Cardinality(Written(n)) <= answers[n].accepted + faults

AnswersKept ==
    /\ made \in 0 .. MaxCalls
    /\ \A c, d \in Admins : Busy(c) /\ Busy(d) /\ calls[c].id = calls[d].id => c = d
    /\ \A c \in Admins : Busy(c) => Unanswered(calls[c])
    /\ \A n \in 1 .. MaxCalls : AnswerKept(n)

IInv == StoreKept /\ LocksKept /\ SemestersKept /\ TrailKept /\ AnswersKept

====
