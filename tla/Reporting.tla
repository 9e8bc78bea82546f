---- MODULE Reporting ----
(***************************************************************************)
(* Report exports (internal/reporting): an administrator orders one, the   *)
(* worker of some replica claims it, reads the ledger, writes the file and *)
(* marks the export.  A worker whose replica is stopping runs on with a    *)
(* cancelled context: its statements fail, its file operations do not.     *)
(***************************************************************************)
EXTENDS Requests, Replicas

CONSTANT MaxExports     \* bound: the exports of a behaviour

ASSUME ReportingAssumption == MaxExports \in Nat /\ \A b \in Budgets : b.exports <= MaxExports

VARIABLES
    exports,    \* report_exports by requested_at: the status of each
    files,      \* the file of each export: [on, whole], in the directory of a replica, or NoFile
    work,       \* the locals of each replica's worker
    download    \* what the last download was answered

reportVars == <<exports, files, work, download>>

NoWork == [pc |-> "idle", job |-> 0]

NoFile == [on |-> None, whole |-> FALSE]

Partial(p) == [on |-> p, whole |-> FALSE]

ReportingInit ==
    /\ exports = << >> /\ files = << >>
    /\ work = [p \in Replicas |-> NoWork]
    /\ download = [code |-> "none", file |-> NoFile]

----
\* POST /reports: the type, the format and a semester, or 400.
CreateExport ==
    /\ Spend("exports")
    /\ exports' = Append(exports, "REQUESTED")
    /\ files' = Append(files, NoFile)
    /\ UNCHANGED <<work, download>>

\* Mutant: the oldest export is looked at, whatever its status.
ClaimNext_OldestOnly(p) ==
    /\ life[p] = "up" /\ work[p].pc = "idle"
    /\ exports # << >> /\ exports[1] = "REQUESTED"
    /\ exports' = [exports EXCEPT ![1] = "PROCESSING"]
    /\ work' = [work EXCEPT ![p] = [pc |-> "fetch", job |-> 1]]
    /\ UNCHANGED <<files, download>>

\* The oldest REQUESTED export, FOR UPDATE SKIP LOCKED.
Claim(p, n) ==
    /\ life[p] = "up" /\ work[p].pc = "idle"
    /\ exports[n] = "REQUESTED"
    /\ \A m \in 1 .. n - 1 : exports[m] # "REQUESTED"
    /\ exports' = [exports EXCEPT ![n] = "PROCESSING"]
    /\ UNCHANGED <<files, download>>

ClaimNext(p) ==
    \E n \in DOMAIN exports :
        /\ Claim(p, n)
        /\ work' = [work EXCEPT ![p] = [pc |-> "fetch", job |-> n]]

\* The statement commits and its reply is lost: processOne returns the error, and the
\* export is PROCESSING with nobody at work on it.
ClaimLost(p) ==
    /\ \E n \in DOMAIN exports : Claim(p, n)
    /\ Fault
    /\ UNCHANGED work

\* One statement reads the rows of the report, whatever its type; it fails when the replica
\* is stopping.
Fetch(p) ==
    /\ work[p].pc = "fetch"
    /\ work' = [work EXCEPT ![p].pc = IF life[p] = "up" THEN "write" ELSE "fail"]
    /\ UNCHANGED <<exports, files, download>>

\* writeXLSX or writePDF
WriteFile(p) ==
    /\ work[p].pc = "write"
    /\ files' = [files EXCEPT ![work[p].job] = [on |-> p, whole |-> TRUE]]
    /\ work' = [work EXCEPT ![p].pc = "complete"]
    /\ UNCHANGED <<exports, download>>

\* The statement fails, or the directory or the file cannot be written.
GenerateFails(p) ==
    /\ work[p].pc \in {"fetch", "write"}
    /\ Fault
    /\ files' = IF work[p].pc = "write" THEN [files EXCEPT ![work[p].job] = Partial(p)] ELSE files
    /\ work' = [work EXCEPT ![p].pc = "fail"]
    /\ UNCHANGED <<exports, download>>

\* The status, unless the replica is stopping: then the update fails and is only logged.
Mark(p, pc, status) ==
    /\ work[p].pc = pc
    /\ exports' = IF life[p] = "up" THEN [exports EXCEPT ![work[p].job] = status] ELSE exports
    /\ work' = [work EXCEPT ![p] = NoWork]
    /\ UNCHANGED <<files, download>>

MarkCompleted(p) == Mark(p, "complete", "COMPLETED")

\* Mutant: the return after MarkFailed is missing.
MarkFailed_FallsThrough(p) == Mark(p, "fail", "COMPLETED")

MarkFailed(p) == Mark(p, "fail", "FAILED")

\* The update is lost.
MarkLost(p) ==
    /\ work[p].pc \in {"complete", "fail"}
    /\ Fault
    /\ work' = [work EXCEPT ![p] = NoWork]
    /\ UNCHANGED <<exports, files, download>>

\* The process dies; a file that was being written is left unfinished.
WorkerDies(p) ==
    /\ files' = IF work[p].pc = "write" THEN [files EXCEPT ![work[p].job] = Partial(p)] ELSE files
    /\ work' = [work EXCEPT ![p] = NoWork]
    /\ UNCHANGED <<exports, download>>

\* GET /reports/{id}/download: 409 until the export is COMPLETED, 404 from a replica
\* whose directory does not have the file.
Download ==
    /\ \E n \in DOMAIN exports, p \in {q \in Replicas : life[q] = "up"} :
          download' = CASE exports[n] # "COMPLETED" -> [code |-> "409", file |-> NoFile]
                        [] files[n].on # p -> [code |-> "404", file |-> NoFile]
                        [] OTHER -> [code |-> "200", file |-> files[n]]
    /\ UNCHANGED <<exports, files, work>>

ReportStep(p) == ClaimNext(p) \/ Fetch(p) \/ WriteFile(p) \/ MarkCompleted(p) \/ MarkFailed(p)

----
(* Properties. *)

JobOf(n) == {p \in Replicas : work[p].pc # "idle" /\ work[p].job = n}

Orphaned(n) == exports[n] = "PROCESSING" /\ JobOf(n) = {}

Settled(n) == exports[n] \in {"COMPLETED", "FAILED"}

\* Every export is accounted for: while it is PROCESSING exactly one worker has it, unless
\* a fault or a stop left it behind, once for each export; a COMPLETED export has a whole
\* file, and no worker touches a finished one again (processOne).
ExportsAccounted ==
    /\ \A n \in DOMAIN exports :
          /\ Cardinality(JobOf(n)) <= 1
          /\ JobOf(n) # {} => exports[n] = "PROCESSING"
          /\ exports[n] = "COMPLETED" => files[n].whole
    /\ Cardinality({n \in DOMAIN exports : Orphaned(n)}) <= faults + stops
    /\ download.code = "200" => download.file.whole

\* The queue is drained: as long as some replica stays up, every export that is ordered is
\* completed or fails, or it was taken by a worker that a fault, a crash or a shutdown of
\* its replica then kept from marking it (Worker.Run).
ExportsSettle ==
    \A n \in 1 .. MaxExports :
        n \in DOMAIN exports ~>
            \/ n \in DOMAIN exports /\ (Settled(n) \/ (Orphaned(n) /\ faults + stops > 0))
            \/ \A p \in Replicas : life[p] = "down"

\* A worker that comes to the end of its job without a fault or a crash has settled it: a
\* replica that is told to stop lets it finish (main.go: "let the workers finish their
\* current batch"), and a job whose generation fails is FAILED (worker.go: "The job was
\* handled (moved to FAILED)").
JobsFinished ==
    [][\A p \in Replicas :
          ReportStep(p) /\ work[p].pc # "idle" /\ work'[p].pc = "idle"
              => exports'[work[p].job] \in {"COMPLETED", "FAILED"}]_reportVars

----
(* What keeps ExportsAccounted true from step to step. *)

Busy(p) == work[p].pc # "idle"

Orphans == {n \in DOMAIN exports : Orphaned(n)}

\* A worker of a replica that is stopping cannot mark its export any more: the stop has
\* left it behind already.
Leaving == {p \in Replicas : Busy(p) /\ life[p] = "stopping"}

\* A worker has an export that is PROCESSING, alone, and has written its file by the time
\* it completes it.
JobsHeld ==
    /\ exports \in Seq({"REQUESTED", "PROCESSING", "COMPLETED", "FAILED"})
    /\ files \in Seq(Range(files)) /\ Len(files) = Len(exports)
    /\ DOMAIN work = Replicas /\ work = [p \in Replicas |-> work[p]]
    /\ \A p \in Replicas :
          /\ DOMAIN work[p] = DOMAIN NoWork
          /\ work[p].pc \in {"idle", "fetch", "write", "complete", "fail"}
          /\ Busy(p) => /\ life[p] \in {"up", "stopping"}
                        /\ work[p].job \in DOMAIN exports
                        /\ exports[work[p].job] = "PROCESSING"
          /\ work[p].pc = "complete" => files[work[p].job].whole
    /\ \A p, q \in Replicas : Busy(p) /\ Busy(q) /\ work[p].job = work[q].job => p = q
    /\ \A n \in DOMAIN exports : exports[n] = "COMPLETED" => files[n].whole
    /\ download.code = "200" => download.file.whole

OrphansCounted == Cardinality(Orphans) + Cardinality(Leaving) <= faults + stops

ReportingInv == JobsHeld /\ OrphansCounted

====
