---- MODULE ProgramProofs ----
(***************************************************************************)
(* Proofs about Program, for every number of students, groups, calls,      *)
(* replicas, migrations and exports.  Each component has an invariant of   *)
(* its own, kept by the steps of that component and blind to the others;   *)
(* IInv is their conjunction.                                              *)
(***************************************************************************)
EXTENDS Program, TLAPS, SequenceTheorems, FiniteSetTheorems

----
(* The replicas. *)

\* A process that starts, stops or dies keeps the invariant of the replicas (main and
\* RunMigrations): the lock keeps the others off the schema, and applying a migration
\* finds the schema incomplete, so nobody serves yet.
LEMMA ReplicaStep ==
    ASSUME ReplicasInv, NEW p \in Replicas,
           StartStep(p) \/ Boot(p) \/ ApplyFails(p) \/ Shutdown(p) \/ Exit(p) \/ Crash(p)
    PROVE  ReplicasInv'
<1> USE ReplicasAssumption DEF ReplicasInv, Move, Stops
<1>1. CASE Connect(p)
  BY <1>1 DEF Connect
<1>2. CASE Lock(p)
  BY <1>2, LenProperties DEF Lock
<1>3. CASE CheckVersion(p)
  <2>1. CASE \E i \in DOMAIN applied : applied[i] = at[p]
    BY <1>3, <2>1, LenProperties DEF CheckVersion
  <2>2. CASE ~ \E i \in DOMAIN applied : applied[i] = at[p]
    <3>1. DOMAIN applied = 1 .. Len(applied) /\ Len(applied) \in Nat
      BY LenProperties
    <3>2. at[p] \in 1 .. Len(applied) + 1 /\ at[p] <= LastVersion
      BY <1>3 DEF CheckVersion
    <3>3. at[p] \notin 1 .. Len(applied)
      BY <2>2, <3>1
    <3>4. at[p] = Len(applied) + 1
      <4>1. \A a, k \in Nat : a \in 1 .. k + 1 /\ a \notin 1 .. k => a = k + 1
        OBVIOUS
      <4> QED
        BY <3>1, <3>2, <3>3, <4>1
    <3> QED
      BY <1>3, <2>2, <3>2, <3>4 DEF CheckVersion
  <2> QED
    BY <2>1, <2>2
<1>4. ASSUME life[p] = "applying"
      PROVE  /\ Append(applied, at[p]) \in Seq(Nat)
             /\ Len(Append(applied, at[p])) = Len(applied) + 1
             /\ Len(applied) + 1 <= LastVersion /\ at[p] = Len(applied) + 1
             /\ \A i \in DOMAIN Append(applied, at[p]) : Append(applied, at[p])[i] = i
             /\ \A q \in Replicas : life[q] \notin {"up", "stopping"}
             /\ \A q \in Replicas \ {p} : life[q] \notin {"checking", "applying"}
             /\ Len(applied) \in Nat
  BY <1>4, AppendProperties, LenProperties
<1>5. CASE ApplyVersion(p)
  BY <1>4, <1>5 DEF ApplyVersion
<1>6. CASE MigrationsApplied(p)
  <2>1. Len(applied) \in Nat /\ at[p] > LastVersion /\ at[p] \in 1 .. Len(applied) + 1
    BY <1>6, LenProperties DEF MigrationsApplied
  <2>2. Len(applied) = LastVersion
    BY <2>1
  <2>3. \A q \in Replicas \ {p} : life[q] \notin {"checking", "applying"}
    BY <1>6 DEF MigrationsApplied
  <2> QED
    BY <1>6, <2>2, <2>3 DEF MigrationsApplied
<1>7. CASE Boot(p)
  BY <1>7 DEF Boot
<1>8. CASE ApplyFails(p)
  <2>1. life[p] = "applying" /\ migrator' = Unlocked /\ Len(applied) \in Nat
    BY <1>8, LenProperties DEF ApplyFails
  <2>2. /\ applied' \in Seq(Nat) /\ Len(applied') <= LastVersion
        /\ \A i \in DOMAIN applied' : applied'[i] = i
    BY <1>4, <1>8, <2>1 DEF ApplyFails
  <2>3. \A q \in Replicas : life'[q] \notin {"checking", "applying", "up", "stopping"}
    BY <1>4, <1>8, <2>1 DEF ApplyFails
  <2> QED
    BY <1>8, <2>1, <2>2, <2>3 DEF ApplyFails
<1>9. CASE Shutdown(p) \/ Exit(p)
  BY <1>9 DEF Shutdown, Exit
<1>10. CASE Crash(p)
  BY <1>10 DEF Crash
<1> QED
  BY <1>1, <1>2, <1>3, <1>5, <1>6, <1>7, <1>8, <1>9, <1>10 DEF StartStep

LEMMA ReplicasStay ==
    ASSUME ReplicasInv, UNCHANGED replicaVars
    PROVE  ReplicasInv'
  BY DEF ReplicasInv, replicaVars

----
(* The exports. *)

\* A sequence is a sequence of its own elements.
LEMMA OwnElements ==
    ASSUME NEW S, NEW g \in Seq(S)
    PROVE  g \in Seq(Range(g))
<1>1. /\ Len(g) \in Nat /\ DOMAIN g = 1 .. Len(g)
      /\ g = [n \in 1 .. Len(g) |-> g[n]] /\ \A n \in 1 .. Len(g) : g[n] \in Range(g)
  BY LenProperties DEF Range
<1>2. g \in [1 .. Len(g) -> Range(g)]
  BY <1>1
<1> QED
  BY <1>1, <1>2, SeqDef

\* A sequence of files with one more, and with one of them written anew.
LEMMA FileAdded ==
    ASSUME NEW f, NEW x, f \in Seq(Range(f))
    PROVE  /\ Append(f, x) \in Seq(Range(Append(f, x))) /\ Len(Append(f, x)) = Len(f) + 1
           /\ \A n \in DOMAIN f : Append(f, x)[n] = f[n]
<1> DEFINE S == Range(f) \cup {x}
<1> PICK g : g = Append(f, x)
  OBVIOUS
<1>1. f \in Seq(S) /\ DOMAIN f = 1 .. Len(f) /\ Len(f) \in Nat
  BY LenProperties
<1>2. g \in Seq(S) /\ Len(g) = Len(f) + 1 /\ \A n \in DOMAIN f : g[n] = f[n]
  BY <1>1, AppendProperties, LenProperties
<1>3. g \in Seq(Range(g))
  BY <1>2, OwnElements
<1> QED
  BY <1>2, <1>3, Zenon

LEMMA FileWritten ==
    ASSUME NEW f, NEW g, NEW n, NEW x, f \in Seq(Range(f)), n \in DOMAIN f, g = [f EXCEPT ![n] = x]
    PROVE  /\ g \in Seq(Range(g)) /\ Len(g) = Len(f)
           /\ \A m \in DOMAIN f : m # n => g[m] = f[m]
<1> DEFINE S == Range(f) \cup {x}
<1>1. f \in Seq(S) /\ DOMAIN f = 1 .. Len(f) /\ Len(f) \in Nat
  BY LenProperties
<1>2. /\ g \in Seq(S) /\ Len(g) = Len(f) /\ DOMAIN g = DOMAIN f
      /\ \A m \in DOMAIN f : m # n => g[m] = f[m]
  BY <1>1, ExceptSeq, LenProperties
<1>3. g \in Seq(Range(g))
  BY <1>2, OwnElements
<1> QED
  BY <1>2, <1>3, Zenon

LEMMA FileRewritten ==
    ASSUME NEW n, NEW x, files \in Seq(Range(files)), n \in DOMAIN files,
           files' = [files EXCEPT ![n] = x]
    PROVE  /\ files' \in Seq(Range(files')) /\ Len(files') = Len(files)
           /\ \A m \in DOMAIN files : m # n => files'[m] = files[m]
<1>1. PICK f : f = files
  OBVIOUS
<1>2. PICK g : g = [f EXCEPT ![n] = x]
  OBVIOUS
<1>3. f \in Seq(Range(f)) /\ n \in DOMAIN f /\ files' = g
  BY <1>1, <1>2
<1>4. g \in Seq(Range(g)) /\ Len(g) = Len(f) /\ \A m \in DOMAIN f : m # n => g[m] = f[m]
  BY <1>2, <1>3, FileWritten
<1> QED
  BY <1>1, <1>3, <1>4

\* What counting the exports left behind needs: at most one element comes, and it comes
\* in the place of one that goes or is paid for.
LEMMA OneMore ==
    ASSUME NEW S, NEW T, NEW x, IsFiniteSet(S), T \subseteq S \cup {x}
    PROVE  /\ IsFiniteSet(T) /\ Cardinality(T) \in Nat /\ Cardinality(S) \in Nat
           /\ Cardinality(T) <= Cardinality(S) + 1
           /\ T \subseteq S => Cardinality(T) <= Cardinality(S)
           /\ x \in S /\ x \notin T => Cardinality(T) + 1 <= Cardinality(S)
<1>1. /\ IsFiniteSet(S \cup {x})
      /\ Cardinality(S \cup {x}) = IF x \in S THEN Cardinality(S) ELSE Cardinality(S) + 1
  BY FS_AddElement
<1>2. IsFiniteSet(T) /\ Cardinality(T) <= Cardinality(S \cup {x})
  BY <1>1, FS_Subset
<1>3. Cardinality(T) \in Nat /\ Cardinality(S) \in Nat
  BY <1>2, FS_CardinalityType
<1>4. T \subseteq S => Cardinality(T) <= Cardinality(S)
  BY FS_Subset
<1>5. ASSUME x \in S, x \notin T
      PROVE  Cardinality(T) + 1 <= Cardinality(S)
  <2>1. IsFiniteSet(S \ {x}) /\ Cardinality(S \ {x}) = Cardinality(S) - 1
    BY <1>5, FS_RemoveElement
  <2>2. T \subseteq S \ {x}
    BY <1>5
  <2>3. Cardinality(T) <= Cardinality(S \ {x})
    BY <2>1, <2>2, FS_Subset
  <2> QED
    BY <1>3, <2>1, <2>3
<1> QED
  BY <1>1, <1>2, <1>3, <1>4, <1>5

\* The exports that are left behind and the workers that are leaving are finitely many.
LEMMA CountsFinite ==
    ASSUME JobsHeld
    PROVE  /\ IsFiniteSet(Orphans) /\ Cardinality(Orphans) \in Nat
           /\ IsFiniteSet(Leaving) /\ Cardinality(Leaving) \in Nat
<1>1. DOMAIN exports = 1 .. Len(exports) /\ Len(exports) \in Nat
  BY LenProperties DEF JobsHeld
<1>2. IsFiniteSet(1 .. Len(exports))
  BY <1>1, FS_Interval
<1>3. Orphans \subseteq 1 .. Len(exports) /\ Leaving \subseteq Replicas
  BY <1>1 DEF Orphans, Leaving
<1> QED
  BY <1>2, <1>3, ReplicasAssumption, FS_Subset, FS_CardinalityType

Export == {"REQUESTED", "PROCESSING", "COMPLETED", "FAILED"}

\* An export whose status is set stays in its place, and so do the others.
LEMMA ExportMarked ==
    ASSUME exports \in Seq(Export), NEW n \in DOMAIN exports,
           NEW st \in {"REQUESTED", "PROCESSING", "COMPLETED", "FAILED"},
           exports' = [exports EXCEPT ![n] = st]
    PROVE  /\ exports' \in Seq(Export) /\ Len(exports') = Len(exports)
           /\ DOMAIN exports' = DOMAIN exports /\ exports'[n] = st
           /\ \A m \in DOMAIN exports : m # n => exports'[m] = exports[m]
<1>1. DOMAIN exports = 1 .. Len(exports) /\ st \in Export
  BY LenProperties DEF Export
<1> QED
  BY <1>1, ExceptSeq, LenProperties

\* A busy worker that goes on with its export (Fetch, WriteFile, GenerateFails): the file
\* of the export may be written, and it is whole when the worker is about to complete it.
LEMMA GoesOn ==
    ASSUME JobsHeld, NEW p \in Replicas, Busy(p), NEW w,
           DOMAIN w = DOMAIN NoWork, w.pc \in {"fetch", "write", "complete", "fail"},
           w.job = work[p].job, work' = [work EXCEPT ![p] = w],
           files' = files \/ \E x : files' = [files EXCEPT ![w.job] = x],
           w.pc = "complete" => files'[w.job].whole,
           UNCHANGED <<exports, life, download>>
    PROVE  JobsHeld' /\ Orphans' = Orphans /\ Leaving' = Leaving
<1>1. /\ exports \in Seq(Export) /\ DOMAIN exports = 1 .. Len(exports)
      /\ DOMAIN files = DOMAIN exports /\ w.job \in DOMAIN exports
      /\ exports[w.job] = "PROCESSING"
  BY LenProperties DEF JobsHeld, Export
<1>2. /\ files' \in Seq(Range(files')) /\ Len(files') = Len(files)
      /\ \A m \in DOMAIN exports : m # w.job => files'[m] = files[m]
  <2>1. CASE files' = files
    BY <2>1 DEF JobsHeld
  <2>2. ASSUME NEW x, files' = [files EXCEPT ![w.job] = x]
        PROVE  /\ files' \in Seq(Range(files')) /\ Len(files') = Len(files)
               /\ \A m \in DOMAIN files : m # w.job => files'[m] = files[m]
    <3>1. files \in Seq(Range(files)) /\ w.job \in DOMAIN files
      BY <1>1 DEF JobsHeld
    <3> QED
      BY <2>2, <3>1, FileRewritten
  <2> QED
    BY <1>1, <2>1, <2>2
<1>3. work'[p] = w /\ \A q \in Replicas : q # p => work'[q] = work[q]
  BY DEF JobsHeld
<1>4. \A q \in Replicas : Busy(q)' <=> Busy(q)
  BY <1>3 DEF Busy
<1>5. \A q \in Replicas : work'[q].job = work[q].job
  BY <1>3
<1>6. \A q \in Replicas : work'[q].pc = "complete" => files'[work'[q].job].whole
  BY <1>1, <1>2, <1>3 DEF JobsHeld, Busy
<1>7. \A n \in DOMAIN exports : exports[n] = "COMPLETED" => files'[n].whole
  BY <1>1, <1>2 DEF JobsHeld
<1>8. JobsHeld'
  BY <1>2, <1>3, <1>4, <1>5, <1>6, <1>7 DEF JobsHeld
<1>9. \A n : JobOf(n)' = JobOf(n)
  BY <1>4, <1>5 DEF JobOf, Busy
<1>10. Orphans' = Orphans
  BY <1>9 DEF Orphans, Orphaned
<1>11. Leaving' = Leaving
  BY <1>4 DEF Leaving
<1> QED
  BY <1>8, <1>10, <1>11

\* The export that a worker has is marked, or nothing is.
MarkedOrNot(p, j) ==
    \/ exports' = exports
    \/ /\ Busy(p) /\ exports' \in Seq(Export) /\ Len(exports') = Len(exports)
       /\ DOMAIN exports' = DOMAIN exports /\ exports'[j] \in {"COMPLETED", "FAILED"}
       /\ \A m \in DOMAIN exports : m # j => exports'[m] = exports[m]
       /\ exports'[j] = "COMPLETED" => files'[j].whole

\* A worker that lets go of its export, marked or not (MarkCompleted, MarkFailed, MarkLost,
\* a crash): at most this export is left behind, and the worker is not leaving any more.
LEMMA LetsGo ==
    ASSUME NEW p \in Replicas, NEW j, JobsHeld, j = work[p].job,
           work' = [work EXCEPT ![p] = NoWork],
           \A q \in Replicas \ {p} : life'[q] = life[q],
           MarkedOrNot(p, j),
           files' = files \/ (Busy(p) /\ \E x : files' = [files EXCEPT ![j] = x]),
           UNCHANGED download
    PROVE  /\ JobsHeld'
           /\ Leaving' \subseteq Leaving \ {p}
           /\ Orphans' \subseteq Orphans \cup {j}
           /\ (exports' # exports \/ ~Busy(p)) => Orphans' \subseteq Orphans
<1>1. /\ exports \in Seq(Export) /\ DOMAIN exports = 1 .. Len(exports)
      /\ DOMAIN files = DOMAIN exports
      /\ Busy(p) => j \in DOMAIN exports /\ exports[j] = "PROCESSING"
  BY LenProperties DEF JobsHeld, Export
<1>2. /\ files' \in Seq(Range(files')) /\ Len(files') = Len(files)
      /\ \A m \in DOMAIN exports : (~Busy(p) \/ m # j) => files'[m] = files[m]
  <2>1. CASE files' = files
    BY <2>1 DEF JobsHeld
  <2>2. ASSUME Busy(p), NEW x, files' = [files EXCEPT ![j] = x]
        PROVE  /\ files' \in Seq(Range(files')) /\ Len(files') = Len(files)
               /\ \A m \in DOMAIN files : m # j => files'[m] = files[m]
    <3>1. files \in Seq(Range(files)) /\ j \in DOMAIN files
      BY <1>1, <2>2 DEF JobsHeld
    <3> QED
      BY <2>2, <3>1, FileRewritten
  <2> QED
    BY <1>1, <2>1, <2>2
<1>3. /\ exports' \in Seq(Export) /\ Len(exports') = Len(exports) /\ DOMAIN exports' = DOMAIN exports
      /\ \A m \in DOMAIN exports : (~Busy(p) \/ m # j) => exports'[m] = exports[m]
      /\ exports' # exports => Busy(p) /\ exports'[j] \in {"COMPLETED", "FAILED"}
      /\ exports' # exports /\ exports'[j] = "COMPLETED" => files'[j].whole
  BY <1>1 DEF MarkedOrNot
<1>4. work'[p] = NoWork /\ \A q \in Replicas : q # p => work'[q] = work[q]
  BY DEF JobsHeld
<1>5. ~Busy(p)' /\ \A q \in Replicas : q # p => (Busy(q)' <=> Busy(q))
  BY <1>4 DEF Busy, NoWork
<1>6. \A q \in Replicas : Busy(q)' => work[q].job # j \/ ~Busy(p)
  BY <1>5 DEF JobsHeld
<1>7. \A q \in Replicas :
          Busy(q)' => /\ work'[q] = work[q] /\ life'[q] = life[q] /\ Busy(q)
                      /\ exports'[work[q].job] = exports[work[q].job]
                      /\ files'[work[q].job] = files[work[q].job]
  BY <1>2, <1>3, <1>4, <1>5, <1>6 DEF JobsHeld
<1>8. \A n \in DOMAIN exports : exports'[n] = "COMPLETED" => files'[n].whole
  BY <1>1, <1>2, <1>3 DEF JobsHeld
<1>9. \A q \in Replicas : /\ DOMAIN work'[q] = DOMAIN NoWork
                          /\ work'[q].pc \in {"idle", "fetch", "write", "complete", "fail"}
                          /\ work'[q].pc = "complete" => Busy(q)'
  BY <1>4 DEF JobsHeld, NoWork, Busy
<1>10. JobsHeld'
  <2>1. \A q \in Replicas : Busy(q)' => /\ life'[q] \in {"up", "stopping"}
                                        /\ work'[q].job \in DOMAIN exports'
                                        /\ exports'[work'[q].job] = "PROCESSING"
    BY <1>3, <1>7 DEF JobsHeld
  <2>2. \A q \in Replicas : work'[q].pc = "complete" => files'[work'[q].job].whole
    BY <1>7, <1>9 DEF JobsHeld
  <2>3. \A q, r \in Replicas : Busy(q)' /\ Busy(r)' /\ work'[q].job = work'[r].job => q = r
    BY <1>7 DEF JobsHeld
  <2>4. DOMAIN work' = Replicas /\ work' = [q \in Replicas |-> work'[q]]
    BY DEF JobsHeld
  <2>5. download'.code = "200" => download'.file.whole
    BY DEF JobsHeld
  <2>6. Len(files') = Len(exports')
    BY <1>2, <1>3 DEF JobsHeld
  <2> QED
    BY <1>2, <1>3, <1>8, <1>9, <2>1, <2>2, <2>3, <2>4, <2>5, <2>6 DEF JobsHeld, Export
<1>11. Leaving' \subseteq Leaving \ {p}
  BY <1>5, <1>7 DEF Leaving
<1>12. \A n : (n # j \/ ~Busy(p)) => JobOf(n)' = JobOf(n)
  BY <1>4, <1>5, <1>7 DEF JobOf, Busy
<1>13. \A n \in DOMAIN exports : (n # j \/ ~Busy(p)) => (Orphaned(n)' <=> Orphaned(n))
  BY <1>3, <1>12 DEF Orphaned
<1>14. exports' # exports => ~Orphaned(j)'
  BY <1>3 DEF Orphaned
<1> QED
  BY <1>3, <1>10, <1>11, <1>13, <1>14 DEF Orphans

\* The count of what is left behind: an export that joins it is paid for by a fault or a
\* stop, or takes the place of the worker that was leaving with it.
LEMMA Recounted ==
    ASSUME NEW j, NEW p, ReportingInv, faults + stops \in Nat, faults' + stops' \in Nat,
           \/ /\ Orphans' \subseteq Orphans /\ Leaving' \subseteq Leaving
              /\ faults' + stops' >= faults + stops
           \/ /\ \/ Orphans' \subseteq Orphans /\ Leaving' \subseteq Leaving \cup {p}
                 \/ Orphans' \subseteq Orphans \cup {j} /\ Leaving' \subseteq Leaving
              /\ faults' + stops' = faults + stops + 1
           \/ /\ Orphans' \subseteq Orphans \cup {j}
              /\ p \in Leaving /\ Leaving' \subseteq Leaving \ {p}
              /\ faults' + stops' = faults + stops
    PROVE  OrphansCounted'
<1>1. IsFiniteSet(Orphans) /\ IsFiniteSet(Leaving)
  BY CountsFinite DEF ReportingInv
<1>2. Orphans' \subseteq Orphans \cup {j} /\ Leaving' \subseteq Leaving \cup {p}
  OBVIOUS
<1>3. /\ Cardinality(Orphans') \in Nat /\ Cardinality(Orphans) \in Nat
      /\ Cardinality(Orphans') <= Cardinality(Orphans) + 1
      /\ Orphans' \subseteq Orphans => Cardinality(Orphans') <= Cardinality(Orphans)
  BY <1>1, <1>2, OneMore, Zenon
<1>4. /\ Cardinality(Leaving') \in Nat /\ Cardinality(Leaving) \in Nat
      /\ Cardinality(Leaving') <= Cardinality(Leaving) + 1
      /\ Leaving' \subseteq Leaving => Cardinality(Leaving') <= Cardinality(Leaving)
      /\ p \in Leaving /\ p \notin Leaving' => Cardinality(Leaving') + 1 <= Cardinality(Leaving)
  BY <1>1, <1>2, OneMore, Zenon
<1>5. Cardinality(Orphans) + Cardinality(Leaving) <= faults + stops
  BY DEF ReportingInv, OrphansCounted
<1>6. Cardinality(Orphans') + Cardinality(Leaving') <= faults' + stops'
  BY <1>3, <1>4, <1>5
<1> QED
  BY <1>6 DEF OrphansCounted

\* An export that is ordered has no file yet and is nobody's (CreateExport).
LEMMA CreateStep ==
    ASSUME JobsHeld, CreateExport, UNCHANGED life
    PROVE  JobsHeld' /\ Orphans' \subseteq Orphans /\ Leaving' = Leaving
<1>1. /\ exports' = Append(exports, "REQUESTED")
      /\ files' = Append(files, NoFile)
  BY DEF CreateExport
<1>2. UNCHANGED <<work, download>>
  BY DEF CreateExport
<1>3. /\ exports \in Seq(Export) /\ DOMAIN exports = 1 .. Len(exports) /\ Len(exports) \in Nat
      /\ DOMAIN files = DOMAIN exports /\ files \in Seq(Range(files)) /\ Len(files) = Len(exports)
  BY LenProperties DEF JobsHeld, Export
<1>4. PICK e : e = "REQUESTED"
  OBVIOUS
<1>5. e \in Export /\ e = "REQUESTED"
  BY <1>4 DEF Export
<1>6. /\ exports' \in Seq(Export) /\ Len(exports') = Len(exports) + 1
      /\ DOMAIN exports' = 1 .. Len(exports) + 1 /\ exports'[Len(exports) + 1] = e
      /\ \A n \in DOMAIN exports : exports'[n] = exports[n]
  BY <1>1, <1>3, <1>4, <1>5, AppendProperties, LenProperties
<1>7. /\ files' \in Seq(Range(files')) /\ Len(files') = Len(files) + 1
      /\ \A n \in DOMAIN files : files'[n] = files[n]
  BY <1>1, <1>3, FileAdded, Zenon
<1>8. \A n \in DOMAIN exports' : n \in DOMAIN exports \/ exports'[n] = "REQUESTED"
  BY <1>3, <1>5, <1>6
<1>9. DOMAIN exports \subseteq DOMAIN exports'
  BY <1>3, <1>6
<1>10. \A p \in Replicas : Busy(p)' <=> Busy(p)
  BY <1>2 DEF Busy
<1>11. JobsHeld'
  <2>1. \A p \in Replicas :
          /\ Busy(p)' => /\ work'[p].job \in DOMAIN exports'
                         /\ exports'[work'[p].job] = "PROCESSING"
          /\ work'[p].pc = "complete" => files'[work'[p].job].whole
    BY <1>2, <1>3, <1>6, <1>7, <1>9, <1>10 DEF JobsHeld, Busy
  <2>2. \A n \in DOMAIN exports' : exports'[n] = "COMPLETED" => files'[n].whole
    BY <1>3, <1>6, <1>7, <1>8 DEF JobsHeld
  <2> QED
    BY <1>2, <1>3, <1>6, <1>7, <1>10, <2>1, <2>2 DEF JobsHeld, Export
<1>12. \A n : JobOf(n)' = JobOf(n)
  BY <1>2 DEF JobOf
<1>13. Orphans' \subseteq Orphans
  BY <1>6, <1>8, <1>12 DEF Orphans, Orphaned
<1>14. Leaving' = Leaving
  BY <1>10 DEF Leaving
<1> QED
  BY <1>11, <1>13, <1>14

\* A worker that claims an export is the only one that has it (ClaimNext): it was
\* REQUESTED, and what others have is PROCESSING.
LEMMA ClaimStep ==
    ASSUME JobsHeld, NEW p \in Replicas, ClaimNext(p), UNCHANGED life
    PROVE  JobsHeld' /\ Orphans' \subseteq Orphans /\ Leaving' = Leaving
<1>1. PICK n \in DOMAIN exports :
          /\ exports[n] = "REQUESTED"
          /\ exports' = [exports EXCEPT ![n] = "PROCESSING"]
          /\ work' = [work EXCEPT ![p] = [pc |-> "fetch", job |-> n]]
  BY DEF ClaimNext, Claim
<1>2. life[p] = "up" /\ ~Busy(p) /\ UNCHANGED <<files, download>>
  BY DEF ClaimNext, Claim, Busy
<1>3. exports \in Seq(Export) /\ Len(files) = Len(exports)
  BY DEF JobsHeld, Export
<1>4. /\ exports' \in Seq(Export) /\ Len(exports') = Len(exports)
      /\ DOMAIN exports' = DOMAIN exports /\ exports'[n] = "PROCESSING"
      /\ \A m \in DOMAIN exports : m # n => exports'[m] = exports[m]
  BY <1>1, <1>3, ExportMarked
<1>5. PICK w : w = [pc |-> "fetch", job |-> n]
  OBVIOUS
<1>6. DOMAIN w = DOMAIN NoWork /\ w.pc = "fetch" /\ w.job = n
  BY <1>5 DEF NoWork
<1>7. work'[p] = w /\ \A q \in Replicas : q # p => work'[q] = work[q]
  BY <1>1, <1>5 DEF JobsHeld
<1>8. Busy(p)' /\ \A q \in Replicas : q # p => (Busy(q)' <=> Busy(q))
  BY <1>6, <1>7 DEF Busy
<1>9. \A q \in Replicas : Busy(q) => q # p /\ work[q].job # n
  BY <1>1, <1>2 DEF JobsHeld
<1>10. JobsHeld'
  <2>1. \A q \in Replicas : Busy(q)' => /\ life'[q] \in {"up", "stopping"}
                                        /\ work'[q].job \in DOMAIN exports'
                                        /\ exports'[work'[q].job] = "PROCESSING"
    BY <1>2, <1>4, <1>6, <1>7, <1>8, <1>9 DEF JobsHeld
  <2>2. \A q \in Replicas : work'[q].pc = "complete" => files'[work'[q].job].whole
    BY <1>2, <1>6, <1>7 DEF JobsHeld
  <2>3. \A q, r \in Replicas : Busy(q)' /\ Busy(r)' /\ work'[q].job = work'[r].job => q = r
    BY <1>6, <1>7, <1>8, <1>9 DEF JobsHeld
  <2>4. DOMAIN work' = Replicas /\ work' = [q \in Replicas |-> work'[q]]
    BY <1>1 DEF JobsHeld
  <2>5. \A q \in Replicas : /\ DOMAIN work'[q] = DOMAIN NoWork
                            /\ work'[q].pc \in {"idle", "fetch", "write", "complete", "fail"}
    BY <1>6, <1>7 DEF JobsHeld
  <2>6. \A m \in DOMAIN exports : exports'[m] = "COMPLETED" => files'[m].whole
    BY <1>2, <1>4 DEF JobsHeld
  <2> QED
    BY <1>2, <1>3, <1>4, <2>1, <2>2, <2>3, <2>4, <2>5, <2>6 DEF JobsHeld, Export
<1>11. p \in JobOf(n)' /\ \A m : m # n => JobOf(m)' = JobOf(m)
  BY <1>2, <1>6, <1>7, <1>8 DEF JobOf, Busy
<1>12. Orphans' \subseteq Orphans
  BY <1>4, <1>11 DEF Orphans, Orphaned
<1>13. Leaving' = Leaving
  BY <1>2, <1>8 DEF Leaving
<1> QED
  BY <1>10, <1>12, <1>13

\* A claim whose reply is lost leaves its export to nobody (ClaimLost).
LEMMA ClaimLostStep ==
    ASSUME JobsHeld, NEW p \in Replicas, ClaimLost(p), UNCHANGED life
    PROVE  /\ JobsHeld' /\ Leaving' = Leaving
           /\ \E n : Orphans' \subseteq Orphans \cup {n}
<1>1. PICK n \in DOMAIN exports :
          /\ exports[n] = "REQUESTED"
          /\ exports' = [exports EXCEPT ![n] = "PROCESSING"]
  BY DEF ClaimLost, Claim
<1>2. UNCHANGED <<files, work, download>>
  BY DEF ClaimLost, Claim
<1>3. exports \in Seq(Export) /\ Len(files) = Len(exports)
  BY DEF JobsHeld, Export
<1>4. /\ exports' \in Seq(Export) /\ Len(exports') = Len(exports)
      /\ DOMAIN exports' = DOMAIN exports /\ exports'[n] = "PROCESSING"
      /\ \A m \in DOMAIN exports : m # n => exports'[m] = exports[m]
  BY <1>1, <1>3, ExportMarked
<1>5. \A q \in Replicas : (Busy(q)' <=> Busy(q)) /\ (Busy(q) => work[q].job # n)
  BY <1>1, <1>2 DEF JobsHeld, Busy
<1>6. \A q \in Replicas : Busy(q)' => /\ life'[q] \in {"up", "stopping"}
                                      /\ work'[q].job \in DOMAIN exports'
                                      /\ exports'[work'[q].job] = "PROCESSING"
  BY <1>2, <1>4, <1>5 DEF JobsHeld
<1>7. \A m \in DOMAIN exports : exports'[m] = "COMPLETED" => files'[m].whole
  BY <1>2, <1>4 DEF JobsHeld
<1>8. JobsHeld'
  BY <1>2, <1>3, <1>4, <1>5, <1>6, <1>7 DEF JobsHeld, Export
<1>9. \A m : JobOf(m)' = JobOf(m)
  BY <1>2 DEF JobOf
<1>10. Orphans' \subseteq Orphans \cup {n}
  BY <1>4, <1>9 DEF Orphans, Orphaned
<1>11. Leaving' = Leaving
  BY <1>5 DEF Leaving
<1> QED
  BY <1>8, <1>10, <1>11

\* A replica that moves while its worker is idle, or is told to stop, leaves the exports
\* as they are; in the second case its worker is leaving from now on.
LEMMA LifeMoves ==
    ASSUME JobsHeld, NEW p \in Replicas, UNCHANGED reportVars,
           \A q \in Replicas \ {p} : life'[q] = life[q], ~Busy(p) \/ life'[p] = "stopping"
    PROVE  /\ JobsHeld' /\ Orphans' = Orphans /\ Leaving' \subseteq Leaving \cup {p}
           /\ ~Busy(p) => Leaving' = Leaving
<1>1. \A q \in Replicas : Busy(q)' <=> Busy(q)
  BY DEF Busy, reportVars
<1>2. \A q \in Replicas : Busy(q) => life'[q] \in {"up", "stopping"}
  BY DEF JobsHeld
<1>3. JobsHeld'
  BY <1>1, <1>2 DEF JobsHeld, reportVars
<1>4. Orphans' = Orphans
  BY DEF Orphans, Orphaned, JobOf, reportVars
<1>5. \A q \in Replicas : q # p \/ ~Busy(p) => (q \in Leaving' <=> q \in Leaving)
  BY <1>1 DEF Leaving
<1>6. Leaving' \subseteq Replicas /\ Leaving \subseteq Replicas
  BY DEF Leaving
<1> QED
  BY <1>3, <1>4, <1>5, <1>6

\* What the count needs of the other components.
LEMMA Counters ==
    ASSUME IInv
    PROVE  ReportingInv /\ JobsHeld /\ faults \in Nat /\ stops \in Nat
  BY DEF IInv, ReportingInv, RequestsInv, ReplicasInv

\* A worker's own step keeps the exports accounted for (Worker.processOne).
LEMMA WorkKeeps ==
    ASSUME IInv, NEW p \in Replicas, Work(p)
    PROVE  ReportingInv'
<1>1. ReportStep(p) /\ UNCHANGED <<life, faults, stops>>
  BY DEF Work, requestVars, replicaVars
<1>2. /\ faults + stops \in Nat /\ faults' + stops' \in Nat /\ faults' + stops' = faults + stops
  BY <1>1, Counters
<1>3. CASE ClaimNext(p)
  <2>1. JobsHeld' /\ Orphans' \subseteq Orphans /\ Leaving' = Leaving
    BY <1>1, <1>3, Counters, ClaimStep
  <2> QED
    BY <1>2, <2>1, Counters, Recounted DEF ReportingInv
<1>4. CASE Fetch(p)
  <2>1. PICK w : w = [work[p] EXCEPT !.pc = IF life[p] = "up" THEN "write" ELSE "fail"]
    OBVIOUS
  <2>2. /\ work' = [work EXCEPT ![p] = w] /\ UNCHANGED <<exports, files, download>>
        /\ Busy(p)
    BY <1>4, <2>1 DEF Fetch, Busy
  <2>3. DOMAIN work[p] = {"pc", "job"} /\ DOMAIN NoWork = {"pc", "job"}
    BY Counters DEF JobsHeld, NoWork
  <2>4. DOMAIN w = DOMAIN NoWork /\ w.pc \in {"write", "fail"} /\ w.job = work[p].job
    BY <2>1, <2>3
  <2>5. JobsHeld' /\ Orphans' = Orphans /\ Leaving' = Leaving
    BY <1>1, <2>2, <2>4, Counters, GoesOn
  <2> QED
    BY <1>2, <2>5, Counters, Recounted DEF ReportingInv
<1>5. CASE WriteFile(p)
  <2>1. PICK w : w = [work[p] EXCEPT !.pc = "complete"]
    OBVIOUS
  <2>2. DOMAIN work[p] = {"pc", "job"} /\ DOMAIN NoWork = {"pc", "job"}
    BY Counters DEF JobsHeld, NoWork
  <2>3. DOMAIN w = DOMAIN NoWork /\ w.pc = "complete" /\ w.job = work[p].job
    BY <2>1, <2>2
  <2>4. PICK x : x = [on |-> p, whole |-> TRUE]
    OBVIOUS
  <2>5. /\ work' = [work EXCEPT ![p] = w] /\ UNCHANGED <<exports, download>> /\ Busy(p)
        /\ files' = [files EXCEPT ![w.job] = x]
    BY <1>5, <2>1, <2>3, <2>4 DEF WriteFile, Busy
  <2>6. w.job \in DOMAIN files /\ x.whole
    BY <2>3, <2>4, <2>5, Counters, LenProperties DEF JobsHeld
  <2>7. files'[w.job].whole
    BY <2>5, <2>6
  <2>8. JobsHeld' /\ Orphans' = Orphans /\ Leaving' = Leaving
    BY <1>1, <2>3, <2>5, <2>7, Counters, GoesOn
  <2> QED
    BY <1>2, <2>8, Counters, Recounted DEF ReportingInv
<1>6. ASSUME NEW pc \in {"complete", "fail"}, NEW st \in {"COMPLETED", "FAILED"},
             pc = "complete" <=> st = "COMPLETED", Mark(p, pc, st)
      PROVE  ReportingInv'
  <2>1. /\ work[p].pc = pc /\ work' = [work EXCEPT ![p] = NoWork] /\ Busy(p)
        /\ UNCHANGED <<files, download>>
        /\ exports' = IF life[p] = "up" THEN [exports EXCEPT ![work[p].job] = st] ELSE exports
    BY <1>6 DEF Mark, Busy
  <2>2. st = "COMPLETED" => files'[work[p].job].whole
    BY <1>6, <2>1, Counters DEF JobsHeld
  <2>3. PICK j : j = work[p].job
    OBVIOUS
  <2>4. /\ JobsHeld'
        /\ Leaving' \subseteq Leaving \ {p}
        /\ Orphans' \subseteq Orphans \cup {j}
        /\ exports' # exports => Orphans' \subseteq Orphans
    <3>1. work' = [work EXCEPT ![p] = NoWork] /\ UNCHANGED <<files, life, download>>
      BY <1>1, <2>1
    <3>2. MarkedOrNot(p, j)
      <4>1. CASE life[p] = "up"
        <5>1. exports' = [exports EXCEPT ![j] = st] /\ (st = "COMPLETED" => files'[j].whole)
          BY <2>1, <2>2, <2>3, <4>1
        <5>2. exports \in Seq(Export) /\ j \in DOMAIN exports
          BY <2>1, <2>3, Counters DEF JobsHeld, Export
        <5>3. /\ exports' \in Seq(Export) /\ Len(exports') = Len(exports)
              /\ DOMAIN exports' = DOMAIN exports /\ exports'[j] = st
              /\ \A m \in DOMAIN exports : m # j => exports'[m] = exports[m]
          BY <1>6, <5>1, <5>2, ExportMarked
        <5> QED
          BY <1>6, <2>1, <5>1, <5>3 DEF MarkedOrNot
      <4>2. CASE life[p] # "up"
        BY <2>1, <4>2 DEF MarkedOrNot
      <4> QED
        BY <4>1, <4>2
    <3>3. JobsHeld
      BY Counters
    <3> QED
      BY <2>3, <3>1, <3>2, <3>3, LetsGo DEF MarkedOrNot
  <2>5. CASE life[p] = "up"
    <3>1. exports' # exports
      <4>1. /\ exports \in Seq(Export) /\ j \in DOMAIN exports
            /\ exports[j] = "PROCESSING"
        BY <2>1, <2>3, Counters DEF JobsHeld, Export
      <4>2. exports'[j] = st
        BY <1>6, <2>1, <2>3, <2>5, <4>1, ExportMarked
      <4> QED
        BY <1>6, <4>1, <4>2
    <3>2. Orphans' \subseteq Orphans /\ Leaving' \subseteq Leaving
      BY <2>4, <3>1
    <3>3. faults' + stops' >= faults + stops
      BY <1>2
    <3>4. OrphansCounted'
      BY <1>2, <3>2, <3>3, Counters, Recounted, Zenon
    <3> QED
      BY <2>4, <3>4 DEF ReportingInv
  <2>6. CASE life[p] = "stopping"
    <3>1. p \in Leaving
      BY <2>1, <2>6 DEF Leaving
    <3> QED
      BY <1>2, <2>4, <3>1, Counters, Recounted DEF ReportingInv
  <2> QED
    BY <2>1, <2>5, <2>6, Counters DEF JobsHeld
<1> QED
  BY <1>1, <1>3, <1>4, <1>5, <1>6 DEF ReportStep, MarkCompleted, MarkFailed

\* A statement or a file that fails costs a fault, which pays for the export that may be
\* left behind (ClaimLost, GenerateFails, MarkLost).
LEMMA WorkFailsKeeps ==
    ASSUME IInv, NEW p \in Replicas, WorkFails(p)
    PROVE  ReportingInv' /\ faults' \in Nat
<1>1. /\ ClaimLost(p) \/ GenerateFails(p) \/ MarkLost(p)
      /\ UNCHANGED <<life, stops>> /\ faults' = faults + 1
  BY DEF WorkFails, replicaVars, ClaimLost, GenerateFails, MarkLost, Fault
<1>2. /\ faults + stops \in Nat /\ faults' + stops' \in Nat /\ faults' + stops' = faults + stops + 1
      /\ faults' \in Nat
  BY <1>1, Counters
<1>3. CASE GenerateFails(p)
  <2>1. PICK w : w = [work[p] EXCEPT !.pc = "fail"]
    OBVIOUS
  <2>2. DOMAIN work[p] = {"pc", "job"} /\ DOMAIN NoWork = {"pc", "job"}
    BY Counters DEF JobsHeld, NoWork
  <2>3. DOMAIN w = DOMAIN NoWork /\ w.pc = "fail" /\ w.job = work[p].job
    BY <2>1, <2>2
  <2>4. /\ work' = [work EXCEPT ![p] = w] /\ UNCHANGED <<exports, download>> /\ Busy(p)
        /\ files' = files \/ files' = [files EXCEPT ![w.job] = Partial(p)]
    BY <1>3, <2>1, <2>3 DEF GenerateFails, Busy
  <2>5. JobsHeld' /\ Orphans' = Orphans /\ Leaving' = Leaving
    BY <1>1, <2>3, <2>4, Counters, GoesOn
  <2> QED
    BY <1>2, <2>5, Counters, Recounted DEF ReportingInv
<1>4. CASE MarkLost(p)
  <2>1. /\ work' = [work EXCEPT ![p] = NoWork] /\ UNCHANGED <<exports, files, download>>
    BY <1>4 DEF MarkLost
  <2>2. PICK j : j = work[p].job
    OBVIOUS
  <2>3. JobsHeld' /\ Leaving' \subseteq Leaving \ {p} /\ Orphans' \subseteq Orphans \cup {j}
    BY <1>1, <2>1, <2>2, Counters, LetsGo DEF MarkedOrNot
  <2> QED
    BY <1>2, <2>3, Counters, Recounted DEF ReportingInv
<1>5. CASE ClaimLost(p)
  <2>1. JobsHeld' /\ Leaving' \subseteq Leaving
    BY <1>1, <1>5, Counters, ClaimLostStep
  <2>2. PICK n : Orphans' \subseteq Orphans \cup {n}
    BY <1>1, <1>5, Counters, ClaimLostStep
  <2>3. OrphansCounted'
    BY <1>2, <2>1, <2>2, Counters, Recounted, Zenon
  <2> QED
    BY <1>2, <2>1, <2>3 DEF ReportingInv
<1> QED
  BY <1>1, <1>2, <1>3, <1>4, <1>5

\* Steps that are not about exports.
LEMMA ReportsStay ==
    ASSUME IInv, UNCHANGED <<reportVars, life, stops>>, faults' \in Nat, faults' >= faults
    PROVE  ReportingInv'
<1>1. JobsHeld'
  BY Counters DEF JobsHeld, Busy, reportVars
<1>2. Orphans' = Orphans /\ Leaving' = Leaving
  BY DEF Orphans, Orphaned, JobOf, Leaving, Busy, reportVars
<1>3. faults + stops \in Nat /\ faults' + stops' \in Nat /\ faults' + stops' >= faults + stops
  BY Counters
<1>4. Orphans' \subseteq Orphans /\ Leaving' \subseteq Leaving
  BY <1>2
<1>5. OrphansCounted'
  BY <1>3, <1>4, Counters, Recounted, Zenon
<1> QED
  BY <1>1, <1>5 DEF ReportingInv

\* An administrator's calls: ordering an export and downloading one.
LEMMA ReportCallsKeep ==
    ASSUME IInv, CreateExport \/ Download, UNCHANGED <<replicaVars, faults>>
    PROVE  ReportingInv'
<1>1. UNCHANGED <<life, stops>>
  BY DEF replicaVars
<1>2. faults + stops \in Nat /\ faults' + stops' \in Nat /\ faults' + stops' >= faults + stops
  BY <1>1, Counters
<1>3. CASE CreateExport
  <2>1. JobsHeld' /\ Orphans' \subseteq Orphans /\ Leaving' \subseteq Leaving
    BY <1>1, <1>3, Counters, CreateStep
  <2>2. OrphansCounted'
    BY <1>2, <2>1, Counters, Recounted, Zenon
  <2> QED
    BY <2>1, <2>2 DEF ReportingInv
<1>4. CASE Download
  <2>1. PICK n \in DOMAIN exports, p \in {q \in Replicas : life[q] = "up"} :
          download' = CASE exports[n] # "COMPLETED" -> [code |-> "409", file |-> NoFile]
                        [] files[n].on # p -> [code |-> "404", file |-> NoFile]
                        [] OTHER -> [code |-> "200", file |-> files[n]]
    BY <1>4 DEF Download
  <2>2. UNCHANGED <<exports, files, work>>
    BY <1>4 DEF Download
  <2>3. exports[n] = "COMPLETED" => files[n].whole
    BY Counters DEF JobsHeld
  <2>4. download'.code = "200" => download'.file.whole
    <3>1. CASE exports[n] # "COMPLETED"
      <4>1. \/ download' = [code |-> "409", file |-> NoFile]
            \/ download' = [code |-> "404", file |-> NoFile]
            \/ download' = [code |-> "200", file |-> files[n]] /\ exports[n] = "COMPLETED"
        BY <2>1
      <4> QED
        BY <2>3, <4>1
    <3>2. CASE exports[n] = "COMPLETED"
      <4>1. \/ download' = [code |-> "404", file |-> NoFile]
            \/ download' = [code |-> "200", file |-> files[n]]
        BY <2>1, <3>2
      <4> QED
        BY <2>3, <3>2, <4>1
    <3> QED
      BY <3>1, <3>2
  <2>5. JobsHeld'
    BY <1>1, <2>2, <2>4, Counters DEF JobsHeld, Busy
  <2>6. Orphans' \subseteq Orphans /\ Leaving' \subseteq Leaving
    BY <1>1, <2>2 DEF Orphans, Orphaned, JobOf, Leaving, Busy
  <2>7. OrphansCounted'
    BY <1>2, <2>6, Counters, Recounted, Zenon
  <2> QED
    BY <2>5, <2>7 DEF ReportingInv
<1> QED
  BY <1>3, <1>4

\* A process that starts, stops, exits or dies: a stop pays for the export its worker
\* had, at once for a crash and ahead of time for a shutdown.
LEMMA LivesKeepReports ==
    ASSUME IInv, NEW p \in Replicas, Start(p) \/ Leave(p) \/ Stop(p)
    PROVE  ReportingInv' /\ faults' = faults
<1>1. life \in [Replicas -> {"down", "connecting", "locking", "checking", "applying", "up", "stopping"}]
  BY DEF IInv, ReplicasInv
<1>2. faults' = faults
  BY DEF Start, Leave, Stop, CallsEnd, requestVars
<1>3. \A q \in Replicas \ {p} : life'[q] = life[q]
  BY <1>1 DEF Start, Leave, Stop, StartStep, Connect, Lock, CheckVersion, ApplyVersion,
              MigrationsApplied, Boot, ApplyFails, Shutdown, Exit, Crash, Move
<1>4. ASSUME ~Busy(p), UNCHANGED reportVars, stops' \in Nat, stops' >= stops
      PROVE  ReportingInv'
  <2>1. JobsHeld' /\ Orphans' \subseteq Orphans /\ Leaving' \subseteq Leaving
    BY <1>3, <1>4, Counters, LifeMoves
  <2>2. faults + stops \in Nat /\ faults' + stops' \in Nat /\ faults' + stops' >= faults + stops
    BY <1>2, <1>4, Counters
  <2>3. OrphansCounted'
    BY <2>1, <2>2, Counters, Recounted, Zenon
  <2> QED
    BY <2>1, <2>3 DEF ReportingInv
<1>5. Busy(p) => life[p] \in {"up", "stopping"}
  BY Counters DEF JobsHeld
<1>6. CASE Start(p)
  <2>1. UNCHANGED reportVars /\ stops' = stops /\ life[p] \notin {"up", "stopping"}
    BY <1>6 DEF Start, StartStep, Connect, Lock, CheckVersion, ApplyVersion, MigrationsApplied
  <2> QED
    BY <1>2, <1>4, <1>5, <2>1, Counters
<1>7. CASE Leave(p)
  <2>1. UNCHANGED reportVars /\ stops' = stops /\ ~Busy(p)
    BY <1>7 DEF Leave, Exit, Busy
  <2> QED
    BY <1>2, <1>4, <2>1, Counters
<1>8. CASE (Boot(p) \/ ApplyFails(p)) /\ UNCHANGED reportVars
  <2>1. life[p] \notin {"up", "stopping"} /\ (stops' = stops \/ stops' = stops + 1)
    BY <1>8 DEF Boot, ApplyFails, Stops
  <2> QED
    BY <1>2, <1>4, <1>5, <1>8, <2>1, Counters
<1>9. CASE Shutdown(p) /\ UNCHANGED reportVars
  <2>1. life'[p] = "stopping" /\ stops' = stops + 1
    BY <1>1, <1>9 DEF Shutdown, Move, Stops
  <2>2. JobsHeld' /\ Orphans' \subseteq Orphans /\ Leaving' \subseteq Leaving \cup {p}
    BY <1>3, <1>9, <2>1, Counters, LifeMoves
  <2>3. faults + stops \in Nat /\ faults' + stops' \in Nat /\ faults' + stops' = faults + stops + 1
    BY <1>2, <2>1, Counters
  <2>4. OrphansCounted'
    BY <2>2, <2>3, Counters, Recounted, Zenon
  <2> QED
    BY <1>2, <2>2, <2>4 DEF ReportingInv
<1>10. CASE Crash(p) /\ WorkerDies(p)
  <2>1. PICK j : j = work[p].job
    OBVIOUS
  <2>2. /\ work' = [work EXCEPT ![p] = NoWork] /\ UNCHANGED <<exports, download>>
        /\ files' = files \/ (Busy(p) /\ files' = [files EXCEPT ![j] = Partial(p)])
    BY <1>10, <2>1 DEF WorkerDies, Busy
  <2>3. /\ JobsHeld' /\ Orphans' \subseteq Orphans \cup {j} /\ Leaving' \subseteq Leaving \ {p}
    BY <1>3, <2>1, <2>2, Counters, LetsGo DEF MarkedOrNot
  <2>4. stops' = stops + 1
    BY <1>10 DEF Crash, Stops
  <2>5. faults + stops \in Nat /\ faults' + stops' \in Nat /\ faults' + stops' = faults + stops + 1
    BY <1>2, <2>4, Counters
  <2>6. Leaving' \subseteq Leaving
    BY <2>3
  <2>7. OrphansCounted'
    BY <2>3, <2>5, <2>6, Counters, Recounted, Zenon
  <2> QED
    BY <1>2, <2>3, <2>7 DEF ReportingInv
<1> QED
  BY <1>2, <1>6, <1>7, <1>8, <1>9, <1>10 DEF Stop

----
(* The requests. *)

\* A request that is in the ledger stays there, with its priority.
Grows ==
    /\ DOMAIN reqs \subseteq DOMAIN reqs'
    /\ \A r \in DOMAIN reqs : reqs'[r].priority = reqs[r].priority

LEMMA LedgerStays ==
    ASSUME LedgerKept, UNCHANGED <<reqs, capacity>>
    PROVE  LedgerKept' /\ Grows
  BY DEF LedgerKept, Grows

\* The ledger stays finite and well formed when a request enters, is accepted or is
\* settled (EnrollmentLedger).
LEMMA EnrollKeeps ==
    ASSUME LedgerKept, NEW id \in Nat, NEW row, Enroll(id, row),
           DOMAIN row = {"student", "semester", "group", "key", "priority", "status"},
           row.student \in Students, row.group \in Groups
    PROVE  LedgerKept' /\ Grows
<1>1. reqs' = [r \in DOMAIN reqs \cup {id} |-> IF r = id THEN row ELSE reqs[r]] /\ id \notin DOMAIN reqs
  BY DEF Enroll
<1>2. IsFiniteSet(DOMAIN reqs \cup {id})
  BY FS_AddElement DEF LedgerKept
<1>3. capacity' = capacity
  BY DEF Enroll
<1>4. LedgerKept'
  BY <1>1, <1>2, <1>3 DEF LedgerKept
<1> QED
  BY <1>1, <1>4 DEF Grows

LEMMA SettleKeeps ==
    ASSUME LedgerKept, NEW r, NEW st, Settle(r, st)
    PROVE  LedgerKept' /\ Grows
<1>1. /\ DOMAIN reqs' = DOMAIN reqs /\ capacity' = capacity
      /\ \A q \in DOMAIN reqs : /\ DOMAIN reqs'[q] = DOMAIN reqs[q]
                                /\ reqs'[q].student = reqs[q].student
                                /\ reqs'[q].group = reqs[q].group
                                /\ reqs'[q].priority = reqs[q].priority
  BY DEF Settle, LedgerKept
<1> QED
  BY <1>1 DEF LedgerKept, Grows

LEMMA AcceptKeeps ==
    ASSUME LedgerKept, NEW r, NEW g \in Groups, Accept(r, g)
    PROVE  LedgerKept' /\ Grows
<1>1. reqs' = [reqs EXCEPT ![r].status = "ACCEPTED", ![r].group = g] /\ capacity' = capacity
  BY DEF Accept
<1>2. \A q \in DOMAIN reqs : /\ DOMAIN reqs'[q] = DOMAIN reqs[q]
                             /\ reqs'[q].student = reqs[q].student
                             /\ reqs'[q].group \in {g, reqs[q].group}
                             /\ reqs'[q].priority = reqs[q].priority
  BY <1>1 DEF LedgerKept
<1> QED
  BY <1>1, <1>2 DEF LedgerKept, Grows

\* A call that moves keeps the others.
LEMMA CallMoves ==
    ASSUME RequestsInv, NEW c \in Clients, NEW w, CallKept(w), calls' = [calls EXCEPT ![c] = w],
           LedgerKept', faults' \in Nat
    PROVE  RequestsInv'
<1>1. calls'[c] = w /\ \A d \in Clients : d # c => calls'[d] = calls[d]
  BY DEF RequestsInv
<1>2. \A d \in Clients : CallKept(calls'[d])
  BY <1>1 DEF RequestsInv
<1> QED
  BY <1>2 DEF RequestsInv

LEMMA IdleKept == CallKept(Idle)
<1>1. << >> \in Seq(Groups) /\ Len(<< >>) = 0
  OBVIOUS
<1> QED
  BY <1>1 DEF CallKept, Idle

Fields == {"pc", "kind", "student", "semester", "base", "list", "done", "created"}

\* A single submission is one item; a batch begins with the checks on its list
\* (PostSubmit, PostBatch).
LEMMA PostsKeep ==
    ASSUME RequestsInv, NEW c \in Clients, PostSubmit(c) \/ PostBatch(c)
    PROVE  RequestsInv' /\ Grows
<1>1. UNCHANGED <<reqs, capacity, faults>>
  BY DEF PostSubmit, PostBatch
<1>2. LedgerKept' /\ Grows /\ faults' \in Nat
  BY <1>1, LedgerStays DEF RequestsInv
<1>3. CASE PostSubmit(c)
  <2>1. PICK s \in Students, sem \in Semesters, k \in Keys, g \in Groups :
          calls' = [calls EXCEPT ![c] = [Idle EXCEPT !.pc = "items", !.student = s,
                                           !.semester = sem, !.base = k, !.list = <<g>>]]
    BY <1>3 DEF PostSubmit
  <2>2. PICK w : w = [Idle EXCEPT !.pc = "items", !.student = s,
                                  !.semester = sem, !.base = k, !.list = <<g>>]
    OBVIOUS
  <2>3. /\ DOMAIN w = DOMAIN Idle /\ w.pc = "items" /\ w.student = s
        /\ w.list = <<g>> /\ w.done = 0
    BY <2>2 DEF Idle
  <2>4. <<g>> \in Seq(Groups) /\ Len(<<g>>) = 1
    OBVIOUS
  <2>5. CallKept(w)
    BY <2>3, <2>4 DEF CallKept
  <2> QED
    BY <1>2, <2>1, <2>2, <2>5, CallMoves
<1>4. CASE PostBatch(c)
  <2>1. PICK s \in Students, sem \in Semesters, k \in Keys, list \in Lists :
          IF ValidBatch(list) /\ ~DuplicateItem(list)
          THEN calls' = [calls EXCEPT ![c] =
                           [Idle EXCEPT !.pc = "listMine", !.kind = "batch", !.student = s,
                                        !.semester = sem, !.base = k, !.list = list]]
          ELSE Answer(c)
    BY <1>4 DEF PostBatch
  <2>2. PICK w : w = [Idle EXCEPT !.pc = "listMine", !.kind = "batch", !.student = s,
                                  !.semester = sem, !.base = k, !.list = list]
    OBVIOUS
  <2>3. /\ DOMAIN w = DOMAIN Idle /\ w.student = s /\ w.list = list /\ w.done = 0
    BY <2>2 DEF Idle
  <2>4. list \in Seq(Groups) /\ Len(list) \in Nat
    BY RequestsAssumption, LenProperties
  <2>5. CallKept(w)
    BY <2>3, <2>4 DEF CallKept
  <2> QED
    BY <1>2, <2>1, <2>2, <2>5, CallMoves, IdleKept DEF Answer
<1> QED
  BY <1>3, <1>4

\* A batch that passes the checks goes on to its items (ListMine).
LEMMA ListMineKeeps ==
    ASSUME RequestsInv, NEW c \in Clients, ListMine(c)
    PROVE  RequestsInv' /\ Grows
<1>1. /\ calls[c].pc = "listMine" /\ UNCHANGED <<reqs, capacity, faults>>
      /\ calls' = [calls EXCEPT ![c].pc = "items"] \/ Answer(c)
  BY DEF ListMine
<1>2. LedgerKept' /\ Grows /\ faults' \in Nat
  BY <1>1, LedgerStays DEF RequestsInv
<1>3. PICK w : w = [calls[c] EXCEPT !.pc = "items"]
  OBVIOUS
<1>4. CallKept(calls[c]) /\ c \in DOMAIN calls
  BY DEF RequestsInv
<1>5. DOMAIN calls[c] = Fields /\ DOMAIN Idle = Fields
  BY <1>4 DEF CallKept, Idle, Fields
<1>6. /\ DOMAIN w = Fields /\ w.pc = "items" /\ w.list = calls[c].list
      /\ w.done = calls[c].done /\ w.student = calls[c].student
  BY <1>3, <1>5 DEF Fields
<1>7. CallKept(w)
  BY <1>1, <1>4, <1>5, <1>6 DEF CallKept
<1>8. calls' = [calls EXCEPT ![c] = w] \/ Answer(c)
  BY <1>1, <1>3, <1>4
<1> QED
  BY <1>2, <1>7, <1>8, CallMoves, IdleKept DEF Answer

\* A request that is inserted keeps the ledger.
LEMMA InsertedKeeps ==
    ASSUME LedgerKept, NEW s \in Students, NEW sem, NEW g \in Groups, NEW k, Inserted(s, sem, g, k)
    PROVE  LedgerKept' /\ Grows
<1>1. PICK class : class = Classify(StudentShift[s], GroupShift[g], Occupancy(g))
  OBVIOUS
<1>2. PICK row : row = [student |-> s, semester |-> sem, group |-> g, key |-> k,
                        priority |-> class.priority, status |-> class.status]
  OBVIOUS
<1>3. PICK id : id = NextId
  OBVIOUS
<1>4. Enroll(id, row)
  BY <1>1, <1>2, <1>3 DEF Inserted
<1>5. /\ row.student \in Students /\ row.group \in Groups
      /\ DOMAIN row = {"student", "semester", "group", "key", "priority", "status"}
  BY <1>2
<1>6. id \in Nat
  BY <1>3, FS_CardinalityType DEF NextId, LedgerKept
<1> QED
  BY <1>4, <1>5, <1>6, EnrollKeeps

\* The next item of a call is of a group and a student that there are.
LEMMA ItemAtHand ==
    ASSUME RequestsInv, NEW c \in Clients, calls[c].pc = "items",
           calls[c].done + 1 <= Len(calls[c].list)
    PROVE  /\ calls[c].student \in Students /\ calls[c].list[calls[c].done + 1] \in Groups
           /\ calls[c].done + 1 \in 0 .. Len(calls[c].list)
<1>1. CallKept(calls[c])
  BY DEF RequestsInv
<1>2. /\ calls[c].list \in Seq(Groups) /\ Len(calls[c].list) \in Nat
      /\ calls[c].done \in 0 .. Len(calls[c].list) /\ calls[c].student \in Students
  BY <1>1, LenProperties DEF CallKept
<1>3. calls[c].done + 1 \in 1 .. Len(calls[c].list)
  BY <1>2
<1> QED
  BY <1>2, <1>3

\* An item that is submitted is done (SubmitBatch and Submit).
LEMMA ItemKeeps ==
    ASSUME RequestsInv, NEW c \in Clients, SubmitItem(c)
    PROVE  RequestsInv' /\ Grows
<1>1. PICK i : i = calls[c].done + 1
  OBVIOUS
<1>2. PICK g : g = calls[c].list[i]
  OBVIOUS
<1>3. PICK k : k = ItemKey(calls[c], i)
  OBVIOUS
<1>4. /\ calls[c].pc = "items" /\ i <= Len(calls[c].list) /\ UNCHANGED faults
      /\ \/ /\ Inserted(calls[c].student, calls[c].semester, g, k)
            /\ calls' = [calls EXCEPT ![c].done = i, ![c].created = @ + 1]
         \/ calls' = [calls EXCEPT ![c].done = i] /\ UNCHANGED <<reqs, capacity>>
         \/ Answer(c) /\ UNCHANGED <<reqs, capacity>>
  BY <1>1, <1>2, <1>3 DEF SubmitItem
<1>5. CallKept(calls[c]) /\ c \in DOMAIN calls /\ LedgerKept /\ faults' \in Nat
  BY <1>4 DEF RequestsInv
<1>6. DOMAIN calls[c] = Fields /\ DOMAIN Idle = Fields
  BY <1>5 DEF CallKept, Idle, Fields
<1>7. calls[c].student \in Students /\ g \in Groups /\ i \in 0 .. Len(calls[c].list)
  BY <1>1, <1>2, <1>4, ItemAtHand
<1>8. LedgerKept' /\ Grows
  BY <1>4, <1>5, <1>7, InsertedKeeps, LedgerStays
<1>9. PICK w : w = [calls[c] EXCEPT !.done = i]
  OBVIOUS
<1>10. PICK v : v = [calls[c] EXCEPT !.done = i, !.created = @ + 1]
  OBVIOUS
<1>11. /\ DOMAIN w = Fields /\ w.done = i /\ w.list = calls[c].list /\ w.student = calls[c].student
       /\ DOMAIN v = Fields /\ v.done = i /\ v.list = calls[c].list /\ v.student = calls[c].student
  BY <1>6, <1>9, <1>10 DEF Fields
<1>12. CallKept(w) /\ CallKept(v)
  BY <1>5, <1>6, <1>7, <1>11 DEF CallKept
<1>13. calls' = [calls EXCEPT ![c] = v] \/ calls' = [calls EXCEPT ![c] = w] \/ Answer(c)
  BY <1>4, <1>5, <1>9, <1>10
<1> QED
  BY <1>5, <1>8, <1>12, <1>13, CallMoves, IdleKept DEF Answer

\* The rest of the student's and the administrator's calls: a connection that fails, an
\* answer, a cancellation, a change of a group.
LEMMA RequestsKeep ==
    ASSUME RequestsInv, RequestsPosts \/ RequestsSteps
    PROVE  RequestsInv' /\ Grows /\ faults' >= faults
<1>1. ASSUME NEW c \in Clients, SubmitItemFails(c)
      PROVE  RequestsInv' /\ Grows /\ faults' >= faults
  <2>1. PICK g, k : /\ g = calls[c].list[calls[c].done + 1]
                    /\ \/ UNCHANGED <<reqs, capacity>>
                       \/ Inserted(calls[c].student, calls[c].semester, g, k)
    BY <1>1 DEF SubmitItemFails
  <2>2. /\ calls[c].pc = "items" /\ calls[c].done + 1 <= Len(calls[c].list)
        /\ faults' = faults + 1 /\ Answer(c)
    BY <1>1 DEF SubmitItemFails, Fault
  <2>3. LedgerKept /\ faults \in Nat /\ calls[c].student \in Students /\ g \in Groups
    BY <2>1, <2>2, ItemAtHand DEF RequestsInv
  <2>4. LedgerKept' /\ Grows
    BY <2>1, <2>3, InsertedKeeps, LedgerStays
  <2>5. faults' \in Nat /\ faults' >= faults
    BY <2>2, <2>3
  <2>6. RequestsInv'
    BY <2>2, <2>4, <2>5, CallMoves, IdleKept DEF Answer
  <2> QED
    BY <2>4, <2>5, <2>6
<1>2. ASSUME NEW c \in Clients, SubmitDone(c)
      PROVE  RequestsInv' /\ Grows /\ faults' = faults
  <2>1. LedgerKept' /\ Grows /\ faults' \in Nat /\ faults' = faults /\ Answer(c)
    BY <1>2, LedgerStays DEF SubmitDone, RequestsInv
  <2> QED
    BY <2>1, CallMoves, IdleKept DEF Answer
<1>3. ASSUME NEW r \in DOMAIN reqs, Cancel(r)
      PROVE  RequestsInv' /\ Grows /\ faults' = faults
  <2>1. LedgerKept' /\ Grows /\ UNCHANGED <<calls, faults>>
    BY <1>3, SettleKeeps DEF Cancel, RequestsInv
  <2> QED
    BY <2>1 DEF RequestsInv
<1>4. ASSUME NEW g \in Groups, EditGroup(g)
      PROVE  RequestsInv' /\ Grows /\ faults' = faults
  <2>1. UNCHANGED <<reqs, calls, faults>>
    BY <1>4 DEF EditGroup, Resize
  <2>2. capacity' = capacity \/ \E n \in Capacities : capacity' = [capacity EXCEPT ![g] = n]
    BY <1>4 DEF EditGroup, Resize
  <2>3. capacity' \in [Groups -> Nat]
    BY <2>2, RequestsAssumption DEF RequestsInv, LedgerKept
  <2> QED
    BY <2>1, <2>3 DEF RequestsInv, LedgerKept, Grows
<1>5. ASSUME NEW c \in Clients, PostSubmit(c) \/ PostBatch(c) \/ ListMine(c) \/ SubmitItem(c)
      PROVE  RequestsInv' /\ Grows /\ faults' = faults
  <2>1. faults' = faults
    BY <1>5 DEF PostSubmit, PostBatch, ListMine, SubmitItem
  <2> QED
    BY <1>5, <2>1, PostsKeep, ListMineKeeps, ItemKeeps
<1>6. faults' = faults => faults' >= faults
  BY DEF RequestsInv
<1>7. CASE RequestsPosts
  BY <1>3, <1>4, <1>5, <1>6, <1>7 DEF RequestsPosts
<1>8. CASE RequestsSteps
  BY <1>1, <1>2, <1>5, <1>6, <1>8 DEF RequestsSteps
<1> QED
  BY <1>7, <1>8

\* A decision changes nothing but the request (Repo.Decide).
LEMMA DecideKeeps ==
    ASSUME RequestsInv, DeskInv, Decide
    PROVE  RequestsInv' /\ Grows
<1>1. UNCHANGED <<calls, faults>>
  BY DEF Decide
<1>2. \/ \E r, g : Accept(r, g) /\ g \in Groups
      \/ \E r, st : Settle(r, st)
      \/ UNCHANGED <<reqs, capacity>>
  <2>1. PICK i \in DOMAIN desk.items, dt \in DecisionTypes :
         \E target \in IF dt = "CREATE_GROUP_ACCEPTANCE"
                       THEN {g \in desk.targets :
                               GroupOffering[g] = GroupOffering[reqs[desk.items[i].id].group]}
                       ELSE {reqs[desk.items[i].id].group} :
             \/ Accept(desk.items[i].id, target)
             \/ Settle(desk.items[i].id, ApplyDecision(dt, Context(desk.items[i].id, target)))
             \/ UNCHANGED <<reqs, capacity>>
    BY DEF Decide
  <2>2. desk.items[i].id \in DOMAIN reqs /\ desk.targets \subseteq Groups
    BY DEF DeskInv, ItemKept
  <2>3. reqs[desk.items[i].id].group \in Groups
    BY <2>2 DEF RequestsInv, LedgerKept
  <2> QED
    BY <2>1, <2>2, <2>3
<1>3. LedgerKept' /\ Grows
  BY <1>2, AcceptKeeps, SettleKeeps, LedgerStays DEF RequestsInv
<1> QED
  BY <1>1, <1>3 DEF RequestsInv

\* Steps that leave the ledger and the calls alone.
LEMMA RequestsStay ==
    ASSUME RequestsInv, UNCHANGED <<reqs, capacity, calls>>, faults' \in Nat
    PROVE  RequestsInv' /\ Grows
<1>1. LedgerKept' /\ Grows
  BY LedgerStays DEF RequestsInv
<1> QED
  BY <1>1 DEF RequestsInv

----
(* The order of the review queue. *)

\* Before orders the requests: none is before itself, and of two one is before the other.
LEMMA BeforeOrders ==
    ASSUME LedgerKept
    PROVE  /\ \A r \in DOMAIN reqs : ~Before(r, r)
           /\ \A q, r \in DOMAIN reqs : q # r => Before(q, r) \/ Before(r, q)
           /\ \A p, q, r \in DOMAIN reqs : Before(p, q) /\ Before(q, r) => Before(p, r)
<1>1. \A r \in DOMAIN reqs : r \in Nat
  BY DEF LedgerKept
<1>2. \A p : PriorityRank(p) \in 0 .. 2
  BY DEF PriorityRank
<1> QED
  BY <1>1, <1>2 DEF Before

\* A request is preceded by fewer than all of them, and by more than those that precede it.
LEMMA AheadCount ==
    ASSUME LedgerKept, NEW W \in SUBSET DOMAIN reqs
    PROVE  /\ IsFiniteSet(W) /\ Cardinality(W) \in Nat
           /\ \A r \in W : /\ Cardinality(Ahead(W, r)) \in Nat
                           /\ Cardinality(Ahead(W, r)) + 1 <= Cardinality(W)
           /\ \A q, r \in W : Before(q, r) => Cardinality(Ahead(W, q)) + 1 <= Cardinality(Ahead(W, r))
<1>1. IsFiniteSet(W) /\ Cardinality(W) \in Nat
  BY FS_Subset, FS_CardinalityType DEF LedgerKept
<1>2. ASSUME NEW S, NEW T \in SUBSET W, NEW x \in T, S \subseteq T, x \notin S
      PROVE  /\ Cardinality(S) \in Nat /\ Cardinality(T) \in Nat
             /\ Cardinality(S) + 1 <= Cardinality(T)
  <2>1. IsFiniteSet(T)
    BY <1>1, FS_Subset
  <2>2. IsFiniteSet(S)
    BY <1>2, <2>1, FS_Subset
  <2>3. Cardinality(S \cup {x}) = Cardinality(S) + 1
    BY <1>2, <2>2, FS_AddElement
  <2>4. S \cup {x} \in SUBSET T
    BY <1>2
  <2>5. Cardinality(S \cup {x}) <= Cardinality(T)
    BY <2>1, <2>4, FS_Subset
  <2> QED
    BY <2>1, <2>2, <2>3, <2>5, FS_CardinalityType
<1>3. ASSUME NEW r \in W
      PROVE  /\ Cardinality(Ahead(W, r)) \in Nat
             /\ Cardinality(Ahead(W, r)) + 1 <= Cardinality(W)
  <2>1. Ahead(W, r) \subseteq W /\ r \notin Ahead(W, r)
    BY BeforeOrders DEF Ahead
  <2> QED
    BY <1>2, <2>1
<1>4. ASSUME NEW q \in W, NEW r \in W, Before(q, r)
      PROVE  Cardinality(Ahead(W, q)) + 1 <= Cardinality(Ahead(W, r))
  <2>1. Ahead(W, r) \in SUBSET W /\ q \in Ahead(W, r)
    BY <1>4 DEF Ahead
  <2>2. q \notin Ahead(W, q)
    BY BeforeOrders DEF Ahead
  <2>3. Ahead(W, q) \subseteq Ahead(W, r)
    BY <1>4, BeforeOrders DEF Ahead
  <2> QED
    BY <1>2, <2>1, <2>2, <2>3
<1> QED
  BY <1>1, <1>3, <1>4

\* No two requests of a queue have the same place.
LEMMA PlacesApart ==
    ASSUME LedgerKept, NEW W \in SUBSET DOMAIN reqs, NEW q \in W, NEW r \in W,
           Cardinality(Ahead(W, q)) = Cardinality(Ahead(W, r))
    PROVE  q = r
<1>1. Cardinality(Ahead(W, q)) \in Nat /\ Cardinality(Ahead(W, r)) \in Nat
  BY AheadCount
<1>2. ~Before(q, r) /\ ~Before(r, q)
  <2>1. Before(q, r) => Cardinality(Ahead(W, q)) + 1 <= Cardinality(Ahead(W, r))
    BY AheadCount
  <2>2. Before(r, q) => Cardinality(Ahead(W, r)) + 1 <= Cardinality(Ahead(W, q))
    BY AheadCount
  <2> QED
    BY <1>1, <2>1, <2>2
<1> QED
  BY <1>2, BeforeOrders

\* ORDER BY has a request in every place, and every request in its own: the number of
\* requests ahead of one is different for each, so every place is taken.
LEMMA OrderedIsQueue ==
    ASSUME LedgerKept, NEW W \in SUBSET DOMAIN reqs
    PROVE  /\ Len(Ordered(W)) = Cardinality(W)
           /\ \A i \in 1 .. Cardinality(W) : Ordered(W)[i] \in W
           /\ \A r \in W : Ordered(W)[Cardinality(Ahead(W, r)) + 1] = r
<1> PICK n : n = Cardinality(W)
  OBVIOUS
<1>1. IsFiniteSet(W) /\ n \in Nat
  BY AheadCount
<1> PICK g : g = [r \in W |-> Cardinality(Ahead(W, r)) + 1]
  OBVIOUS
<1>2. g \in [W -> 1 .. n]
  <2>1. ASSUME NEW r \in W
        PROVE  Cardinality(Ahead(W, r)) + 1 \in 1 .. n
    <3>1. Cardinality(Ahead(W, r)) \in Nat /\ Cardinality(Ahead(W, r)) + 1 <= n
      BY AheadCount
    <3> QED
      BY <1>1, <3>1
  <2> QED
    BY <2>1
<1>3. ASSUME NEW q \in W, NEW r \in W, g[q] = g[r]
      PROVE  q = r
  <2>1. Cardinality(Ahead(W, q)) \in Nat /\ Cardinality(Ahead(W, r)) \in Nat
    BY AheadCount
  <2>2. Cardinality(Ahead(W, q)) = Cardinality(Ahead(W, r))
    BY <1>3, <2>1
  <2> QED
    BY <2>2, PlacesApart
<1>4. g \in Injection(W, 1 .. n)
  BY <1>2, <1>3 DEF Injection, IsInjective
<1>5. IsFiniteSet(1 .. n) /\ Cardinality(1 .. n) = n
  BY <1>1, FS_Interval
<1>6. g \in Surjection(W, 1 .. n)
  BY <1>4, <1>5, FS_Injection
<1>7. \A i \in 1 .. n : \E r \in W : g[r] = i
  BY <1>6 DEF Surjection
<1>8. ASSUME NEW i \in 1 .. n
      PROVE  Ordered(W)[i] \in W /\ g[Ordered(W)[i]] = i
  <2>1. Ordered(W)[i] = CHOOSE r \in W : Cardinality(Ahead(W, r)) = i - 1
    BY DEF Ordered
  <2>2. PICK r \in W : g[r] = i
    BY <1>7
  <2>3. Cardinality(Ahead(W, r)) \in Nat /\ g[r] = Cardinality(Ahead(W, r)) + 1
    BY AheadCount
  <2>4. Cardinality(Ahead(W, r)) = i - 1
    BY <2>2, <2>3
  <2>5. Ordered(W)[i] \in W /\ Cardinality(Ahead(W, Ordered(W)[i])) = i - 1
    BY <2>1, <2>4, Zenon
  <2> QED
    BY <2>5
<1>9. ASSUME NEW r \in W
      PROVE  Ordered(W)[Cardinality(Ahead(W, r)) + 1] = r
  <2>1. PICK i : i = g[r]
    OBVIOUS
  <2>2. i \in 1 .. n /\ i = Cardinality(Ahead(W, r)) + 1
    BY <1>2, <2>1
  <2>3. Ordered(W)[i] \in W /\ g[Ordered(W)[i]] = g[r]
    BY <1>8, <2>1, <2>2
  <2>4. Ordered(W)[i] = r
    BY <1>3, <2>3
  <2> QED
    BY <2>2, <2>4
<1>10. Len(Ordered(W)) = n
  BY <1>1 DEF Ordered
<1> QED
  BY <1>8, <1>9, <1>10

\* LIMIT and OFFSET: a page shows requests of the queue, and it shows those whose places
\* are on it.
LEMMA PageShows ==
    ASSUME LedgerKept, NEW W \in SUBSET DOMAIN reqs, NEW p \in Nat \ {0}, NEW s \in Nat \ {0}
    PROVE  /\ \A i \in DOMAIN Page(W, p, s) : Page(W, p, s)[i] \in W
           /\ \A r \in W : /\ (p - 1) * s <= Cardinality(Ahead(W, r))
                           /\ Cardinality(Ahead(W, r)) < p * s
                           => r \in Range(Page(W, p, s))
<1> PICK n : n = Cardinality(W)
  OBVIOUS
<1> PICK all : all = Ordered(W)
  OBVIOUS
<1> PICK b : b = (p - 1) * s
  OBVIOUS
<1>1. n \in Nat /\ Len(all) = n /\ \A i \in 1 .. n : all[i] \in W
  BY AheadCount, OrderedIsQueue
<1>2. b \in Nat /\ p * s = b + s
  OBVIOUS
<1> PICK e : e = Min({b + s, n})
  OBVIOUS
<1>3. e \in Nat /\ e <= b + s /\ e <= n /\ (e = b + s \/ e = n)
  <2>1. \E x \in {b + s, n} : \A y \in {b + s, n} : x =< y
    BY <1>1, <1>2
  <2>2. e \in {b + s, n} /\ \A y \in {b + s, n} : e =< y
    BY <2>1, Zenon DEF Min
  <2> QED
    BY <1>1, <1>2, <2>2
<1> PICK page : page = Page(W, p, s)
  OBVIOUS
<1> PICK m : m = b + 1
  OBVIOUS
<1>4. page = SubSeq(all, m, e)
  BY <1>1, <1>2 DEF Page
<1>5. \A i \in m .. e : all[i] \in W
  BY <1>1, <1>2, <1>3
<1>6. m \in Int /\ e \in Int
  BY <1>2, <1>3
<1>7. /\ page \in Seq(W)
      /\ Len(page) = IF m <= e THEN e - m + 1 ELSE 0
      /\ \A i \in 1 .. e - m + 1 : page[i] = all[m + i - 1]
  <2>1. page \in Seq(W)
    BY <1>4, <1>5, <1>6, SubSeqProperties
  <2>2. Len(page) = IF m <= e THEN e - m + 1 ELSE 0
    BY <1>4, <1>5, <1>6, SubSeqProperties
  <2>3. ASSUME NEW i \in 1 .. e - m + 1
        PROVE  page[i] = all[m + i - 1]
    BY <1>4, <1>5, <1>6, SubSeqProperties
  <2> QED
    BY <2>1, <2>2, <2>3
<1>8. DOMAIN page = 1 .. Len(page) /\ Len(page) \in Nat /\ \A i \in DOMAIN page : page[i] \in W
  BY <1>7, LenProperties
<1>9. ASSUME NEW r \in W, b <= Cardinality(Ahead(W, r)), Cardinality(Ahead(W, r)) < b + s
      PROVE  r \in Range(page)
  <2>1. PICK k : k = Cardinality(Ahead(W, r))
    OBVIOUS
  <2>2. k \in Nat /\ k + 1 <= n /\ all[k + 1] = r
    BY <2>1, AheadCount, OrderedIsQueue
  <2>3. PICK i : i = k + 1 - b
    OBVIOUS
  <2>4. /\ b <= k /\ k < b + s /\ b \in Nat /\ s \in Nat /\ k \in Nat /\ k + 1 <= n /\ n \in Nat
        /\ m = b + 1 /\ i = k + 1 - b /\ e \in Nat /\ (e = b + s \/ e = n)
    BY <1>1, <1>2, <1>3, <1>9, <2>1, <2>2, <2>3
  <2>5. i \in Nat /\ 1 <= i /\ i <= e - m + 1 /\ m + i - 1 = k + 1 /\ m <= e
    BY <2>4
  <2>6. i \in DOMAIN page /\ i \in 1 .. e - m + 1
    BY <1>7, <1>8, <2>4, <2>5
  <2>7. page[i] = r
    BY <1>7, <2>2, <2>5, <2>6
  <2> QED
    BY <2>6, <2>7 DEF Range
<1> QED
  BY <1>2, <1>8, <1>9

\* Of two queues, the requests of the first that come into the first n places only in the
\* second are no more than those that left the first: each of them had n requests ahead,
\* still has all but the ones that left, and no two have the same place.
LEMMA Crossing ==
    ASSUME LedgerKept, NEW Q \in SUBSET DOMAIN reqs, NEW W \in SUBSET DOMAIN reqs, NEW n \in Nat,
           NEW C, C = (Front(W, n) \cap Q) \ Front(Q, n)
    PROVE  /\ IsFiniteSet(C) /\ Cardinality(C) \in Nat /\ Cardinality(Q \ W) \in Nat
           /\ Cardinality(C) <= Cardinality(Q \ W)
<1> PICK D : D = Q \ W
  OBVIOUS
<1> PICK d : d = Cardinality(D)
  OBVIOUS
<1>1. IsFiniteSet(Q) /\ IsFiniteSet(W) /\ IsFiniteSet(D) /\ d \in Nat
  BY AheadCount, FS_Subset, FS_CardinalityType
<1>2. ASSUME NEW c \in C
      PROVE  Cardinality(Ahead(W, c)) \in (n - d) .. (n - 1)
  <2>1. c \in Q /\ c \in W /\ Cardinality(Ahead(W, c)) < n /\ ~(Cardinality(Ahead(Q, c)) < n)
    BY DEF Front
  <2>2. PICK A : A = Ahead(Q, c)
    OBVIOUS
  <2>3. PICK B : B = Ahead(W, c)
    OBVIOUS
  <2>4. A \subseteq Q /\ B \subseteq W /\ A \ D \subseteq B
    BY <2>2, <2>3 DEF Ahead
  <2>5. IsFiniteSet(A) /\ IsFiniteSet(B)
    BY <1>1, <2>4, FS_Subset
  <2>6. /\ IsFiniteSet(A \ D)
        /\ Cardinality(A \ D) = Cardinality(A) - Cardinality(A \cap D)
    BY <2>5, FS_Difference
  <2>7. IsFiniteSet(A \cap D) /\ Cardinality(A \cap D) <= d
    BY <1>1, FS_Subset
  <2>8. Cardinality(A \ D) <= Cardinality(B)
    BY <2>4, <2>5, FS_Subset
  <2>9. /\ Cardinality(A) \in Nat /\ Cardinality(B) \in Nat /\ Cardinality(A \ D) \in Nat
        /\ Cardinality(A \cap D) \in Nat
    BY <2>5, <2>6, <2>7, FS_CardinalityType
  <2>10. Cardinality(B) < n /\ Cardinality(A) >= n
    BY <2>1, <2>2, <2>3, <2>9
  <2>11. Cardinality(B) \in (n - d) .. (n - 1)
    BY <1>1, <2>6, <2>7, <2>8, <2>9, <2>10
  <2> QED
    BY <2>3, <2>11
<1>3. PICK g : g = [c \in C |-> Cardinality(Ahead(W, c))]
  OBVIOUS
<1>4. g \in [C -> (n - d) .. (n - 1)]
  BY <1>2, <1>3
<1>5. ASSUME NEW b \in C, NEW c \in C, g[b] = g[c]
      PROVE  b = c
  <2>1. b \in W /\ c \in W /\ Cardinality(Ahead(W, b)) = Cardinality(Ahead(W, c))
    BY <1>3, <1>5 DEF Front
  <2> QED
    BY <2>1, PlacesApart
<1>6. g \in Injection(C, (n - d) .. (n - 1))
  BY <1>4, <1>5 DEF Injection, IsInjective
<1>7. n - d \in Int /\ n - 1 \in Int
  BY <1>1
<1>8. IsFiniteSet((n - d) .. (n - 1)) /\ Cardinality((n - d) .. (n - 1)) = d
  <2>1. PICK lo, hi : lo = n - d /\ hi = n - 1
    OBVIOUS
  <2>2. IsFiniteSet(lo .. hi) /\ Cardinality(lo .. hi) = IF lo > hi THEN 0 ELSE hi - lo + 1
    BY <1>7, <2>1, FS_Interval
  <2>3. (IF lo > hi THEN 0 ELSE hi - lo + 1) = d
    BY <1>1, <2>1
  <2> QED
    BY <2>1, <2>2, <2>3
<1>9. IsFiniteSet(C) /\ Cardinality(C) <= d
  BY <1>6, <1>8, FS_Injection
<1> QED
  BY <1>1, <1>9, FS_CardinalityType

----
(* The administrator's desk. *)

\* A walk that has not begun has missed nothing.
LEMMA NoWalkMisses ==
    ASSUME desk.walk = NoWalk
    PROVE  MissedByDepartures
<1>1. NoWalk.stayed = {} /\ NoWalk.gone = 0
  BY DEF NoWalk
<1>2. ({} \cap Front(NoWalk.queue, NoWalk.upto)) \ NoWalk.shown = {}
  OBVIOUS
<1>3. Cardinality({}) = 0
  BY FS_EmptySet
<1> QED
  BY <1>1, <1>2, <1>3 DEF MissedByDepartures

LEMMA NoWalkMissesNext ==
    ASSUME desk'.walk = NoWalk
    PROVE  MissedByDepartures'
<1>1. NoWalk.stayed = {} /\ NoWalk.gone = 0
  BY DEF NoWalk
<1>2. \A S, T : ({} \cap S) \ T = {}
  OBVIOUS
<1>3. Cardinality({}) = 0
  BY FS_EmptySet
<1> QED
  BY <1>1, <1>2, <1>3 DEF MissedByDepartures

\* Nothing changes the places of the requests that a walk is about: priorities stay, and
\* new requests are not in its queue.
LEMMA WalkGoesOn ==
    ASSUME Grows, WalkKept, desk'.walk = desk.walk
    PROVE  MissedByDepartures' /\ desk'.walk.queue \subseteq DOMAIN reqs'
<1>1. PICK Q, n : Q = desk.walk.queue /\ n = desk.walk.upto
  OBVIOUS
<1>2. Q \subseteq DOMAIN reqs
  BY <1>1 DEF WalkKept
<1>3. \A q, r \in Q : Before(q, r)' <=> Before(q, r)
  BY <1>2 DEF Before, Grows
<1>4. \A r \in Q : Ahead(Q, r)' = Ahead(Q, r)
  BY <1>3 DEF Ahead
<1>5. Front(Q, n)' = Front(Q, n)
  BY <1>4 DEF Front
<1>6. MissedByDepartures'
  BY <1>1, <1>5 DEF WalkKept, MissedByDepartures
<1> QED
  BY <1>1, <1>2, <1>6 DEF Grows

\* The desk is kept by whatever leaves it alone.
LEMMA DeskStays ==
    ASSUME DeskInv, Grows, UNCHANGED desk
    PROVE  DeskInv'
<1>1. MissedByDepartures' /\ desk'.walk.queue \subseteq DOMAIN reqs'
  BY WalkGoesOn DEF DeskInv
<1>2. WalkKept'
  BY <1>1 DEF DeskInv, WalkKept
<1>3. \A it : ItemKept(it) => ItemKept(it)'
  BY DEF ItemKept, Grows
<1> QED
  BY <1>2, <1>3 DEF DeskInv

LEMMA DeskCleared ==
    ASSUME desk' = NotReading
    PROVE  DeskInv'
<1>1. /\ DOMAIN desk' = DOMAIN NotReading /\ desk'.pc = "idle" /\ desk'.page = 1 /\ desk'.size = 1
      /\ desk'.targets = {} /\ desk'.items = << >> /\ desk'.walk = NoWalk
  BY DEF NotReading
<1>2. /\ DOMAIN NoWalk = DOMAIN NoWalk /\ NoWalk.stayed = {} /\ NoWalk.queue = {}
      /\ NoWalk.gone = 0 /\ NoWalk.upto = 0
  BY DEF NoWalk
<1>3. WalkKept'
  BY <1>1, <1>2, NoWalkMissesNext DEF WalkKept
<1> QED
  BY <1>1, <1>3 DEF DeskInv

DeskFields == {"pc", "filter", "page", "size", "total", "items", "targets", "walk"}

\* A page that is asked for: the next one of the same list goes on with the walk, any
\* other begins anew (Queue).
LEMMA QueueKeeps ==
    ASSUME DeskInv, Queue
    PROVE  DeskInv'
<1>1. PICK page, size, walk :
          /\ page \in Nat \ {0} /\ size \in Nat \ {0}
          /\ \/ walk = NoWalk
             \/ walk = desk.walk /\ page = desk.page + 1 /\ size = desk.size
          /\ \E f : desk' = [NotReading EXCEPT !.pc = "count", !.filter = f, !.page = page,
                               !.size = size, !.walk = walk]
  <2>1. PICK q \in QueueRequests :
          LET page == PageNumber(q.page)
              size == PageSize(q.size)
              goesOn == page = desk.page + 1 /\ size = desk.size /\ q.filter = desk.filter
          IN desk' = [NotReading EXCEPT !.pc = "count", !.filter = q.filter, !.page = page,
                        !.size = size, !.walk = IF goesOn THEN desk.walk ELSE NoWalk]
    BY DEF Queue
  <2>2. PICK page, size : page = PageNumber(q.page) /\ size = PageSize(q.size)
    OBVIOUS
  <2>3. PICK walk : walk = IF page = desk.page + 1 /\ size = desk.size /\ q.filter = desk.filter
                           THEN desk.walk ELSE NoWalk
    OBVIOUS
  <2>4. page \in Nat \ {0} /\ size \in Nat \ {0}
    BY <2>2, QueueAssumption DEF PageNumber, PageSize
  <2>5. desk' = [NotReading EXCEPT !.pc = "count", !.filter = q.filter, !.page = page,
                   !.size = size, !.walk = walk]
    BY <2>1, <2>2, <2>3
  <2> QED
    BY <2>3, <2>4, <2>5
<1>2. desk.pc \in {"idle", "shown"} /\ UNCHANGED reqs
  BY DEF Queue
<1>4. /\ DOMAIN desk' = DOMAIN NotReading /\ desk'.pc = "count" /\ desk'.page = page
      /\ desk'.size = size /\ desk'.targets = {} /\ desk'.items = << >> /\ desk'.walk = walk
  BY <1>1 DEF NotReading
<1>5. WalkKept'
  <2>1. CASE walk = NoWalk
    <3>1. /\ DOMAIN walk = DOMAIN NoWalk /\ walk.stayed = {} /\ walk.queue = {}
          /\ walk.gone = 0 /\ walk.upto = 0
      BY <2>1 DEF NoWalk
    <3> QED
      BY <1>4, <2>1, <3>1, NoWalkMissesNext DEF WalkKept
  <2>2. CASE walk = desk.walk /\ page = desk.page + 1 /\ size = desk.size
    <3>1. MissedByDepartures' /\ desk'.walk.queue \subseteq DOMAIN reqs'
      BY <1>2, <1>4, <2>2, WalkGoesOn DEF DeskInv, Grows
    <3>2. desk.page * desk.size = (page - 1) * size
      <4>1. desk.page = page - 1
        BY <2>2 DEF DeskInv
      <4> QED
        BY <2>2, <4>1
    <3>3. /\ DOMAIN walk = DOMAIN NoWalk /\ walk.stayed \subseteq walk.queue
          /\ walk.gone \in Nat /\ walk.upto \in Nat
          /\ walk.stayed # {} => walk.upto = desk.page * desk.size
      BY <1>2, <2>2 DEF DeskInv, WalkKept
    <3> QED
      BY <1>4, <3>1, <3>2, <3>3 DEF WalkKept
  <2> QED
    BY <1>1, <2>1, <2>2
<1> QED
  BY <1>1, <1>4, <1>5 DEF DeskInv

\* An item of a page is about what is counted with it (warningsFor).
LEMMA ItemsKept ==
    ASSUME LedgerKept, NEW r \in DOMAIN reqs
    PROVE  ItemKept(Item(r))
<1>1. PICK it : it = Item(r)
  OBVIOUS
<1>2. PICK g : g = reqs[r].group
  OBVIOUS
<1>3. /\ it.id = r /\ it.group = g /\ it.capacity = capacity[g] /\ it.seated = Accepted(g)
      /\ it.accepted = AcceptedOf(r) /\ it.warnings = WarningsFor(r)
  BY <1>1, <1>2 DEF Item
<1>4. g \in Groups /\ capacity[g] \in Nat /\ reqs[r].student \in Students
  BY <1>2 DEF LedgerKept
<1>5. Accepted(g) \subseteq DOMAIN reqs /\ AcceptedOf(r) \subseteq DOMAIN reqs
  BY DEF Accepted, AcceptedOf
<1>6. /\ IsFiniteSet(Accepted(g)) /\ IsFiniteSet(AcceptedOf(r))
      /\ Cardinality(Accepted(g)) \in Nat /\ Cardinality(AcceptedOf(r)) \in Nat
  BY <1>5, FS_Subset, FS_CardinalityType DEF LedgerKept
<1>7. Completed[reqs[r].student] \in Nat
  BY <1>4, QueueAssumption
<1>8. "maximum" \notin WarningsFor(r) => Cardinality(AcceptedOf(r)) < MaxElectivesPerSemester
  <2>1. "maximum" \notin WarningsFor(r)
            => ~(Completed[reqs[r].student] + Cardinality(AcceptedOf(r)) >= MaxElectivesPerSemester)
    BY DEF WarningsFor
  <2> QED
    BY <1>6, <1>7, <2>1, MaxElectivesAssumption
<1>9. "capacity" \notin WarningsFor(r) => Cardinality(Accepted(g)) < capacity[g]
  <2>1. "capacity" \notin WarningsFor(r) => ~(Cardinality(Accepted(g)) >= capacity[g])
    BY <1>2 DEF WarningsFor
  <2> QED
    BY <1>4, <1>6, <2>1
<1>10. ItemKept(it)
  BY <1>3, <1>4, <1>6, <1>8, <1>9 DEF ItemKept
<1> QED
  BY <1>1, <1>10

\* A walk that comes to a page has passed only requests that the page shows, that were
\* passed before, or that came forward in the place of one that left (QueuePage).
LEMMA WalkedKeeps ==
    ASSUME LedgerKept, DeskInv, desk.pc = "page", NEW W, NEW page, W = Workload(desk.filter),
           page = Page(W, desk.page, desk.size), NEW v, v = Walked(W, page)
    PROVE  /\ DOMAIN v = DOMAIN NoWalk
           /\ v.stayed \subseteq v.queue /\ v.queue \subseteq DOMAIN reqs
           /\ v.gone \in Nat /\ v.upto \in Nat /\ v.upto = desk.page * desk.size
           /\ Cardinality((v.stayed \cap Front(v.queue, v.upto)) \ v.shown) <= v.gone
<1> PICK p, s, w : p = desk.page /\ s = desk.size /\ w = desk.walk
  OBVIOUS
<1>1. /\ p \in Nat \ {0} /\ s \in Nat \ {0} /\ p * s \in Nat /\ (p - 1) * s \in Nat
  BY DEF DeskInv
<1>2. W \in SUBSET DOMAIN reqs
  BY DEF Workload
<1>3. /\ v.stayed = (IF p = 1 THEN W ELSE w.stayed \cap W) /\ v.queue = W /\ v.upto = p * s
      /\ v.shown = (IF p = 1 THEN Range(page) ELSE w.shown \cup Range(page))
      /\ v.gone = (IF p = 1 THEN 0 ELSE w.gone + Cardinality(w.queue \ W))
      /\ DOMAIN v = DOMAIN NoWalk
  BY DEF Walked, NoWalk
<1>4. /\ w.stayed \subseteq w.queue /\ w.queue \in SUBSET DOMAIN reqs /\ w.gone \in Nat
      /\ w.stayed # {} => w.upto = (p - 1) * s
      /\ Cardinality((w.stayed \cap Front(w.queue, w.upto)) \ w.shown) <= w.gone
  BY DEF DeskInv, WalkKept, MissedByDepartures
<1>5. ASSUME NEW r \in W, Cardinality(Ahead(W, r)) < p * s, r \notin Range(page)
      PROVE  Cardinality(Ahead(W, r)) < (p - 1) * s
  <2>1. ~((p - 1) * s <= Cardinality(Ahead(W, r)))
    BY <1>1, <1>2, <1>5, PageShows
  <2>2. Cardinality(Ahead(W, r)) \in Nat
    BY <1>2, AheadCount
  <2> QED
    BY <1>1, <2>1, <2>2
<1>6. Cardinality({}) = 0
  BY FS_EmptySet
<1> PICK Missed : Missed = (v.stayed \cap Front(W, p * s)) \ v.shown
  OBVIOUS
<1>7. CASE p = 1
  <2>1. Missed = {}
    <3>1. SUFFICES ASSUME NEW r \in Missed
                   PROVE  FALSE
      OBVIOUS
    <3>2. r \in W /\ Cardinality(Ahead(W, r)) < p * s /\ r \notin Range(page)
      BY <1>3, <1>7 DEF Front
    <3>3. Cardinality(Ahead(W, r)) < 0
      BY <1>1, <1>5, <1>7, <3>2
    <3>4. Cardinality(Ahead(W, r)) \in Nat
      BY <1>2, <3>2, AheadCount
    <3> QED
      BY <3>3, <3>4
  <2>2. v.gone = 0 /\ v.stayed = W
    BY <1>3, <1>7
  <2>3. Cardinality(Missed) = 0
    BY <1>6, <2>1, Zenon
  <2>4. Cardinality(Missed) <= v.gone /\ v.gone \in Nat
    BY <2>2, <2>3
  <2> QED
    BY <1>1, <1>2, <1>3, <2>2, <2>4
<1>8. CASE p # 1
  <2>1. v.stayed = w.stayed \cap W /\ v.shown = w.shown \cup Range(page)
    BY <1>3, <1>8
  <2>2. PICK Q, n, C : Q = w.queue /\ n = (p - 1) * s /\ C = (Front(W, n) \cap Q) \ Front(Q, n)
    OBVIOUS
  <2>3. /\ IsFiniteSet(C) /\ Cardinality(C) \in Nat /\ Cardinality(Q \ W) \in Nat
        /\ Cardinality(C) <= Cardinality(Q \ W)
    <3>1. Q \in SUBSET DOMAIN reqs /\ n \in Nat
      BY <1>1, <1>4, <2>2
    <3> QED
      BY <1>2, <2>2, <3>1, Crossing
  <2>4. v.gone = w.gone + Cardinality(Q \ W) /\ v.gone \in Nat
    BY <1>3, <1>4, <1>8, <2>2, <2>3
  <2>5. Cardinality(Missed) <= v.gone
    <3>1. CASE w.stayed = {}
      <4>1. Missed = {}
        BY <2>1, <3>1
      <4>2. Cardinality(Missed) = 0
        BY <1>6, <4>1, Zenon
      <4> QED
        BY <2>4, <4>2
    <3>2. CASE w.stayed # {}
      <4>1. PICK M : M = (w.stayed \cap Front(Q, n)) \ w.shown
        OBVIOUS
      <4>2. Cardinality(M) <= w.gone
        BY <1>4, <2>2, <3>2, <4>1
      <4>3. M \subseteq DOMAIN reqs
        BY <1>4, <4>1
      <4>4. IsFiniteSet(M) /\ Cardinality(M) \in Nat
        BY <4>3, FS_Subset, FS_CardinalityType DEF LedgerKept
      <4>5. Missed \subseteq M \cup C
        <5>1. SUFFICES ASSUME NEW r \in Missed
                       PROVE  r \in M \cup C
          OBVIOUS
        <5>2. /\ r \in W /\ r \in w.stayed /\ r \notin w.shown /\ r \notin Range(page)
              /\ Cardinality(Ahead(W, r)) < p * s
          BY <2>1 DEF Front
        <5>3. r \in Front(W, n) /\ r \in Q
          BY <1>4, <1>5, <2>2, <5>2 DEF Front
        <5> QED
          BY <2>2, <4>1, <5>2, <5>3
      <4>6. /\ IsFiniteSet(M \cup C) /\ IsFiniteSet(M \cap C)
            /\ Cardinality(M \cup C) = Cardinality(M) + Cardinality(C) - Cardinality(M \cap C)
        BY <2>3, <4>4, FS_Union, FS_Subset
      <4>7. Cardinality(M \cap C) \in Nat /\ Cardinality(M \cup C) \in Nat
        BY <4>6, FS_CardinalityType
      <4>8. IsFiniteSet(Missed) /\ Cardinality(Missed) <= Cardinality(M \cup C)
        BY <4>5, <4>6, FS_Subset
      <4>9. Cardinality(Missed) \in Nat
        BY <4>8, FS_CardinalityType
      <4> QED
        BY <1>4, <2>3, <2>4, <4>2, <4>4, <4>6, <4>7, <4>8, <4>9
    <3> QED
      BY <3>1, <3>2
  <2>6. v.stayed \subseteq W
    BY <2>1
  <2> QED
    BY <1>1, <1>2, <1>3, <2>4, <2>5, <2>6
<1> QED
  BY <1>7, <1>8

\* The statements of a page: the count, the page itself and the groups of its offerings
\* (ListQueue).
LEMMA QueueStepsKeep ==
    ASSUME LedgerKept, DeskInv, QueueSteps
    PROVE  DeskInv'
<1>1. UNCHANGED <<reqs, capacity>>
  BY DEF QueueSteps, QueueCount, QueuePage, AttachOfferingGroups, requestVars
<1>2. Grows
  BY <1>1 DEF Grows
<1>3. DOMAIN desk = DeskFields /\ DOMAIN NotReading = DeskFields
  BY DEF DeskInv, NotReading, DeskFields
<1>4. \A it : ItemKept(it) => ItemKept(it)'
  BY <1>1 DEF ItemKept
<1>5. CASE QueueCount
  <2>1. PICK n : desk' = [desk EXCEPT !.pc = "page", !.total = n]
    BY <1>5 DEF QueueCount
  <2>2. /\ DOMAIN desk' = DeskFields /\ desk'.pc = "page" /\ desk'.page = desk.page
        /\ desk'.size = desk.size /\ desk'.items = desk.items /\ desk'.targets = desk.targets
        /\ desk'.walk = desk.walk /\ desk.pc = "count"
    BY <1>3, <1>5, <2>1 DEF DeskFields, QueueCount
  <2>3. MissedByDepartures' /\ desk'.walk.queue \subseteq DOMAIN reqs'
    BY <1>2, <2>2, WalkGoesOn DEF DeskInv
  <2>4. WalkKept'
    BY <2>2, <2>3 DEF DeskInv, WalkKept
  <2> QED
    BY <1>3, <1>4, <2>2, <2>4 DEF DeskInv
<1>6. CASE QueuePage
  <2>1. PICK W, page, items, v : /\ W = Workload(desk.filter) /\ page = Page(W, desk.page, desk.size)
                                 /\ items = [i \in DOMAIN page |-> Item(page[i])]
                                 /\ v = Walked(W, page)
    OBVIOUS
  <2>2. PICK pc \in {"idle", "groups"} :
            desk' = [desk EXCEPT !.pc = pc, !.items = items, !.walk = v] /\ desk.pc = "page"
    BY <1>6, <2>1 DEF QueuePage
  <2>3. /\ DOMAIN desk' = DeskFields /\ desk'.pc = pc /\ desk'.page = desk.page
        /\ desk'.size = desk.size /\ desk'.items = items /\ desk'.targets = desk.targets
        /\ desk'.walk = v
    BY <1>3, <2>2 DEF DeskFields
  <2>4. /\ DOMAIN v = DOMAIN NoWalk
        /\ v.stayed \subseteq v.queue /\ v.queue \subseteq DOMAIN reqs
        /\ v.gone \in Nat /\ v.upto \in Nat /\ v.upto = desk.page * desk.size
        /\ Cardinality((v.stayed \cap Front(v.queue, v.upto)) \ v.shown) <= v.gone
    BY <2>1, <2>2, WalkedKeeps
  <2>5. Front(v.queue, v.upto)' = Front(v.queue, v.upto)
    BY <1>1 DEF Front, Ahead, Before
  <2>6. MissedByDepartures'
    BY <2>3, <2>4, <2>5 DEF MissedByDepartures
  <2>7. WalkKept'
    BY <1>1, <2>3, <2>4, <2>6 DEF WalkKept
  <2>8. ASSUME NEW i \in DOMAIN items
        PROVE  ItemKept(items[i])'
    <3>1. W \in SUBSET DOMAIN reqs /\ desk.page \in Nat \ {0} /\ desk.size \in Nat \ {0}
      BY <2>1 DEF Workload, DeskInv
    <3>2. i \in DOMAIN page /\ items[i] = Item(page[i])
      BY <2>1
    <3>3. page[i] \in DOMAIN reqs
      BY <2>1, <3>1, <3>2, PageShows
    <3> QED
      BY <1>4, <3>2, <3>3, ItemsKept
  <2> QED
    BY <1>3, <2>3, <2>7, <2>8 DEF DeskInv
<1>7. CASE AttachOfferingGroups
  <2>1. PICK T \in SUBSET Groups : desk' = [desk EXCEPT !.pc = "shown", !.targets = T]
    BY <1>7 DEF AttachOfferingGroups
  <2>2. /\ DOMAIN desk' = DeskFields /\ desk'.pc = "shown" /\ desk'.page = desk.page
        /\ desk'.size = desk.size /\ desk'.items = desk.items /\ desk'.targets = T
        /\ desk'.walk = desk.walk /\ desk.pc = "groups"
    BY <1>3, <1>7, <2>1 DEF DeskFields, AttachOfferingGroups
  <2>3. MissedByDepartures' /\ desk'.walk.queue \subseteq DOMAIN reqs'
    BY <1>2, <2>2, WalkGoesOn DEF DeskInv
  <2>4. WalkKept'
    BY <2>2, <2>3 DEF DeskInv, WalkKept
  <2> QED
    BY <1>3, <1>4, <2>2, <2>4 DEF DeskInv
<1> QED
  BY <1>5, <1>6, <1>7 DEF QueueSteps

----
(* The program. *)

LEMMA InitInv == Init => IInv
<1> SUFFICES ASSUME Init PROVE IInv
  OBVIOUS
<1>1. IsFiniteSet({}) /\ Cardinality({}) = 0
  BY FS_EmptySet
<1>2. RequestsInv
  <2>1. faults = 0 /\ calls = [c \in Clients |-> Idle] /\ reqs = << >> /\ DOMAIN << >> = {}
    BY DEF Init, RequestsInit, LedgerInit
  <2>2. capacity \in [Groups -> Nat]
    BY RequestsAssumption DEF Init, RequestsInit
  <2>3. LedgerKept
    BY <1>1, <2>1, <2>2 DEF LedgerKept
  <2> QED
    BY <2>1, <2>3, IdleKept DEF RequestsInv
<1>3. DeskInv
  <2>1. /\ desk = NotReading /\ desk.pc = "idle" /\ desk.page = 1 /\ desk.size = 1
        /\ desk.targets = {} /\ desk.items = << >> /\ desk.walk = NoWalk
    BY DEF Init, QueueInit, NotReading
  <2>2. NoWalk.stayed = {} /\ NoWalk.queue = {} /\ NoWalk.gone = 0 /\ NoWalk.upto = 0
    BY DEF NoWalk
  <2>3. WalkKept
    BY <2>1, <2>2, NoWalkMisses DEF WalkKept
  <2> QED
    BY <2>1, <2>3 DEF DeskInv
<1>4. ReplicasInv
  <2>1. /\ life = [p \in Replicas |-> IF budget.down THEN "down" ELSE "up"]
        /\ at = [p \in Replicas |-> 0] /\ stops = 0
    BY DEF Init, ReplicasInit
  <2>2. PICK n \in 0 .. LastVersion :
            applied = [v \in 1 .. n |-> v] /\ (~budget.down => n = LastVersion)
    BY DEF Init, ReplicasInit
  <2>3. n \in Nat /\ applied \in [1 .. n -> Nat] /\ n <= LastVersion
    BY <2>2, ReplicasAssumption
  <2>4. applied \in Seq(Nat) /\ Len(applied) = n /\ DOMAIN applied = 1 .. n
    BY <2>3
  <2>5. \A i \in DOMAIN applied : applied[i] = i
    BY <2>2, <2>4
  <2>6. \A p \in Replicas : life[p] = "down" \/ (life[p] = "up" /\ Len(applied) = LastVersion)
    BY <2>1, <2>2, <2>4
  <2> QED
    BY <2>1, <2>3, <2>4, <2>5, <2>6 DEF ReplicasInv
<1>5. ReportingInv
  <2>1. /\ exports = << >> /\ files = << >> /\ work = [p \in Replicas |-> NoWork]
        /\ download.code = "none" /\ faults = 0 /\ stops = 0
    BY DEF Init, ReportingInit, RequestsInit, ReplicasInit
  <2>2. DOMAIN << >> = {} /\ Len(<< >>) = 0 /\ \A S : << >> \in Seq(S)
    OBVIOUS
  <2>3. \A p \in Replicas : ~Busy(p) /\ work[p] = NoWork /\ work[p].pc = "idle"
    BY <2>1 DEF Busy, NoWork
  <2>4. JobsHeld
    BY <2>1, <2>2, <2>3 DEF JobsHeld
  <2>5. Orphans = {} /\ Leaving = {}
    BY <2>1, <2>2, <2>3 DEF Orphans, Leaving
  <2> QED
    BY <1>1, <2>1, <2>4, <2>5 DEF ReportingInv, OrphansCounted
<1> QED
  BY <1>2, <1>3, <1>4, <1>5 DEF IInv

\* When the last process ends, so do the calls; a page that was shown stays.
LEMMA CallsEndKeeps ==
    ASSUME RequestsInv, DeskInv, NEW p \in Replicas, CallsEnd(p)
    PROVE  RequestsInv' /\ DeskInv'
<1>1. UNCHANGED <<reqs, capacity, faults>> /\ (desk' = desk \/ desk' = NotReading)
  BY DEF CallsEnd, requestVars
<1>2. LedgerKept' /\ Grows /\ faults' \in Nat
  BY <1>1, LedgerStays DEF RequestsInv
<1>3. DeskInv'
  BY <1>1, <1>2, DeskStays, DeskCleared
<1>4. calls' = calls \/ calls' = [c \in Clients |-> Idle]
  BY DEF CallsEnd, requestVars
<1>5. RequestsInv'
  BY <1>2, <1>4, IdleKept DEF RequestsInv
<1> QED
  BY <1>3, <1>5

\* Every step of the program keeps the invariants of its components.
LEMMA NextInv ==
    ASSUME IInv, [Next]_vars
    PROVE  IInv'
<1> USE DEF requestVars, replicaVars, reportVars
<1>1. RequestsInv /\ DeskInv /\ ReplicasInv /\ ReportingInv /\ faults \in Nat /\ LedgerKept
  BY DEF IInv, RequestsInv
<1>2. CASE UNCHANGED vars
  <2>1. RequestsInv' /\ Grows /\ ReplicasInv' /\ ReportingInv'
    BY <1>1, <1>2, RequestsStay, ReplicasStay, ReportsStay DEF vars
  <2>2. DeskInv'
    BY <1>1, <1>2, <2>1, DeskStays DEF vars
  <2> QED
    BY <2>1, <2>2 DEF IInv
<1>3. CASE Calls
  <2>1. ReplicasInv' /\ UNCHANGED <<life, stops>>
    BY <1>1, <1>3, ReplicasStay DEF Calls
  <2>2. CASE RequestsPosts /\ UNCHANGED <<browse, desk, reportVars>>
    <3>1. RequestsInv' /\ Grows /\ faults' >= faults /\ faults' \in Nat
      BY <1>1, <2>2, RequestsKeep DEF RequestsInv
    <3>2. DeskInv'
      BY <1>1, <2>2, <3>1, DeskStays
    <3>3. ReportingInv'
      BY <2>1, <2>2, <3>1, ReportsStay
    <3> QED
      BY <2>1, <3>1, <3>2, <3>3 DEF IInv
  <2>3. CASE (ListOfferings \/ GetOfferingDetail) /\ UNCHANGED <<desk, reportVars>>
    <3>1. UNCHANGED <<reqs, capacity, calls, faults>>
      BY <2>3 DEF ListOfferings, GetOfferingDetail
    <3>2. RequestsInv' /\ Grows /\ ReportingInv'
      BY <1>1, <2>1, <2>3, <3>1, RequestsStay, ReportsStay
    <3>3. DeskInv'
      BY <1>1, <2>3, <3>2, DeskStays
    <3> QED
      BY <2>1, <3>2, <3>3 DEF IInv
  <2>4. CASE (Queue \/ Decide) /\ UNCHANGED reportVars
    <3>1. /\ UNCHANGED faults /\ (Queue => UNCHANGED <<reqs, capacity, calls>>)
          /\ Decide => UNCHANGED desk
      BY <2>4 DEF Queue, Decide
    <3>2. RequestsInv' /\ Grows
      BY <1>1, <2>4, <3>1, RequestsStay, DecideKeeps
    <3>3. DeskInv'
      BY <1>1, <2>4, <3>1, <3>2, QueueKeeps, DeskStays
    <3>4. ReportingInv'
      BY <1>1, <2>1, <2>4, <3>1, ReportsStay
    <3> QED
      BY <2>1, <3>2, <3>3, <3>4 DEF IInv
  <2>5. CASE /\ CreateExport \/ (Download /\ UNCHANGED budget)
             /\ UNCHANGED <<reqs, capacity, closed, open, calls, faults, browse, desk>>
    <3>1. RequestsInv' /\ Grows
      BY <1>1, <2>5, RequestsStay
    <3>2. DeskInv'
      BY <1>1, <2>5, <3>1, DeskStays
    <3>3. ReportingInv'
      BY <1>3, <2>5, ReportCallsKeep DEF Calls
    <3> QED
      BY <2>1, <3>1, <3>2, <3>3 DEF IInv
  <2> QED
    BY <1>3, <2>2, <2>3, <2>4, <2>5 DEF Calls
<1>4. CASE Answers
  <2>1. ReplicasInv' /\ UNCHANGED <<life, stops>>
    BY <1>1, <1>4, ReplicasStay DEF Answers
  <2>2. CASE RequestsSteps /\ UNCHANGED <<browse, desk, reportVars>>
    <3>1. RequestsInv' /\ Grows /\ faults' >= faults /\ faults' \in Nat
      BY <1>1, <2>2, RequestsKeep DEF RequestsInv
    <3>2. DeskInv'
      BY <1>1, <2>2, <3>1, DeskStays
    <3>3. ReportingInv'
      BY <2>1, <2>2, <3>1, ReportsStay
    <3> QED
      BY <2>1, <3>1, <3>2, <3>3 DEF IInv
  <2>3. CASE ListGroups /\ UNCHANGED <<desk, reportVars>>
    <3>1. UNCHANGED <<reqs, capacity, calls, faults>>
      BY <2>3 DEF ListGroups
    <3>2. RequestsInv' /\ Grows /\ ReportingInv'
      BY <1>1, <2>1, <2>3, <3>1, RequestsStay, ReportsStay
    <3>3. DeskInv'
      BY <1>1, <2>3, <3>2, DeskStays
    <3> QED
      BY <2>1, <3>2, <3>3 DEF IInv
  <2>4. CASE QueueSteps /\ UNCHANGED reportVars
    <3>1. UNCHANGED <<reqs, capacity, calls, faults>>
      BY <2>4 DEF QueueSteps, QueueCount, QueuePage, AttachOfferingGroups
    <3>2. RequestsInv' /\ ReportingInv'
      BY <1>1, <2>1, <2>4, <3>1, RequestsStay, ReportsStay
    <3>3. DeskInv'
      BY <1>1, <2>4, QueueStepsKeep
    <3> QED
      BY <2>1, <3>2, <3>3 DEF IInv
  <2> QED
    BY <1>4, <2>2, <2>3, <2>4 DEF Answers
<1>5. ASSUME NEW p \in Replicas, Work(p) \/ WorkFails(p)
      PROVE  IInv'
  <2>1. ReplicasInv' /\ UNCHANGED <<reqs, capacity, calls, desk>>
    BY <1>1, <1>5, ReplicasStay DEF Work, WorkFails
  <2>2. ReportingInv' /\ faults' \in Nat
    BY <1>1, <1>5, WorkKeeps, WorkFailsKeeps DEF Work
  <2>3. RequestsInv' /\ Grows
    BY <1>1, <2>1, <2>2, RequestsStay
  <2>4. DeskInv'
    BY <1>1, <2>1, <2>3, DeskStays
  <2> QED
    BY <2>1, <2>2, <2>3, <2>4 DEF IInv
<1>6. ASSUME NEW p \in Replicas, Start(p) \/ Leave(p) \/ Stop(p)
      PROVE  IInv'
  <2>1. ReportingInv' /\ faults' = faults
    BY <1>6, LivesKeepReports
  <2>2. ReplicasInv'
    BY <1>1, <1>6, ReplicaStep DEF Start, Leave, Stop
  <2>3. CallsEnd(p) \/ UNCHANGED <<requestVars, browse, desk>>
    BY <1>6 DEF Start, Leave, Stop
  <2>4. RequestsInv' /\ DeskInv'
    BY <1>1, <2>1, <2>3, CallsEndKeeps, RequestsStay, DeskStays
  <2> QED
    BY <2>1, <2>2, <2>4 DEF IInv
<1> QED
  BY <1>2, <1>3, <1>4, <1>5, <1>6 DEF Next

\* The invariant of the program: the conjunction of what its components keep.
THEOREM ProgramInvariant == Spec => []IInv
  BY InitInv, NextInv, PTL DEF Spec

----
(* The properties. *)

\* No replica serves before the schema is complete, and the migrations are applied once
\* each, in order, by one replica at a time (RunMigrations), for any number of replicas
\* and migrations.
THEOREM SchemaFirstHolds == Spec => []SchemaFirst
<1>1. IInv => SchemaFirst
  BY DEF IInv, ReplicasInv, SchemaFirst
<1> QED
  BY <1>1, ProgramInvariant, PTL

\* An export that is PROCESSING has one worker, or was left behind by a fault or a stop,
\* and a COMPLETED one has a whole file (processOne), for any number of replicas, exports,
\* faults and stops.
THEOREM ExportsAccountedHolds == Spec => []ExportsAccounted
<1>1. ASSUME IInv
      PROVE  ExportsAccounted
  <2>1. ASSUME NEW n \in DOMAIN exports
        PROVE  Cardinality(JobOf(n)) <= 1
    <3>1. CASE JobOf(n) = {}
      <4>1. Cardinality(JobOf(n)) = 0
        BY <3>1, FS_EmptySet
      <4> QED
        BY <4>1
    <3>2. ASSUME NEW p \in JobOf(n)
          PROVE  Cardinality(JobOf(n)) <= 1
      <4>1. JobOf(n) = {p}
        BY <1>1, <3>2, Counters DEF JobsHeld, JobOf, Busy
      <4>2. Cardinality(JobOf(n)) = 1
        BY <4>1, FS_Singleton
      <4> QED
        BY <4>2
    <3> QED
      BY <3>1, <3>2
  <2>2. \A n \in DOMAIN exports : JobOf(n) # {} => exports[n] = "PROCESSING"
    BY <1>1, Counters DEF JobsHeld, JobOf, Busy
  <2>3. Cardinality(Orphans) <= faults + stops
    <3>1. Cardinality(Orphans) \in Nat /\ Cardinality(Leaving) \in Nat
      BY <1>1, Counters, CountsFinite
    <3> QED
      BY <1>1, <3>1, Counters DEF ReportingInv, OrphansCounted
  <2>4. /\ \A n \in DOMAIN exports : exports[n] = "COMPLETED" => files[n].whole
        /\ download.code = "200" => download.file.whole
    BY <1>1, Counters DEF JobsHeld
  <2> QED
    BY <2>1, <2>2, <2>3, <2>4 DEF ExportsAccounted, Orphans
<1> QED
  BY <1>1, ProgramInvariant, PTL

\* An administrator who reads page after page misses at most as many of the requests that
\* stayed in the queue as left it between two pages (ListQueue), for any queue, page size,
\* filter and number of submissions, decisions and cancellations in between.
THEOREM MissedByDeparturesHolds == Spec => []MissedByDepartures
<1>1. IInv => MissedByDepartures
  BY DEF IInv, DeskInv, WalkKept
<1> QED
  BY <1>1, ProgramInvariant, PTL

\* An item that was shown without a warning can be accepted unless something happened
\* since its page was read (warningsFor against ApplyDecision), for any cap, capacities
\* and electives completed before.
THEOREM RefusalsExplainedHolds == Spec => []RefusalsExplained
<1>1. ASSUME IInv
      PROVE  RefusalsExplained
  <2>1. SUFFICES ASSUME NEW i \in DOMAIN desk.items, NEW it, it = desk.items[i],
                        it.warnings \cap {"maximum", "capacity"} = {}, ~IsTerminal(it.status),
                        reqs[it.id].status = it.status, reqs[it.id].group = it.group,
                        ~(capacity[it.group] < it.capacity),
                        Accepted(it.group) \subseteq it.seated,
                        AcceptedOf(it.id) \subseteq it.accepted
                 PROVE  ApplyDecision("ACCEPT", Context(it.id, it.group)) = "ACCEPTED"
    BY DEF RefusalsExplained
  <2>2. ItemKept(it) /\ LedgerKept
    BY <1>1, <2>1 DEF IInv, DeskInv, RequestsInv
  <2>3. /\ IsFiniteSet(it.seated) /\ Cardinality(it.seated) < it.capacity
        /\ IsFiniteSet(it.accepted) /\ Cardinality(it.accepted) < MaxElectivesPerSemester
        /\ it.capacity \in Nat /\ it.group \in Groups
    <3>1. "maximum" \notin it.warnings /\ "capacity" \notin it.warnings
      BY <2>1
    <3> QED
      BY <2>2, <3>1 DEF ItemKept
  <2>4. capacity[it.group] \in Nat
    BY <2>2, <2>3 DEF LedgerKept
  <2>5. PICK n, m : n = Cardinality(Accepted(it.group)) /\ m = Cardinality(AcceptedOf(it.id))
    OBVIOUS
  <2>6. n <= Cardinality(it.seated) /\ IsFiniteSet(Accepted(it.group))
    BY <2>1, <2>3, <2>5, FS_Subset
  <2>7. m <= Cardinality(it.accepted) /\ IsFiniteSet(AcceptedOf(it.id))
    BY <2>1, <2>3, <2>5, FS_Subset
  <2>8. n \in Nat /\ m \in Nat /\ Cardinality(it.seated) \in Nat /\ Cardinality(it.accepted) \in Nat
    BY <2>3, <2>5, <2>6, <2>7, FS_CardinalityType
  <2>9. ~(n >= capacity[it.group]) /\ ~(m >= MaxElectivesPerSemester)
    BY <2>1, <2>3, <2>4, <2>6, <2>7, <2>8, MaxElectivesAssumption
  <2>10. PICK ctx : ctx = Context(it.id, it.group)
    OBVIOUS
  <2>11. /\ ctx.reasonValid /\ ctx.status = it.status /\ ctx.studentAccepted = m
         /\ ctx.capacity = capacity[it.group] /\ ctx.groupAccepted = n
    BY <2>1, <2>5, <2>10 DEF Context
  <2>12. AcceptanceOutcome("ACCEPT", ctx) = "ACCEPTED"
    BY <2>9, <2>11 DEF AcceptanceOutcome
  <2>13. ApplyDecision("ACCEPT", ctx) = "ACCEPTED"
    BY <2>1, <2>11, <2>12 DEF ApplyDecision, OpenOutcome, AcceptanceTypes
  <2> QED
    BY <2>10, <2>13
<1> QED
  BY <1>1, ProgramInvariant, PTL

====
