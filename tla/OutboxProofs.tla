---- MODULE OutboxProofs ----
(***************************************************************************)
(* The outbox for any number of workers, notifications and attempts: every *)
(* row and every local keeps its type, a row is given up only after the    *)
(* sends that its count claims, and a finished row stays finished.         *)
(*                                                                         *)
(* The invariant follows the count of attempts from the row to the job of  *)
(* a claim and back: a stale count can fall behind the sends that really   *)
(* failed, and never runs ahead of them.                                   *)
(***************************************************************************)
EXTENDS Outbox, TLAPS, SequenceTheorems, FiniteSetTheorems

----
(* The backoff is a number of seconds the next_attempt_at column can hold. *)

\* A power of two is a natural number: it counts the subsets of an interval.
LEMMA PowerType ==
    ASSUME NEW k \in Nat
    PROVE  2 ^ k \in Nat
<1>1. IsFiniteSet(1 .. k) /\ Cardinality(1 .. k) = k
  BY FS_Interval
<1>2. IsFiniteSet(SUBSET (1 .. k)) /\ Cardinality(SUBSET (1 .. k)) = 2 ^ k
  BY <1>1, FS_SUBSET
<1> QED
  BY <1>2, FS_CardinalityType

\* retryBackoff and what is left of it never exceed the maximum.
LEMMA RetryWaitType ==
    ASSUME NEW attempt \in Nat, NEW age \in Nat
    PROVE  RetryWait(attempt, age) \in 0 .. MaxBackoff
<1> PICK n, d : /\ n = (IF attempt < 1 THEN 1 ELSE attempt)
                /\ d = BaseBackoff * 2 ^ (n - 1)
  OBVIOUS
<1>0. MaxBackoff \in Nat /\ BaseBackoff \in Nat
  BY OutboxAssumption
<1>1. n - 1 \in Nat
  OBVIOUS
<1>2. 2 ^ (n - 1) \in Nat
  BY <1>1, PowerType
<1>3. \A a, b \in Nat : a * b \in Nat
  OBVIOUS
<1>4. d \in Nat
  BY <1>0, <1>2, <1>3
<1>5. RetryBackoff(attempt) = IF n > 10 \/ d > MaxBackoff THEN MaxBackoff ELSE d
  BY DEF RetryBackoff
<1>6. RetryBackoff(attempt) \in 0 .. MaxBackoff
  BY <1>0, <1>4, <1>5
<1> QED
  BY <1>0, <1>6 DEF RetryWait

----
(* Rows. *)

\* A table with the same rows, each of them well typed, is well typed.
LEMMA RowsMapped ==
    ASSUME IInv, rows' = [n \in DOMAIN rows |-> rows'[n]], \A n \in DOMAIN rows : rows'[n] \in Row
    PROVE  rows' \in Seq(Row) /\ Len(rows') = Len(rows) /\ DOMAIN rows' = DOMAIN rows
<1>1. rows \in Seq(Row) /\ Len(rows) \in Nat /\ DOMAIN rows = 1 .. Len(rows)
  BY LenProperties DEF IInv, TypeOK
<1>2. rows' \in [1 .. Len(rows) -> Row]
  BY <1>1
<1>3. rows' \in Seq(Row)
  BY <1>1, <1>2, SeqDef
<1> QED
  BY <1>1, <1>2, <1>3, LenProperties

\* An UPDATE of one row.
LEMMA RowUpdated ==
    ASSUME IInv, NEW n \in DOMAIN rows, NEW row \in Row, rows' = [rows EXCEPT ![n] = row]
    PROVE  /\ rows' \in Seq(Row) /\ Len(rows') = Len(rows) /\ DOMAIN rows' = DOMAIN rows
           /\ rows'[n] = row /\ \A m \in DOMAIN rows : m # n => rows'[m] = rows[m]
<1>1. rows \in Seq(Row) /\ DOMAIN rows = 1 .. Len(rows)
  BY LenProperties DEF IInv, TypeOK
<1>2. \A m \in DOMAIN rows : rows'[m] = IF m = n THEN row ELSE rows[m]
  BY <1>1
<1>3. \A m \in DOMAIN rows : rows'[m] \in Row
  BY <1>1, <1>2, ElementOfSeq
<1>4. rows' = [m \in DOMAIN rows |-> rows'[m]]
  BY <1>1
<1> QED
  BY <1>2, <1>3, <1>4, RowsMapped

\* The rows are numbered from 1, up to MaxRows.
LEMMA RowIds ==
    ASSUME IInv
    PROVE  /\ DOMAIN rows = 1 .. Len(rows) /\ Len(rows) \in 0 .. MaxRows
           /\ \A n \in DOMAIN rows : rows[n] \in Row /\ n \in 1 .. MaxRows /\ failures[n] \in Nat
<1>1. rows \in Seq(Row) /\ Len(rows) <= MaxRows /\ MaxRows \in Nat /\ MaxDeliveryAttempts \in Nat
  BY OutboxAssumption DEF IInv, TypeOK
<1>2. DOMAIN rows = 1 .. Len(rows) /\ Len(rows) \in Nat
  BY <1>1, LenProperties
<1>3. \A n \in DOMAIN rows : rows[n] \in Row
  BY <1>1, <1>2, ElementOfSeq
<1>4. failures \in [1 .. MaxRows -> 0 .. MaxDeliveryAttempts]
  BY DEF IInv, TypeOK
<1> QED
  BY <1>1, <1>2, <1>3, <1>4

----
(* Workers. *)

\* A worker's part of the invariant, besides the types of its locals.
WorkerOK(w) ==
    /\ Len(workers[w].jobs) <= Batch
    /\ workers[w].pc \in Stamped \cup {"deliver"} => workers[w].jobs # << >>
    /\ WorkerCounted(w)

\* Rows are never deleted and failures never undone.
Growing == /\ DOMAIN rows \subseteq DOMAIN rows'
           /\ \A n \in DOMAIN rows : failures[n] <= failures'[n] /\ failures'[n] \in Nat

\* The invariant, put together from its parts.
LEMMA Assembled ==
    ASSUME rows' \in Seq(Row), Len(rows') <= MaxRows, workers' \in [Workers -> Worker],
           failures' \in [1 .. MaxRows -> 0 .. MaxDeliveryAttempts], faults' \in 0 .. MaxFaults,
           \A n \in DOMAIN rows' :
               (RowCounted(n) /\ (rows[n].status = "FAILED" => failures[n] = MaxDeliveryAttempts))',
           \A w \in Workers : WorkerOK(w)'
    PROVE  IInv'
BY DEF IInv, TypeOK, Worker, WorkerOK, FailedWasTried

\* A worker has its type, and its jobs are numbered from 1.
LEMMA WorkerType ==
    ASSUME IInv, NEW w \in Workers
    PROVE  /\ workers[w] \in Worker /\ WorkerOK(w)
           /\ DOMAIN workers[w].jobs = 1 .. Len(workers[w].jobs)
           /\ Len(workers[w].jobs) \in Nat
<1>1. workers[w] \in Worker /\ WorkerOK(w)
  BY DEF IInv, TypeOK, WorkerOK
<1> QED
  BY <1>1, LenProperties DEF Worker

\* A job of a worker is about a row that is there, with no more attempts than failed sends.
LEMMA JobType ==
    ASSUME IInv, NEW w \in Workers, NEW i \in DOMAIN workers[w].jobs
    PROVE  LET j == workers[w].jobs[i]
           IN /\ j \in Job /\ j.id \in DOMAIN rows /\ j.id \in 1 .. MaxRows
              /\ j.attempts \in 0 .. MaxDeliveryAttempts - 1 /\ j.attempts \in Nat
              /\ j.attempts <= failures[j.id] /\ failures[j.id] \in Nat
<1> DEFINE j == workers[w].jobs[i]
<1>1. j \in Job
  BY WorkerType, ElementOfSeq DEF Worker
<1>2. j.id \in DOMAIN rows /\ j.attempts <= failures[j.id]
  BY WorkerType DEF WorkerOK, WorkerCounted
<1>3. j.id \in 1 .. MaxRows /\ j.attempts \in 0 .. MaxDeliveryAttempts - 1
  BY <1>1 DEF Job
<1>4. failures[j.id] \in Nat
  BY <1>2, RowIds
<1> HIDE DEF j
<1>5. j.attempts \in Nat
  BY <1>3
<1> QED
  BY <1>1, <1>2, <1>3, <1>4, <1>5 DEF j

\* The job at hand, between the claim of a batch and its end.
LEMMA CurrentJob ==
    ASSUME IInv, NEW w \in Workers, workers[w].pc \in Stamped \cup {"deliver"}
    PROVE  /\ workers[w].jobs # << >> /\ 1 \in DOMAIN workers[w].jobs
           /\ Current(w) = workers[w].jobs[1]
           /\ Current(w).id \in DOMAIN rows /\ Current(w).id \in 1 .. MaxRows
           /\ Current(w).attempts \in 0 .. MaxDeliveryAttempts - 1
           /\ Current(w).attempts <= failures[Current(w).id]
<1>1. /\ workers[w].jobs # << >> /\ workers[w].jobs \in Seq(Job)
      /\ DOMAIN workers[w].jobs = 1 .. Len(workers[w].jobs)
  BY WorkerType DEF WorkerOK, Worker
<1>2. Current(w) = workers[w].jobs[1] /\ 1 \in DOMAIN workers[w].jobs
  BY <1>1, EmptySeq DEF Current
<1> QED
  BY <1>1, <1>2, JobType

\* A worker that keeps its jobs, and has not just failed to send, is as good as before.
LEMMA SameJobs ==
    ASSUME IInv, Growing, NEW w \in Workers, workers'[w].jobs = workers[w].jobs,
           workers'[w].pc \in Stamped \cup {"deliver"} =>
               workers[w].pc \in Stamped \cup {"deliver"},
           workers'[w].pc = "record" /\ workers'[w].err =>
               workers[w].pc = "record" /\ workers[w].err
    PROVE  WorkerOK(w)'
<1>1. /\ WorkerOK(w) /\ workers[w].jobs \in Seq(Job)
      /\ DOMAIN workers[w].jobs = 1 .. Len(workers[w].jobs)
  BY WorkerType DEF Worker
<1>2. \A i \in DOMAIN workers[w].jobs :
         /\ workers[w].jobs[i].id \in DOMAIN rows /\ workers[w].jobs[i].attempts \in Nat
         /\ workers[w].jobs[i].attempts <= failures[workers[w].jobs[i].id]
         /\ failures[workers[w].jobs[i].id] \in Nat
  BY JobType
<1>3. \A i \in DOMAIN workers[w].jobs :
         /\ workers[w].jobs[i].id \in DOMAIN rows'
         /\ workers[w].jobs[i].attempts <= failures'[workers[w].jobs[i].id]
  BY <1>2 DEF Growing
<1>4. workers[w].pc = "record" /\ workers[w].err =>
         Current(w).attempts < failures'[Current(w).id]
  <2>1. SUFFICES ASSUME workers[w].pc = "record", workers[w].err
                 PROVE  Current(w).attempts < failures'[Current(w).id]
    OBVIOUS
  <2>2. workers[w].jobs # << >> /\ Current(w).attempts < failures[Current(w).id]
    BY <1>1, <2>1 DEF WorkerOK, WorkerCounted, Stamped
  <2>3. Current(w) = workers[w].jobs[1] /\ 1 \in DOMAIN workers[w].jobs
    BY <2>1, CurrentJob DEF Stamped
  <2> QED
    BY <1>2, <2>2, <2>3 DEF Growing
<1> QED
  BY <1>1, <1>3, <1>4 DEF WorkerOK, WorkerCounted, Current

\* An idle worker has nothing to answer for.
LEMMA IdleWorker ==
    ASSUME NEW w \in Workers, workers'[w] = Idle
    PROVE  WorkerOK(w)'
<1>1. /\ workers'[w].jobs = << >> /\ workers'[w].pc = "idle"
  BY DEF Idle
<1>2. Len(<< >>) = 0 /\ DOMAIN << >> = {} /\ Batch \in Nat
  BY OutboxAssumption
<1> QED
  BY <1>1, <1>2 DEF WorkerOK, WorkerCounted, Stamped

\* Its locals have their types.
LEMMA IdleType == Idle \in Worker
<1>1. << >> \in Seq(Job) /\ 0 \in Spans
  BY EmptySeq, OutboxAssumption DEF Spans
<1> QED
  BY <1>1 DEF Idle, Worker

\* So has one that begins a batch, or goes on with it, if the jobs are good.
LEMMA DrainingOK ==
    ASSUME IInv, NEW w \in Workers, NEW jobs \in Seq(Job), Len(jobs) <= Batch,
           \A i \in 1 .. Len(jobs) : /\ jobs[i].id \in DOMAIN rows'
                                     /\ jobs[i].attempts <= failures'[jobs[i].id],
           workers' = [workers EXCEPT ![w] = Draining(jobs)]
    PROVE  workers' \in [Workers -> Worker] /\ WorkerOK(w)'
<1>1. workers \in [Workers -> Worker] /\ DOMAIN jobs = 1 .. Len(jobs)
  BY LenProperties DEF IInv
<1>2. 0 \in Spans
  BY OutboxAssumption DEF Spans
<1>3. Draining(jobs) \in Worker
  BY <1>2 DEF Draining, Worker
<1>4. workers'[w] = Draining(jobs)
  BY <1>1
<1>5. /\ workers'[w].jobs = jobs /\ workers'[w].err = FALSE
      /\ workers'[w].pc = IF jobs = << >> THEN "idle" ELSE "deliver"
  BY <1>4 DEF Draining
<1> QED
  BY <1>1, <1>3, <1>5 DEF WorkerOK, WorkerCounted, Stamped

\* After a job the worker goes on with the rest of its batch.
LEMMA NextJobOK ==
    ASSUME IInv, Growing, NEW w \in Workers, workers[w].pc \in Stamped \cup {"deliver"},
           NextJob(w)
    PROVE  workers' \in [Workers -> Worker] /\ \A v \in Workers : WorkerOK(v)'
<1> DEFINE jobs == workers[w].jobs
           rest == Tail(jobs)
<1>1. /\ workers \in [Workers -> Worker] /\ jobs \in Seq(Job) /\ jobs # << >>
      /\ Len(jobs) <= Batch /\ Len(jobs) \in Nat /\ DOMAIN jobs = 1 .. Len(jobs)
      /\ Batch \in Nat
  BY CurrentJob, WorkerType, OutboxAssumption DEF IInv, Worker, WorkerOK
<1>2. /\ rest \in Seq(Job) /\ Len(rest) = Len(jobs) - 1
      /\ \A i \in 1 .. Len(rest) : rest[i] = jobs[i + 1]
  BY <1>1, HeadTailProperties
<1>3. workers' = [workers EXCEPT ![w] = Draining(rest)]
  BY DEF NextJob
<1>4. \A i \in 1 .. Len(rest) : /\ rest[i].id \in DOMAIN rows'
                                /\ rest[i].attempts <= failures'[rest[i].id]
  <2>1. SUFFICES ASSUME NEW i \in 1 .. Len(rest)
                 PROVE  rest[i].id \in DOMAIN rows' /\ rest[i].attempts <= failures'[rest[i].id]
    OBVIOUS
  <2>2. rest[i] = jobs[i + 1] /\ i + 1 \in DOMAIN jobs
    BY <1>1, <1>2
  <2> HIDE DEF jobs, rest
  <2>3. /\ jobs[i + 1].id \in DOMAIN rows /\ jobs[i + 1].attempts \in Nat
        /\ jobs[i + 1].attempts <= failures[jobs[i + 1].id]
        /\ failures[jobs[i + 1].id] \in Nat
    BY <2>2, JobType DEF jobs
  <2> QED
    BY <2>2, <2>3 DEF Growing
<1> HIDE DEF jobs, rest
<1>5. workers' \in [Workers -> Worker] /\ WorkerOK(w)'
  <2>1. Len(rest) <= Batch
    BY <1>1, <1>2
  <2> QED
    BY <1>2, <1>3, <1>4, <2>1, DrainingOK
<1>6. ASSUME NEW v \in Workers, v # w
      PROVE  WorkerOK(v)'
  <2>1. workers'[v] = workers[v]
    BY <1>1, <1>3, <1>6
  <2> QED
    BY <2>1, SameJobs
<1> QED
  BY <1>5, <1>6

----
(* The steps.  Each one leaves every row counted and every worker in order. *)

\* What is left to show when no failure is counted and every row keeps its attempts.
LEMMA CountsKept ==
    ASSUME IInv, UNCHANGED failures, DOMAIN rows' = DOMAIN rows,
           rows' \in Seq(Row), Len(rows') = Len(rows), faults' \in 0 .. MaxFaults,
           \A n \in DOMAIN rows :
              /\ rows'[n].attempts = rows[n].attempts
              /\ rows'[n].status \in {"PENDING", "SENDING"} =>
                    rows[n].status \in {"PENDING", "SENDING"}
              /\ rows'[n].status = "FAILED" => rows[n].status = "FAILED",
           workers' \in [Workers -> Worker], \A w \in Workers : WorkerOK(w)'
    PROVE  IInv'
<1>1. \A n \in DOMAIN rows' :
         (RowCounted(n) /\ (rows[n].status = "FAILED" => failures[n] = MaxDeliveryAttempts))'
  BY DEF IInv, RowCounted, FailedWasTried
<1>2. Len(rows') <= MaxRows /\ failures' \in [1 .. MaxRows -> 0 .. MaxDeliveryAttempts]
  BY DEF IInv, TypeOK
<1> QED
  BY <1>1, <1>2, Assembled

\* A step that counts no failure and keeps the rows is Growing.
LEMMA NothingUndone ==
    ASSUME IInv, UNCHANGED failures, DOMAIN rows \subseteq DOMAIN rows'
    PROVE  Growing
<1>1. \A n \in DOMAIN rows : failures[n] \in Nat
  BY RowIds
<1> QED
  BY <1>1 DEF Growing

\* Enqueue.
LEMMA EnqueueStep ==
    ASSUME IInv, Enqueue
    PROVE  IInv'
<1> DEFINE row == [status |-> "PENDING", attempts |-> 0, wait |-> 0, claim |-> None, age |-> 0]
<1>1. /\ rows \in Seq(Row) /\ DOMAIN rows = 1 .. Len(rows) /\ Len(rows) \in 0 .. MaxRows
      /\ Len(rows) < MaxRows /\ MaxRows \in Nat
  BY RowIds, OutboxAssumption DEF IInv, TypeOK, Enqueue
<1>2. row \in Row
  BY OutboxAssumption DEF Row, Ages
<1>3. rows' = Append(rows, row) /\ UNCHANGED <<workers, failures, faults>>
  BY DEF Enqueue
<1> HIDE DEF row
<1>4. /\ rows' \in Seq(Row) /\ Len(rows') = Len(rows) + 1
      /\ \A i \in 1 .. Len(rows) : rows'[i] = rows[i]
      /\ rows'[Len(rows) + 1] = row
  BY <1>1, <1>2, <1>3, AppendProperties
<1>5. DOMAIN rows' = 1 .. Len(rows) + 1
  BY <1>4, LenProperties
<1>6. Growing
  BY <1>1, <1>3, <1>5, NothingUndone
<1>7. ASSUME NEW n \in DOMAIN rows'
      PROVE  (RowCounted(n) /\ (rows[n].status = "FAILED" => failures[n] = MaxDeliveryAttempts))'
  <2>1. CASE n \in DOMAIN rows
    BY <1>1, <1>3, <1>4, <2>1 DEF IInv, RowCounted, FailedWasTried
  <2>2. CASE n \notin DOMAIN rows
    <3>1. n = Len(rows) + 1
      BY <1>1, <1>5, <1>7, <2>2
    <3>2. rows'[n] = row /\ n \in 1 .. MaxRows
      BY <1>1, <1>4, <3>1
    <3>3. failures[n] \in Nat
      BY <3>2, OutboxAssumption DEF IInv, TypeOK
    <3> QED
      BY <1>3, <3>2, <3>3, OutboxAssumption DEF RowCounted, row
  <2> QED
    BY <2>1, <2>2
<1>8. \A w \in Workers : WorkerOK(w)'
  BY <1>3, <1>6, SameJobs
<1>9. /\ Len(rows') <= MaxRows /\ workers' \in [Workers -> Worker]
      /\ failures' \in [1 .. MaxRows -> 0 .. MaxDeliveryAttempts] /\ faults' \in 0 .. MaxFaults
  BY <1>1, <1>3, <1>4 DEF IInv, TypeOK
<1> QED
  BY <1>4, <1>7, <1>8, <1>9, Assembled

\* A worker that moves on with the jobs it has keeps its type and disturbs no other.
LEMMA MovesOn ==
    ASSUME IInv, Growing, NEW w \in Workers, NEW local \in Worker,
           workers' = [workers EXCEPT ![w] = local], local.jobs = workers[w].jobs,
           local.pc \in Stamped \cup {"deliver"} => workers[w].pc \in Stamped \cup {"deliver"},
           local.pc = "record" /\ local.err => workers[w].pc = "record" /\ workers[w].err
    PROVE  workers' \in [Workers -> Worker] /\ \A v \in Workers : WorkerOK(v)'
<1>1. workers \in [Workers -> Worker]
  BY DEF IInv
<1>2. workers'[w] = local /\ \A v \in Workers : v # w => workers'[v] = workers[v]
  BY <1>1
<1>3. WorkerOK(w)'
  BY <1>2, SameJobs
<1>4. ASSUME NEW v \in Workers, v # w PROVE WorkerOK(v)'
  BY <1>2, <1>4, SameJobs
<1> QED
  BY <1>1, <1>3, <1>4

\* A stamp just written has age 0.
LEMMA ZeroAge == 0 \in Ages
BY OutboxAssumption DEF Ages

\* Reap: a row whose lease has expired becomes PENDING again, with its attempts.
LEMMA ReapStep ==
    ASSUME IInv, NEW w \in Workers, Reap(w)
    PROVE  IInv'
<1>0. \A n \in DOMAIN rows : rows[n] \in Row
  BY RowIds
<1>1. /\ rows' = [n \in DOMAIN rows |->
                    IF rows[n].status = "SENDING" /\ IsLeaseExpired(rows[n].age)
                    THEN [rows[n] EXCEPT !.status = "PENDING", !.claim = None, !.age = 0]
                    ELSE rows[n]]
      /\ workers' = [workers EXCEPT ![w].pc = "claim"]
      /\ UNCHANGED <<failures, faults>> /\ workers[w].pc = "idle"
  BY DEF Reap
<1>2. ASSUME NEW n \in DOMAIN rows
      PROVE  /\ rows'[n] \in Row /\ rows'[n].attempts = rows[n].attempts
             /\ \/ rows'[n].status = rows[n].status
                \/ rows'[n].status = "PENDING" /\ rows[n].status = "SENDING"
  <2>1. CASE rows'[n] = rows[n]
    BY <1>0, <2>1
  <2>2. CASE /\ rows'[n] = [rows[n] EXCEPT !.status = "PENDING", !.claim = None, !.age = 0]
             /\ rows[n].status = "SENDING"
    BY <1>0, <2>2, ZeroAge DEF Row
  <2> QED
    BY <1>1, <2>1, <2>2
<1>3. rows' = [n \in DOMAIN rows |-> rows'[n]]
  BY <1>1
<1>4. rows' \in Seq(Row) /\ Len(rows') = Len(rows) /\ DOMAIN rows' = DOMAIN rows
  BY <1>2, <1>3, RowsMapped
<1>5. Growing
  BY <1>1, <1>4, NothingUndone
<1>6. PICK local : local = [workers[w] EXCEPT !.pc = "claim"]
  OBVIOUS
<1>7. local \in Worker /\ local.jobs = workers[w].jobs /\ local.pc = "claim"
  BY <1>6, WorkerType DEF Worker
<1>8. workers' \in [Workers -> Worker] /\ \A v \in Workers : WorkerOK(v)'
  BY <1>1, <1>5, <1>6, <1>7, MovesOn DEF Stamped
<1>9. faults' \in 0 .. MaxFaults
  BY <1>1 DEF IInv, TypeOK
<1> QED
  BY <1>1, <1>2, <1>4, <1>8, <1>9, CountsKept

\* Claim: the rows of the batch were PENDING, so each has an attempt left; the jobs carry
\* the attempts of their rows.
LEMMA ClaimStep ==
    ASSUME IInv, NEW w \in Workers, Claim(w)
    PROVE  IInv'
<1>0. \A n \in DOMAIN rows : rows[n] \in Row /\ n \in 1 .. MaxRows /\ failures[n] \in Nat
  BY RowIds
<1>1. PICK ids \in BoundedSeq(DOMAIN rows, Batch) :
          /\ IsClaimBatch(ids)
          /\ rows' = [n \in DOMAIN rows |->
                        IF n \in Range(ids)
                        THEN [rows[n] EXCEPT !.status = "SENDING", !.claim = "claim", !.age = 0]
                        ELSE rows[n]]
          /\ workers' = [workers EXCEPT ![w] =
                           Draining([i \in DOMAIN ids |->
                                       [id |-> ids[i], attempts |-> rows[ids[i]].attempts]])]
  BY DEF Claim
<1>2. UNCHANGED <<failures, faults>>
  BY DEF Claim
<1>3. PICK m \in 0 .. Batch : ids \in [1 .. m -> DOMAIN rows]
  BY DEF BoundedSeq, SeqOf
<1>4. m \in Nat /\ m <= Batch
  BY OutboxAssumption
<1>5. \A i \in 1 .. m : rows[ids[i]].status = "PENDING" /\ ids[i] \in DOMAIN rows
  BY <1>1, <1>3 DEF IsClaimBatch, Claimable
<1>6. ASSUME NEW n \in DOMAIN rows
      PROVE  /\ rows'[n] \in Row /\ rows'[n].attempts = rows[n].attempts
             /\ \/ rows'[n].status = rows[n].status
                \/ rows'[n].status = "SENDING" /\ rows[n].status = "PENDING"
  <2>1. CASE n \notin Range(ids)
    BY <1>0, <1>1, <2>1
  <2>2. CASE n \in Range(ids)
    <3>1. rows[n].status = "PENDING"
      BY <1>3, <1>5, <2>2 DEF Range
    <3>2. rows'[n] = [rows[n] EXCEPT !.status = "SENDING", !.claim = "claim", !.age = 0]
      BY <1>1, <2>2
    <3> QED
      BY <1>0, <3>1, <3>2, ZeroAge DEF Row
  <2> QED
    BY <2>1, <2>2
<1>7. rows' = [n \in DOMAIN rows |-> rows'[n]]
  BY <1>1
<1>8. rows' \in Seq(Row) /\ Len(rows') = Len(rows) /\ DOMAIN rows' = DOMAIN rows
  BY <1>6, <1>7, RowsMapped
<1>9. Growing
  BY <1>2, <1>8, NothingUndone
<1> DEFINE jobs == [i \in 1 .. m |-> [id |-> ids[i], attempts |-> rows[ids[i]].attempts]]
<1>10. ASSUME NEW i \in 1 .. m
       PROVE  /\ jobs[i] \in Job /\ jobs[i].id \in DOMAIN rows'
              /\ jobs[i].attempts <= failures'[jobs[i].id]
  <2>1. PICK n \in DOMAIN rows : n = ids[i]
    BY <1>5
  <2>2. jobs[i].id = n /\ jobs[i].attempts = rows[n].attempts
       /\ jobs[i] = [id |-> n, attempts |-> rows[n].attempts]
    BY <2>1
  <2>3. rows[n].attempts <= failures[n] /\ rows[n].attempts < MaxDeliveryAttempts
    BY <1>5, <2>1 DEF IInv, RowCounted
  <2>4. n \in 1 .. MaxRows /\ rows[n].attempts \in 0 .. MaxDeliveryAttempts
    BY <1>0 DEF Row
  <2>5. rows[n].attempts \in 0 .. MaxDeliveryAttempts - 1
    BY <2>3, <2>4, OutboxAssumption
  <2> HIDE DEF jobs
  <2> QED
    BY <1>2, <1>8, <2>2, <2>3, <2>4, <2>5 DEF Job
<1>11. jobs \in [1 .. m -> Job]
  BY <1>10
<1>12. jobs \in Seq(Job) /\ Len(jobs) = m
  <2>1. jobs \in Seq(Job)
    BY <1>4, <1>11, SeqDef
  <2>2. DOMAIN jobs = 1 .. m
    OBVIOUS
  <2> HIDE DEF jobs
  <2> QED
    BY <1>4, <2>1, <2>2, LenProperties
<1>13. workers' = [workers EXCEPT ![w] = Draining(jobs)]
  BY <1>1, <1>3
<1> HIDE DEF jobs
<1>14. workers' \in [Workers -> Worker] /\ WorkerOK(w)'
  BY <1>4, <1>10, <1>12, <1>13, DrainingOK
<1>15. ASSUME NEW v \in Workers, v # w PROVE WorkerOK(v)'
  <2>1. workers'[v] = workers[v]
    BY <1>13, <1>15 DEF IInv
  <2> QED
    BY <1>9, <2>1, SameJobs
<1>16. faults' \in 0 .. MaxFaults
  BY <1>2 DEF IInv, TypeOK
<1> QED
  BY <1>2, <1>6, <1>8, <1>14, <1>15, <1>16, CountsKept

\* A re-stamp changes the claim of a row that is SENDING, and nothing that is counted.
LEMMA Restamped ==
    ASSUME IInv, NEW w \in Workers, workers[w].pc = "stamp",
           rows[Current(w).id].status = "SENDING",
           rows' = [rows EXCEPT ![Current(w).id].claim = w,
                                ![Current(w).id].age = Capped(workers[w].age)]
    PROVE  /\ rows' \in Seq(Row) /\ Len(rows') = Len(rows) /\ DOMAIN rows' = DOMAIN rows
           /\ \A n \in DOMAIN rows : /\ rows'[n].attempts = rows[n].attempts
                                     /\ rows'[n].status = rows[n].status
<1> DEFINE n == Current(w).id
           row == [rows[n] EXCEPT !.claim = w, !.age = Capped(workers[w].age)]
<1>1. n \in DOMAIN rows /\ rows[n] \in Row
  BY CurrentJob, RowIds DEF Stamped
<1>2. Capped(workers[w].age) \in Ages
  BY WorkerType, OutboxAssumption DEF Capped, Ages, Worker, Spans
<1>3. rows' = [rows EXCEPT ![n] = row]
  BY <1>1
<1>4. row \in Row /\ row.attempts = rows[n].attempts /\ row.status = rows[n].status
  BY <1>1, <1>2 DEF Row
<1> HIDE DEF n, row
<1> QED
  BY <1>1, <1>3, <1>4, RowUpdated

\* The clock of a worker starts again when it reads the time.
LEMMA Restarted ==
    ASSUME NEW local \in Worker, NEW pc \in Stamped
    PROVE  LET new == [local EXCEPT !.pc = pc, !.age = 0]
           IN new \in Worker /\ new.jobs = local.jobs /\ new.pc = pc
<1>1. 0 \in Spans
  BY OutboxAssumption DEF Spans
<1> QED
  BY <1>1 DEF Worker

\* TakeStamp.
LEMMA TakeStampStep ==
    ASSUME IInv, NEW w \in Workers, TakeStamp(w)
    PROVE  IInv'
<1>1. PICK local : local = [workers[w] EXCEPT !.pc = "stamp", !.age = 0]
  OBVIOUS
<1>2. workers' = [workers EXCEPT ![w] = local] /\ workers[w].pc = "deliver"
      /\ UNCHANGED <<rows, failures, faults>>
  BY <1>1, WorkerType DEF TakeStamp, IInv
<1>3. local \in Worker /\ local.jobs = workers[w].jobs /\ local.pc = "stamp"
  BY <1>1, WorkerType, Restarted DEF Stamped
<1>4. Growing
  BY <1>2, NothingUndone
<1>5. workers' \in [Workers -> Worker] /\ \A v \in Workers : WorkerOK(v)'
  BY <1>2, <1>3, <1>4, MovesOn
<1> QED
  BY <1>2, <1>5, CountsKept DEF IInv, TypeOK

\* Restamp.
LEMMA RestampStep ==
    ASSUME IInv, NEW w \in Workers, Restamp(w)
    PROVE  IInv'
<1>0. workers[w].pc = "stamp" /\ UNCHANGED <<failures, faults>> /\ faults' \in 0 .. MaxFaults
  BY DEF Restamp, IInv, TypeOK
<1>1. CASE rows[Current(w).id].status = "SENDING"
  <2>1. /\ rows' = [rows EXCEPT ![Current(w).id].claim = w,
                                ![Current(w).id].age = Capped(workers[w].age)]
        /\ workers' = [workers EXCEPT ![w].pc = "send", ![w].age = 0]
    BY <1>1 DEF Restamp
  <2>2. /\ rows' \in Seq(Row) /\ Len(rows') = Len(rows) /\ DOMAIN rows' = DOMAIN rows
        /\ \A n \in DOMAIN rows : /\ rows'[n].attempts = rows[n].attempts
                                  /\ rows'[n].status = rows[n].status
    BY <1>0, <1>1, <2>1, Restamped
  <2>3. PICK local : local = [workers[w] EXCEPT !.pc = "send", !.age = 0]
    OBVIOUS
  <2>4. workers' = [workers EXCEPT ![w] = local]
    BY <2>1, <2>3, WorkerType DEF IInv
  <2>5. local \in Worker /\ local.jobs = workers[w].jobs /\ local.pc = "send"
    BY <2>3, WorkerType, Restarted DEF Stamped
  <2>6. Growing
    BY <1>0, <2>2, NothingUndone
  <2>7. workers' \in [Workers -> Worker] /\ \A v \in Workers : WorkerOK(v)'
    BY <1>0, <2>4, <2>5, <2>6, MovesOn DEF Stamped
  <2> QED
    BY <1>0, <2>2, <2>7, CountsKept
<1>2. CASE rows[Current(w).id].status # "SENDING"
  <2>1. NextJob(w) /\ UNCHANGED rows
    BY <1>2 DEF Restamp
  <2>2. Growing
    BY <1>0, <2>1, NothingUndone
  <2>3. workers' \in [Workers -> Worker] /\ \A v \in Workers : WorkerOK(v)'
    BY <1>0, <2>1, <2>2, NextJobOK DEF Stamped
  <2> QED
    BY <1>0, <2>1, <2>3, CountsKept DEF IInv, TypeOK
<1> QED
  BY <1>1, <1>2

\* Send: a failed one is counted before the worker knows what to make of it.
LEMMA SendStep ==
    ASSUME IInv, NEW w \in Workers, Send(w)
    PROVE  IInv'
<1> DEFINE n == Current(w).id
<1>1. PICK err \in BOOLEAN :
          /\ failures' = IF err /\ failures[n] < MaxDeliveryAttempts
                         THEN [failures EXCEPT ![n] = @ + 1] ELSE failures
          /\ workers' = [workers EXCEPT ![w].pc = "record", ![w].err = err]
  BY DEF Send
<1>2. UNCHANGED <<rows, faults>> /\ workers[w].pc = "send"
  BY DEF Send
<1>3. /\ n \in DOMAIN rows /\ n \in 1 .. MaxRows
      /\ Current(w).attempts \in 0 .. MaxDeliveryAttempts - 1
      /\ Current(w).attempts <= failures[n] /\ workers[w].jobs # << >>
  BY <1>2, CurrentJob DEF Stamped
<1>4. failures \in [1 .. MaxRows -> 0 .. MaxDeliveryAttempts] /\ MaxDeliveryAttempts \in Nat
  BY OutboxAssumption DEF IInv, TypeOK
<1> HIDE DEF n
<1>5. /\ failures' \in [1 .. MaxRows -> 0 .. MaxDeliveryAttempts]
      /\ \A m \in 1 .. MaxRows : failures[m] <= failures'[m] /\ failures'[m] \in Nat
      /\ err => Current(w).attempts < failures'[n]
  BY <1>1, <1>3, <1>4
<1>6. Growing
  BY <1>2, <1>5, RowIds DEF Growing
<1>7. workers \in [Workers -> Worker] /\ workers[w] \in Worker
  BY WorkerType DEF IInv
<1>8. PICK local : local = [workers[w] EXCEPT !.pc = "record", !.err = err]
  OBVIOUS
<1>9. /\ workers' = [workers EXCEPT ![w] = local] /\ local \in Worker
      /\ local.jobs = workers[w].jobs /\ local.pc = "record" /\ local.err = err
  BY <1>1, <1>7, <1>8 DEF Worker, Stamped
<1>10. workers' \in [Workers -> Worker] /\ workers'[w] = local
  BY <1>7, <1>9
<1>11. WorkerOK(w)'
  <2>1. WorkerOK(w)
    BY WorkerType
  <2>2. \A i \in DOMAIN workers[w].jobs :
            /\ workers[w].jobs[i].id \in DOMAIN rows
            /\ workers[w].jobs[i].attempts <= failures'[workers[w].jobs[i].id]
    <3>1. SUFFICES ASSUME NEW i \in DOMAIN workers[w].jobs
                   PROVE  /\ workers[w].jobs[i].id \in DOMAIN rows
                          /\ workers[w].jobs[i].attempts <= failures'[workers[w].jobs[i].id]
      OBVIOUS
    <3>2. PICK j : j = workers[w].jobs[i]
      OBVIOUS
    <3>3. /\ j.id \in DOMAIN rows /\ j.id \in 1 .. MaxRows /\ j.attempts \in Nat
          /\ j.attempts <= failures[j.id] /\ failures[j.id] \in Nat
      BY <3>2, JobType
    <3>4. failures[j.id] <= failures'[j.id] /\ failures'[j.id] \in Nat
      BY <1>5, <3>3
    <3> QED
      BY <3>2, <3>3, <3>4
  <2> QED
    BY <1>2, <1>3, <1>5, <1>9, <1>10, <2>1, <2>2 DEF WorkerOK, WorkerCounted, Current, n
<1>12. ASSUME NEW v \in Workers, v # w PROVE WorkerOK(v)'
  <2>1. workers'[v] = workers[v]
    BY <1>7, <1>9, <1>12
  <2> QED
    BY <1>6, <2>1, SameJobs
<1>13. ASSUME NEW m \in DOMAIN rows'
       PROVE  (RowCounted(m) /\ (rows[m].status = "FAILED" => failures[m] = MaxDeliveryAttempts))'
  <2>1. /\ rows[m].attempts \in Nat /\ m \in 1 .. MaxRows /\ failures[m] \in Nat
    BY <1>2, <1>13, RowIds, OutboxAssumption DEF Row
  <2>2. RowCounted(m) /\ (rows[m].status = "FAILED" => failures[m] = MaxDeliveryAttempts)
    BY <1>2, <1>13 DEF IInv, FailedWasTried
  <2>3. /\ failures[m] <= failures'[m] /\ failures'[m] \in Nat
        /\ failures'[m] <= MaxDeliveryAttempts
    BY <1>4, <1>5, <2>1
  <2> QED
    BY <1>2, <1>4, <2>1, <2>2, <2>3 DEF RowCounted
<1> QED
  BY <1>2, <1>5, <1>10, <1>11, <1>12, <1>13, Assembled DEF IInv, TypeOK

\* The outcome of a send: FAILED only when the failures counted have reached the limit.
LEMMA OutcomeRow ==
    ASSUME IInv, NEW w \in Workers, workers[w].pc = "record"
    PROVE  LET row == Outcome(w)
               n   == Current(w).id
           IN /\ row \in Row /\ row.attempts <= failures[n]
              /\ row.status = "PENDING" => row.attempts < MaxDeliveryAttempts
              /\ row.status \in {"PENDING", "SENT", "FAILED"}
              /\ row.status = "FAILED" => failures[n] = MaxDeliveryAttempts
<1> PICK n, old, k, age :
        n = Current(w).id /\ old = rows[n] /\ k = Current(w).attempts /\ age = workers[w].age
  OBVIOUS
<1>1. /\ n \in DOMAIN rows /\ n \in 1 .. MaxRows /\ k \in 0 .. MaxDeliveryAttempts - 1
      /\ old \in Row /\ old.attempts <= failures[n]
  BY CurrentJob, RowIds DEF Stamped, IInv, RowCounted
<1>2. failures[n] \in 0 .. MaxDeliveryAttempts /\ MaxDeliveryAttempts \in Nat \ {0}
  BY <1>1, OutboxAssumption DEF IInv, TypeOK
<1>3. workers[w].err => k < failures[n]
  BY WorkerType DEF WorkerOK, WorkerCounted
<1>4. age \in Nat /\ workers[w].err \in BOOLEAN
  BY WorkerType, OutboxAssumption DEF Worker, Spans
<1>5. CASE ~workers[w].err
  <2>1. Outcome(w) = [old EXCEPT !.status = "SENT", !.claim = None, !.age = 0]
    BY <1>5 DEF Outcome
  <2> QED
    BY <1>1, <2>1, ZeroAge DEF Row
<1>6. CASE workers[w].err /\ k + 1 >= MaxDeliveryAttempts
  <2>1. Outcome(w) = [[old EXCEPT !.status = "FAILED", !.claim = None, !.age = 0]
                         EXCEPT !.attempts = k + 1]
    BY <1>6 DEF Outcome
  <2>2. failures[n] = MaxDeliveryAttempts /\ k + 1 = MaxDeliveryAttempts
    BY <1>1, <1>2, <1>3, <1>6
  <2>3. k + 1 \in 0 .. MaxDeliveryAttempts /\ k + 1 <= failures[n]
    BY <1>1, <1>2, <2>2
  <2> QED
    BY <1>1, <2>1, <2>2, <2>3, ZeroAge DEF Row
<1>7. CASE workers[w].err /\ ~(k + 1 >= MaxDeliveryAttempts)
  <2>1. PICK wait : wait = RetryWait(k + 1, age)
    OBVIOUS
  <2>2. Outcome(w) = [[old EXCEPT !.status = "PENDING", !.claim = None, !.age = 0]
                         EXCEPT !.attempts = k + 1, !.wait = wait]
    BY <1>7, <2>1 DEF Outcome
  <2>3. /\ k + 1 \in 0 .. MaxDeliveryAttempts /\ k + 1 < MaxDeliveryAttempts
        /\ k + 1 <= failures[n] /\ k + 1 \in Nat
    BY <1>1, <1>2, <1>3, <1>7
  <2>4. wait \in 0 .. MaxBackoff
    BY <1>4, <2>1, <2>3, RetryWaitType
  <2> QED
    BY <1>1, <2>2, <2>3, <2>4, ZeroAge DEF Row
<1> QED
  BY <1>4, <1>5, <1>6, <1>7

\* Record: the outcome is written only by the owner of the claim.
LEMMA RecordStep ==
    ASSUME IInv, NEW w \in Workers, Record(w)
    PROVE  IInv'
<1> DEFINE n == Current(w).id
<1>1. /\ workers[w].pc = "record" /\ NextJob(w) /\ UNCHANGED <<failures, faults>>
      /\ rows' = IF rows[n].status = "SENDING" /\ rows[n].claim = w
                 THEN [rows EXCEPT ![n] = Outcome(w)] ELSE rows
  BY DEF Record
<1>2. n \in DOMAIN rows
  BY <1>1, CurrentJob DEF Stamped
<1>3. CASE rows' = rows
  <2>1. Growing
    BY <1>1, <1>3, NothingUndone
  <2>2. workers' \in [Workers -> Worker] /\ \A v \in Workers : WorkerOK(v)'
    BY <1>1, <2>1, NextJobOK DEF Stamped
  <2> QED
    BY <1>1, <1>3, <2>2, CountsKept DEF IInv, TypeOK
<1>4. CASE rows' = [rows EXCEPT ![n] = Outcome(w)]
  <2>1. PICK row : row = Outcome(w)
    OBVIOUS
  <2>2. /\ row \in Row /\ row.attempts <= failures[n]
        /\ row.status = "PENDING" => row.attempts < MaxDeliveryAttempts
        /\ row.status \in {"PENDING", "SENT", "FAILED"}
        /\ row.status = "FAILED" => failures[n] = MaxDeliveryAttempts
    BY <1>1, <2>1, OutcomeRow
  <2> HIDE DEF n
  <2>3. /\ rows' \in Seq(Row) /\ Len(rows') = Len(rows) /\ DOMAIN rows' = DOMAIN rows
        /\ rows'[n] = row /\ \A m \in DOMAIN rows : m # n => rows'[m] = rows[m]
    BY <1>2, <1>4, <2>1, <2>2, RowUpdated
  <2>4. Growing
    BY <1>1, <2>3, NothingUndone
  <2>5. workers' \in [Workers -> Worker] /\ \A v \in Workers : WorkerOK(v)'
    BY <1>1, <2>4, NextJobOK DEF Stamped
  <2>6. ASSUME NEW m \in DOMAIN rows'
        PROVE  (RowCounted(m)
                /\ (rows[m].status = "FAILED" => failures[m] = MaxDeliveryAttempts))'
    <3>1. CASE m = n
      BY <1>1, <2>2, <2>3, <3>1 DEF RowCounted
    <3>2. CASE m # n
      BY <1>1, <2>3, <2>6, <3>2 DEF IInv, RowCounted, FailedWasTried
    <3> QED
      BY <3>1, <3>2
  <2>7. /\ Len(rows') <= MaxRows /\ faults' \in 0 .. MaxFaults
        /\ failures' \in [1 .. MaxRows -> 0 .. MaxDeliveryAttempts]
    BY <1>1, <2>3 DEF IInv, TypeOK
  <2> QED
    BY <2>3, <2>5, <2>6, <2>7, Assembled
<1> QED
  BY <1>1, <1>3, <1>4

\* Crash: the worker forgets its batch; the rows stay SENDING until the lease expires.
LEMMA CrashStep ==
    ASSUME IInv, NEW w \in Workers, Crash(w)
    PROVE  IInv'
<1>1. /\ workers' = [workers EXCEPT ![w] = Idle] /\ UNCHANGED <<rows, failures>>
      /\ workers \in [Workers -> Worker]
  BY DEF Crash, IInv
<1>2. faults' \in 0 .. MaxFaults
  BY OutboxAssumption DEF Crash, Fault, IInv, TypeOK
<1>3. Growing
  BY <1>1, NothingUndone
<1>4. workers'[w] = Idle /\ workers' \in [Workers -> Worker]
  BY <1>1, IdleType
<1>5. ASSUME NEW v \in Workers PROVE WorkerOK(v)'
  <2>1. CASE v = w
    BY <1>4, <2>1, IdleWorker
  <2>2. CASE v # w
    <3>1. workers'[v] = workers[v]
      BY <1>1, <2>2
    <3> QED
      BY <1>3, <3>1, SameJobs
  <2> QED
    BY <2>1, <2>2
<1> QED
  BY <1>1, <1>2, <1>4, <1>5, CountsKept DEF IInv, TypeOK

\* StatementFails: the row may or may not have been stamped.
LEMMA StatementFailsStep ==
    ASSUME IInv, NEW w \in Workers, StatementFails(w)
    PROVE  IInv'
<1>1. workers[w].pc \in {"stamp", "record"} /\ NextJob(w) /\ UNCHANGED failures
  BY DEF StatementFails
<1>2. faults' \in 0 .. MaxFaults
  BY OutboxAssumption DEF StatementFails, Fault, IInv, TypeOK
<1>3. /\ rows' \in Seq(Row) /\ Len(rows') = Len(rows) /\ DOMAIN rows' = DOMAIN rows
      /\ \A n \in DOMAIN rows : /\ rows'[n].attempts = rows[n].attempts
                                /\ rows'[n].status = rows[n].status
  <2>1. CASE UNCHANGED rows
    BY <2>1 DEF IInv, TypeOK
  <2>2. CASE /\ workers[w].pc = "stamp" /\ rows[Current(w).id].status = "SENDING"
             /\ rows' = [rows EXCEPT ![Current(w).id].claim = w,
                                     ![Current(w).id].age = Capped(workers[w].age)]
    BY <2>2, Restamped
  <2> QED
    BY <2>1, <2>2 DEF StatementFails
<1>4. Growing
  BY <1>1, <1>3, NothingUndone
<1>5. workers' \in [Workers -> Worker] /\ \A v \in Workers : WorkerOK(v)'
  BY <1>1, <1>4, NextJobOK DEF Stamped
<1> QED
  BY <1>1, <1>2, <1>3, <1>5, CountsKept

\* Tick: only ages and waits change.
LEMMA TickStep ==
    ASSUME IInv, Tick
    PROVE  IInv'
<1>0. /\ \A n \in DOMAIN rows : rows[n] \in Row
      /\ LeaseThreshold \in Nat /\ MaxBackoff \in Nat
  BY RowIds, OutboxAssumption
<1>1. ASSUME NEW n \in DOMAIN rows
      PROVE  /\ rows'[n] \in Row /\ rows'[n].attempts = rows[n].attempts
             /\ rows'[n].status = rows[n].status
  <2>1. PICK age, wait :
            /\ age = (IF rows[n].claim = None THEN 0 ELSE Capped(rows[n].age + 1))
            /\ wait = (IF rows[n].wait = 0 THEN 0 ELSE rows[n].wait - 1)
    OBVIOUS
  <2>2. rows'[n] = [rows[n] EXCEPT !.age = age, !.wait = wait]
    BY <1>0, <2>1 DEF Tick, Row
  <2>3. rows[n].age \in Ages /\ rows[n].wait \in 0 .. MaxBackoff
    BY <1>0 DEF Row
  <2>4. age \in Ages /\ wait \in 0 .. MaxBackoff
    BY <1>0, <2>1, <2>3 DEF Capped, Ages
  <2> QED
    BY <1>0, <2>2, <2>4 DEF Row
<1>2. rows' = [n \in DOMAIN rows |-> rows'[n]] /\ UNCHANGED <<failures, faults>>
  BY DEF Tick
<1>3. rows' \in Seq(Row) /\ Len(rows') = Len(rows) /\ DOMAIN rows' = DOMAIN rows
  BY <1>1, <1>2, RowsMapped
<1>4. Growing
  BY <1>2, <1>3, NothingUndone
<1>5. ASSUME NEW w \in Workers
      PROVE  /\ workers'[w] \in Worker /\ workers'[w].jobs = workers[w].jobs
             /\ workers'[w].pc = workers[w].pc /\ workers'[w].err = workers[w].err
  <2>1. workers[w] \in Worker
    BY WorkerType
  <2>2. CASE workers[w].pc \notin Stamped
    BY <2>1, <2>2 DEF Tick
  <2>3. CASE workers[w].pc \in Stamped
    <3>1. PICK age : age = Older(workers[w].age)
      OBVIOUS
    <3>2. workers'[w] = [workers[w] EXCEPT !.age = age]
      BY <2>1, <2>3, <3>1 DEF Tick, Worker
    <3>3. age \in Spans
      BY <2>1, <3>1 DEF Older, Worker
    <3> QED
      BY <2>1, <3>2, <3>3 DEF Worker
  <2> QED
    BY <2>2, <2>3
<1>6. workers' \in [Workers -> Worker]
  BY <1>5 DEF Tick
<1>7. \A w \in Workers : WorkerOK(w)'
  BY <1>4, <1>5, SameJobs
<1>8. faults' \in 0 .. MaxFaults
  BY <1>2 DEF IInv, TypeOK
<1> QED
  BY <1>1, <1>2, <1>3, <1>6, <1>7, <1>8, CountsKept

\* The outbox starts empty.
LEMMA InitInv == Init => IInv
<1> SUFFICES ASSUME Init PROVE IInv
  OBVIOUS
<1>1. rows = << >> /\ rows \in Seq(Row) /\ Len(rows) = 0 /\ DOMAIN rows = {}
  BY EmptySeq DEF Init
<1>2. workers = [w \in Workers |-> Idle] /\ workers \in [Workers -> Worker]
  BY IdleType DEF Init
<1>3. \A w \in Workers : workers[w].pc = "idle" /\ workers[w].jobs = << >>
  BY <1>2 DEF Idle
<1>4. Len(<< >>) = 0 /\ DOMAIN << >> = {}
  OBVIOUS
<1>5. /\ failures \in [1 .. MaxRows -> 0 .. MaxDeliveryAttempts] /\ faults \in 0 .. MaxFaults
      /\ 0 <= MaxRows /\ 0 <= Batch
  BY OutboxAssumption DEF Init
<1>6. TypeOK
  BY <1>1, <1>2, <1>3, <1>4, <1>5 DEF TypeOK, Worker, Stamped
<1>7. \A w \in Workers : WorkerCounted(w)
  BY <1>3, <1>4 DEF WorkerCounted
<1> QED
  BY <1>1, <1>2, <1>6, <1>7 DEF IInv, FailedWasTried

\* The invariant is inductive: one case per action.
LEMMA InvStep ==
    ASSUME IInv, [Next]_vars
    PROVE  IInv'
<1>1. ASSUME NEW w \in Workers,
             \/ Reap(w) \/ Claim(w) \/ TakeStamp(w) \/ Restamp(w) \/ Send(w) \/ Record(w)
             \/ Crash(w) \/ StatementFails(w)
      PROVE  IInv'
  BY <1>1, ReapStep, ClaimStep, TakeStampStep, RestampStep, SendStep, RecordStep, CrashStep,
     StatementFailsStep
<1>2. CASE UNCHANGED vars
  BY <1>2 DEF vars, IInv, TypeOK, RowCounted, WorkerCounted, Current, FailedWasTried
<1> QED
  BY <1>1, <1>2, EnqueueStep, TickStep DEF Next

\* In every reachable state no count of attempts runs ahead of the sends that failed.
THEOREM OutboxInvariant == Spec => []IInv
BY InitInv, InvStep, PTL DEF Spec

\* Every row and every worker local keeps its type, and no batch exceeds its limit.
THEOREM TypeCorrect == Spec => []TypeOK
<1>1. IInv => TypeOK
  BY DEF IInv
<1> QED
  BY <1>1, OutboxInvariant, PTL

\* A row is FAILED only after maxDeliveryAttempts sends of it have failed.
THEOREM FailedWasTriedHolds == Spec => []FailedWasTried
<1>1. IInv => FailedWasTried
  BY DEF IInv
<1> QED
  BY <1>1, OutboxInvariant, PTL

\* A SENT or FAILED row stays as it is: the reaper, the claim, the re-stamp and the terminal
\* update only touch rows that are not finished, whichever worker comes late.
THEOREM FinishedStaysHolds == Spec => FinishedStays
<1>1. ASSUME IInv, [Next]_vars
      PROVE  \A n \in DOMAIN rows : rows[n].status \in {"SENT", "FAILED"} =>
                rows'[n].status = rows[n].status
  <2> SUFFICES ASSUME NEW n \in DOMAIN rows, rows[n].status \in {"SENT", "FAILED"}
               PROVE  rows'[n].status = rows[n].status
    OBVIOUS
  <2>0. rows \in Seq(Row) /\ DOMAIN rows = 1 .. Len(rows) /\ rows[n] \in Row
    BY <1>1, RowIds DEF IInv, TypeOK
  <2>1. ASSUME rows' = rows PROVE rows'[n].status = rows[n].status
    BY <2>1
  <2>2. CASE Enqueue
    <3>1. PICK row : row = [status |-> "PENDING", attempts |-> 0, wait |-> 0, claim |-> None,
                            age |-> 0]
      OBVIOUS
    <3>2. row \in Row
      BY <3>1, ZeroAge, OutboxAssumption DEF Row
    <3>3. rows' = Append(rows, row)
      BY <2>2, <3>1 DEF Enqueue
    <3>4. rows'[n] = rows[n]
      BY <2>0, <3>2, <3>3, AppendProperties
    <3> QED
      BY <3>4
  <2>3. ASSUME NEW w \in Workers, Reap(w) PROVE rows'[n].status = rows[n].status
    <3>1. rows'[n] = rows[n]
      BY <2>3 DEF Reap
    <3> QED
      BY <3>1
  <2>4. ASSUME NEW w \in Workers, Claim(w) PROVE rows'[n].status = rows[n].status
    <3>1. PICK ids : /\ IsClaimBatch(ids)
                     /\ n \notin Range(ids) => rows'[n] = rows[n]
      BY <2>4 DEF Claim
    <3>2. n \notin Range(ids)
      BY <3>1 DEF IsClaimBatch, Claimable, Range
    <3> QED
      BY <3>1, <3>2
  <2>5. ASSUME NEW w \in Workers, workers[w].pc = "stamp", rows[Current(w).id].status = "SENDING",
               rows' = [rows EXCEPT ![Current(w).id].claim = w,
                                    ![Current(w).id].age = Capped(workers[w].age)]
        PROVE  rows'[n].status = rows[n].status
    BY <1>1, <2>5, Restamped
  <2>6. ASSUME NEW w \in Workers, Record(w) PROVE rows'[n].status = rows[n].status
    <3>1. \/ rows' = rows
          \/ /\ rows[Current(w).id].status = "SENDING"
             /\ rows' = [rows EXCEPT ![Current(w).id] = Outcome(w)]
      BY <2>6 DEF Record
    <3>2. CASE rows[Current(w).id].status = "SENDING"
      <4>1. n # Current(w).id
        BY <3>2
      <4> QED
        BY <2>0, <3>1, <4>1
    <3> QED
      BY <2>1, <3>1, <3>2
  <2>7. CASE Tick
    <3>1. rows'[n] = [rows[n] EXCEPT
                        !.age = IF rows[n].claim = None THEN 0 ELSE Capped(@ + 1),
                        !.wait = IF @ = 0 THEN 0 ELSE @ - 1]
      BY <2>7 DEF Tick
    <3> QED
      BY <2>0, <3>1 DEF Row
  <2>8. ASSUME NEW w \in Workers, Restamp(w) PROVE rows'[n].status = rows[n].status
    BY <2>1, <2>5, <2>8 DEF Restamp
  <2>9. ASSUME NEW w \in Workers, StatementFails(w) PROVE rows'[n].status = rows[n].status
    BY <2>1, <2>5, <2>9 DEF StatementFails
  <2>10. ASSUME NEW w \in Workers, TakeStamp(w) \/ Send(w) \/ Crash(w)
         PROVE  rows'[n].status = rows[n].status
    BY <2>1, <2>10 DEF TakeStamp, Send, Crash
  <2> QED
    BY <1>1, <2>1, <2>2, <2>3, <2>4, <2>6, <2>7, <2>8, <2>9, <2>10 DEF Next, vars
<1> QED
  BY <1>1, OutboxInvariant, PTL DEF Spec, FinishedStays

====
