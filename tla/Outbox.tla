---- MODULE Outbox ----
(***************************************************************************)
(* The e-mail outbox (internal/notification): Enqueue leaves PENDING rows, *)
(* and the workers of any number of replicas reap, claim, send and record  *)
(* them (worker.go), one action per SQL statement or SMTP conversation.    *)
(*                                                                         *)
(* Time is kept as ages.  claimed_at is the stamp that was written last    *)
(* (by the claim, or by one worker's deliver) and how old it is;           *)
(* next_attempt_at is the time still to wait.  Two stamps are never equal: *)
(* the code relies on microsecond timestamps for that.                     *)
(***************************************************************************)
EXTENDS Naturals, Sequences, FiniteSets, SequencesExt

CONSTANTS
    Workers,               \* the worker goroutines, one per replica
    None,                  \* claimed_at IS NULL
    MaxRows,               \* bound: notifications enqueued in one behaviour
    Batch,                 \* Worker.batch, 20
    MaxDeliveryAttempts,   \* 5
    LeaseThreshold,        \* 60 s, in the model's unit of time
    BaseBackoff,           \* 30 s
    MaxBackoff,            \* 5 min
    SendBound,             \* smtpx.DefaultTimeout, 10 s: the bound of a conversation, which
                           \* does not bound the dial before it (smtpx/send.go)
    Prompt,                \* whether to look only at behaviours in which nothing but sends
                           \* takes time, and those at most SendBound; otherwise a worker may
                           \* be paused anywhere, for any time, and a dial may outlast the lease
    MaxFaults              \* bound: crashes and database errors in one behaviour

ASSUME OutboxAssumption ==
    /\ None \notin Workers /\ "claim" \notin Workers /\ None # "claim"
    /\ {MaxRows, LeaseThreshold, BaseBackoff, MaxBackoff, SendBound, MaxFaults} \subseteq Nat
    /\ {Batch, MaxDeliveryAttempts} \subseteq Nat \ {0}
    /\ Prompt \in BOOLEAN

VARIABLES
    rows,        \* notifications with channel EMAIL, by created_at
    workers,     \* the locals of each worker's drain
    failures,    \* history: failed sends of each row, counted up to the limit
    faults       \* faults that have happened

vars == <<rows, workers, failures, faults>>

\* Ages are counted as far as they matter: a row older than the lease is old enough,
\* and so is a send that took longer than the longest backoff.
Ages  == 0 .. LeaseThreshold + 1
Spans == 0 .. LeaseThreshold + MaxBackoff + 1

Row == [status : {"PENDING", "SENDING", "SENT", "FAILED"},
        attempts : 0 .. MaxDeliveryAttempts, wait : 0 .. MaxBackoff,
        claim : Workers \cup {None, "claim"}, age : Ages]

Job == [id : 1 .. MaxRows, attempts : 0 .. MaxDeliveryAttempts - 1]

\* deliver has read its clock: before the re-stamp age is the age of ownClaim, after
\* it the time since the second reading, now, from which a retry is scheduled.
Stamped == {"stamp", "send", "record"}

Idle == [pc |-> "idle", jobs |-> << >>, age |-> 0, err |-> FALSE]

\* The loop of drain, with these jobs still to deliver; without any, the next tick of Run.
Draining(jobs) == [pc |-> IF jobs = << >> THEN "idle" ELSE "deliver", jobs |-> jobs,
                   age |-> 0, err |-> FALSE]

\* Every row and every worker local has its type; a claimed batch is at most Batch.
TypeOK ==
    /\ Len(rows) <= MaxRows /\ rows \in Seq(Row)
    /\ \A w \in Workers :
          /\ workers[w].pc \in {"idle", "claim", "deliver"} \cup Stamped
          /\ workers[w].jobs \in Seq(Job) /\ Len(workers[w].jobs) <= Batch
          /\ workers[w].pc \in Stamped \cup {"deliver"} => workers[w].jobs # << >>
          /\ workers[w].age \in Spans /\ workers[w].err \in BOOLEAN
    /\ failures \in [1 .. MaxRows -> 0 .. MaxDeliveryAttempts]
    /\ faults \in 0 .. MaxFaults

Init ==
    /\ rows = << >>
    /\ workers = [w \in Workers |-> Idle]
    /\ failures = [n \in 1 .. MaxRows |-> 0]
    /\ faults = 0

----
(* The pure parts. *)

Capped(age) == IF age > LeaseThreshold THEN LeaseThreshold + 1 ELSE age

\* A row claimed this long ago may be reset to PENDING.
IsLeaseExpired(age) == age > LeaseThreshold

\* 30 s, 60 s, 120 s, ... up to the maximum.
RetryBackoff(attempt) ==
    LET n == IF attempt < 1 THEN 1 ELSE attempt
        d == BaseBackoff * 2 ^ (n - 1)
    IN IF n > 10 \/ d > MaxBackoff THEN MaxBackoff ELSE d

\* What is left of the backoff when the outcome of a send begun this long ago is written.
RetryWait(attempt, age) ==
    IF age > RetryBackoff(attempt) THEN 0 ELSE RetryBackoff(attempt) - age

Claimable(n) == rows[n].status = "PENDING" /\ rows[n].wait = 0

\* What SELECT ... ORDER BY created_at LIMIT batch returns: due rows in order, all of
\* them, or as many of the first ones as a batch holds.
IsClaimBatch(ids) ==
    /\ \A i \in DOMAIN ids : Claimable(ids[i])
    /\ \A i, j \in DOMAIN ids : i < j => ids[i] < ids[j]
    /\ \A n \in DOMAIN rows \ Range(ids) :
          Claimable(n) => Len(ids) = Batch /\ \A i \in DOMAIN ids : ids[i] < n

Current(w) == Head(workers[w].jobs)

\* Go on with the next job of the batch.
NextJob(w) == workers' = [workers EXCEPT ![w] = Draining(Tail(workers[w].jobs))]

----
(* The operations. *)

\* Enqueue, in the transaction of a status change.
Enqueue ==
    /\ Len(rows) < MaxRows
    /\ rows' = Append(rows, [status |-> "PENDING", attempts |-> 0, wait |-> 0,
                             claim |-> None, age |-> 0])
    /\ UNCHANGED <<workers, failures, faults>>

\* Mutant: drain without the reaper, as before migration 3.
Reap_Missing(w) ==
    /\ workers[w].pc = "idle"
    /\ workers' = [workers EXCEPT ![w].pc = "claim"]
    /\ UNCHANGED <<rows, failures, faults>>

\* reapStuckSending, the first statement of drain.
Reap(w) ==
    /\ workers[w].pc = "idle"
    /\ rows' = [n \in DOMAIN rows |->
                  IF rows[n].status = "SENDING" /\ IsLeaseExpired(rows[n].age)
                  THEN [rows[n] EXCEPT !.status = "PENDING", !.claim = None, !.age = 0]
                  ELSE rows[n]]
    /\ workers' = [workers EXCEPT ![w].pc = "claim"]
    /\ UNCHANGED <<failures, faults>>

\* claim: one short transaction.  SKIP LOCKED keeps concurrent claims apart.
Claim(w) ==
    /\ workers[w].pc = "claim"
    /\ \E ids \in BoundedSeq(DOMAIN rows, Batch) :
          /\ IsClaimBatch(ids)
          /\ rows' = [n \in DOMAIN rows |->
                        IF n \in Range(ids)
                        THEN [rows[n] EXCEPT !.status = "SENDING", !.claim = "claim", !.age = 0]
                        ELSE rows[n]]
          /\ workers' = [workers EXCEPT ![w] =
                           Draining([i \in DOMAIN ids |->
                                       [id |-> ids[i], attempts |-> rows[ids[i]].attempts]])]
    /\ UNCHANGED <<failures, faults>>

\* deliver reads the clock: ownClaim := time.Now().
TakeStamp(w) ==
    /\ workers[w].pc = "deliver"
    /\ workers' = [workers EXCEPT ![w].pc = "stamp", ![w].age = 0]
    /\ UNCHANGED <<rows, failures, faults>>

\* The re-stamp writes ownClaim into any row that is SENDING, whoever claimed it
\* last; a row that is not is left to its new owner.
Restamp(w) ==
    LET n == Current(w).id
    IN /\ workers[w].pc = "stamp"
       /\ \/ /\ rows[n].status = "SENDING"
             /\ rows' = [rows EXCEPT ![n].claim = w, ![n].age = Capped(workers[w].age)]
             /\ workers' = [workers EXCEPT ![w].pc = "send", ![w].age = 0]
          \/ /\ rows[n].status # "SENDING"
             /\ NextJob(w)
             /\ UNCHANGED rows
       /\ UNCHANGED <<failures, faults>>

\* Sender.Send ends, after any time: the dial has no timeout of its own and the worker's
\* context no deadline, so it may last beyond the lease.  An error does not mean that the
\* relay has not taken the message: its answer may have been lost.  Either way the worker
\* only knows err.
Send(w) ==
    LET n == Current(w).id
    IN /\ workers[w].pc = "send"
       /\ \E err \in BOOLEAN :
             /\ failures' = IF err /\ failures[n] < MaxDeliveryAttempts
                            THEN [failures EXCEPT ![n] = @ + 1] ELSE failures
             /\ workers' = [workers EXCEPT ![w].pc = "record", ![w].err = err]
       /\ UNCHANGED <<rows, faults>>

\* Mutant: one attempt too many.
Outcome_TriesOnceMore(w) ==
    LET row == rows[Current(w).id]
        attempts == Current(w).attempts + 1
        unclaimed(st) == [row EXCEPT !.status = st, !.claim = None, !.age = 0]
    IN IF ~workers[w].err THEN unclaimed("SENT")
       ELSE IF attempts > MaxDeliveryAttempts
            THEN [unclaimed("FAILED") EXCEPT !.attempts = attempts]
            ELSE [unclaimed("PENDING") EXCEPT !.attempts = attempts,
                                              !.wait = RetryWait(attempts, workers[w].age)]

\* Mutant: one attempt too few.
Outcome_GivesUpEarly(w) ==
    LET row == rows[Current(w).id]
        attempts == Current(w).attempts + 1
        unclaimed(st) == [row EXCEPT !.status = st, !.claim = None, !.age = 0]
    IN IF ~workers[w].err THEN unclaimed("SENT")
       ELSE IF attempts >= MaxDeliveryAttempts - 1
            THEN [unclaimed("FAILED") EXCEPT !.attempts = attempts]
            ELSE [unclaimed("PENDING") EXCEPT !.attempts = attempts,
                                              !.wait = RetryWait(attempts, workers[w].age)]

\* The row after the outcome of the send: SENT, FAILED, or PENDING again.  The
\* attempts are those read by the claim, plus one.
Outcome(w) ==
    LET row == rows[Current(w).id]
        attempts == Current(w).attempts + 1
        unclaimed(st) == [row EXCEPT !.status = st, !.claim = None, !.age = 0]
    IN IF ~workers[w].err THEN unclaimed("SENT")
       ELSE IF attempts >= MaxDeliveryAttempts
            THEN [unclaimed("FAILED") EXCEPT !.attempts = attempts]
            ELSE [unclaimed("PENDING") EXCEPT !.attempts = attempts,
                                              !.wait = RetryWait(attempts, workers[w].age)]

\* Mutant: the terminal update trusts the id alone.
Record_NoOwnershipGuard(w) ==
    LET n == Current(w).id
    IN /\ workers[w].pc = "record"
       /\ rows' = [rows EXCEPT ![n] = Outcome(w)]
       /\ NextJob(w)
       /\ UNCHANGED <<failures, faults>>

\* The terminal update, guarded by delivery_status='SENDING' AND claimed_at=$ownClaim.
Record(w) ==
    LET n == Current(w).id
        own == rows[n].status = "SENDING" /\ rows[n].claim = w
    IN /\ workers[w].pc = "record"
       /\ rows' = IF own THEN [rows EXCEPT ![n] = Outcome(w)] ELSE rows
       /\ NextJob(w)
       /\ UNCHANGED <<failures, faults>>

----
(* Faults and time. *)

Fault == faults < MaxFaults /\ faults' = faults + 1

\* The process dies, or is told to stop: the statements and the SMTP conversation
\* still ahead fail with the cancelled context.
Crash(w) ==
    /\ Fault
    /\ workers[w].pc # "idle"
    /\ workers' = [workers EXCEPT ![w] = Idle]
    /\ UNCHANGED <<rows, failures>>

\* The re-stamp or the terminal update fails: logged, and the next job is taken.  A
\* re-stamp may have been done although its answer was lost (a terminal update too:
\* that is Record).
StatementFails(w) ==
    LET n == Current(w).id
    IN /\ Fault
       /\ \/ /\ workers[w].pc \in {"stamp", "record"}
             /\ UNCHANGED rows
          \/ /\ workers[w].pc = "stamp" /\ rows[n].status = "SENDING"
             /\ rows' = [rows EXCEPT ![n].claim = w, ![n].age = Capped(workers[w].age)]
       /\ NextJob(w)
       /\ UNCHANGED failures

Older(age) == IF age + 1 \in Spans THEN age + 1 ELSE age

\* One unit of time passes, whatever the workers are doing (see Prompt).
Tick ==
    /\ Prompt => \A w \in Workers :
                    \/ workers[w].pc \in {"idle", "claim"}
                    \/ workers[w].pc = "send" /\ workers[w].age < SendBound
    /\ rows' = [n \in DOMAIN rows |->
                  [rows[n] EXCEPT !.age = IF rows[n].claim = None THEN 0 ELSE Capped(@ + 1),
                                  !.wait = IF @ = 0 THEN 0 ELSE @ - 1]]
    /\ workers' = [w \in Workers |->
                     IF workers[w].pc \in Stamped
                     THEN [workers[w] EXCEPT !.age = Older(@)] ELSE workers[w]]
    /\ UNCHANGED <<failures, faults>>

WorkerStep(w) == Reap(w) \/ Claim(w) \/ TakeStamp(w) \/ Restamp(w) \/ Send(w) \/ Record(w)

Next ==
    \/ Enqueue
    \/ \E w \in Workers :
          Reap(w) \/ Claim(w) \/ TakeStamp(w) \/ Restamp(w) \/ Send(w) \/ Record(w)
          \/ Crash(w) \/ StatementFails(w)
    \/ Tick

Spec == Init /\ [][Next]_vars

\* Run polls on a ticker and every statement returns; time passes.
Fairness == (\A w \in Workers : WF_vars(WorkerStep(w))) /\ WF_vars(Tick)

FairSpec == Spec /\ Fairness

----
(* Properties. *)

\* A row is given up only after as many sends have really failed as maxDeliveryAttempts
\* says, although the count comes from what some claim read, perhaps long ago.
FailedWasTried ==
    \A n \in DOMAIN rows : rows[n].status = "FAILED" => failures[n] = MaxDeliveryAttempts

\* A finished row stays as it is: no late worker turns a SENT or FAILED notification
\* back into a pending one.
FinishedStays ==
    [][\A n \in DOMAIN rows : rows[n].status \in {"SENT", "FAILED"} =>
          rows'[n].status = rows[n].status]_vars

----
(* The inductive invariant: no count of attempts runs ahead of the sends that failed. *)

Worker == [pc : {"idle", "claim", "deliver"} \cup Stamped, jobs : Seq(Job), age : Spans,
           err : BOOLEAN]

\* attempt_count is at most the failed sends, and an open row has an attempt left.
RowCounted(n) ==
    /\ rows[n].attempts <= failures[n]
    /\ rows[n].status \in {"PENDING", "SENDING"} => rows[n].attempts < MaxDeliveryAttempts

\* So are the attempts a claim read, however old they are; and once a send has failed
\* there is one failure more than they say.
WorkerCounted(w) ==
    /\ \A i \in DOMAIN workers[w].jobs :
          /\ workers[w].jobs[i].id \in DOMAIN rows
          /\ workers[w].jobs[i].attempts <= failures[workers[w].jobs[i].id]
    /\ workers[w].pc = "record" /\ workers[w].err =>
          Current(w).attempts < failures[Current(w).id]

IInv ==
    /\ TypeOK
    /\ workers \in [Workers -> Worker]
    /\ \A n \in DOMAIN rows : RowCounted(n)
    /\ \A w \in Workers : WorkerCounted(w)
    /\ FailedWasTried

----
(* Liveness, and a claim of a comment. *)

\* What the comment of leaseThreshold wants of the lease: the row that a live worker is
\* delivering is still its own.  A dial without a timeout, a pause, or a long batch before
\* the row breaks it.
LeasesHold ==
    \A w \in Workers :
        workers[w].pc \in Stamped \cup {"deliver"} =>
            LET row == rows[Current(w).id]
            IN row.claim \in {"claim", w} => ~IsLeaseExpired(row.age)

\* Once sends end within their leases again, every notification becomes SENT or FAILED,
\* whatever happened before: none stays in SENDING after a crash or a lost statement, and
\* stale counts of attempts do not make it be retried for ever.  Without the premise it is
\* false: while dials outlast the lease the workers take each other's rows, no terminal
\* update finds its claim, attempts do not grow and nothing settles.
SettleOnceLeasesHold ==
    <>[]LeasesHold =>
        \A n \in 1 .. MaxRows :
            n \in DOMAIN rows ~> n \in DOMAIN rows /\ rows[n].status \in {"SENT", "FAILED"}

\* What deliver's comment claims to rule out: two workers sending one row at once.
NoDoubleSend ==
    \A v, w \in Workers :
        v # w /\ workers[v].pc = "send" /\ workers[w].pc = "send"
        => Current(v).id # Current(w).id

====
