---- MODULE Replicas ----
(***************************************************************************)
(* The life of the API processes (cmd/api/main.go): connecting to the      *)
(* database, applying the migrations under an advisory lock                *)
(* (internal/platform/postgres), serving, and stopping.  Several replicas  *)
(* may start at the same time on one database.                             *)
(***************************************************************************)
EXTENDS Naturals, Sequences, FiniteSets

CONSTANTS
    Replicas,
    Unlocked,        \* no session holds migrationLockKey
    LastVersion      \* the migrations are 1 .. LastVersion, in lexical order

ASSUME ReplicasAssumption ==
    /\ LastVersion \in Nat /\ Unlocked \notin Replicas /\ IsFiniteSet(Replicas)

VARIABLES
    life,      \* where each process is
    at,        \* the migration its loop is at
    migrator,  \* the session that holds the advisory lock
    applied,   \* schema_migrations, in the order of application
    stops,     \* processes that crashed, gave up or were told to stop so far
    maxStops   \* bound: how many may do so in this behaviour

replicaVars == <<life, at, migrator, applied, stops, maxStops>>

\* The database is new or has some of the migrations, and every process is still down; or
\* it has them all, and every process is serving.
ReplicasInit(down, max) ==
    /\ life = [p \in Replicas |-> IF down THEN "down" ELSE "up"]
    /\ at = [p \in Replicas |-> 0]
    /\ migrator = Unlocked
    /\ \E n \in 0 .. LastVersion : applied = [v \in 1 .. n |-> v] /\ (~down => n = LastVersion)
    /\ stops = 0 /\ maxStops = max

Move(p, to) == life' = [life EXCEPT ![p] = to]

Stops == stops < maxStops /\ stops' = stops + 1

\* The process is started.
Boot(p) ==
    /\ life[p] = "down"
    /\ Move(p, "connecting")
    /\ UNCHANGED <<at, migrator, applied, stops, maxStops>>

\* connectWithRetry: Connect is tried every second until it succeeds.
Connect(p) ==
    /\ life[p] = "connecting"
    /\ Move(p, "locking")
    /\ UNCHANGED <<at, migrator, applied, stops, maxStops>>

\* pg_advisory_lock waits for the session that holds it.
Lock(p) ==
    /\ life[p] = "locking"
    /\ migrator = Unlocked
    /\ migrator' = p
    /\ at' = [at EXCEPT ![p] = 1]
    /\ Move(p, "checking")
    /\ UNCHANGED <<applied, stops, maxStops>>

\* The migration is there already, or it has to be applied.
CheckVersion(p) ==
    /\ life[p] = "checking" /\ at[p] <= LastVersion
    /\ IF \E i \in DOMAIN applied : applied[i] = at[p]
       THEN at' = [at EXCEPT ![p] = @ + 1] /\ UNCHANGED life
       ELSE Move(p, "applying") /\ UNCHANGED at
    /\ UNCHANGED <<migrator, applied, stops, maxStops>>

\* The script and its row in schema_migrations, in one transaction.
ApplyVersion(p) ==
    /\ life[p] = "applying"
    /\ applied' = Append(applied, at[p])
    /\ at' = [at EXCEPT ![p] = @ + 1]
    /\ Move(p, "checking")
    /\ UNCHANGED <<migrator, stops, maxStops>>

\* Mutant: a script that fails is left out.
ApplyFails_GoesOn(p) ==
    /\ life[p] = "applying"
    /\ Stops
    /\ at' = [at EXCEPT ![p] = @ + 1]
    /\ Move(p, "checking")
    /\ UNCHANGED <<migrator, applied, maxStops>>

\* A script or its commit fails: rolled back, or committed with the reply lost.  The
\* process gives the lock back and ends.
ApplyFails(p) ==
    /\ life[p] = "applying"
    /\ Stops
    /\ applied' \in {applied, Append(applied, at[p])}
    /\ migrator' = Unlocked
    /\ Move(p, "down")
    /\ UNCHANGED <<at, maxStops>>

\* The deferred unlock; then the server listens and the workers start.
MigrationsApplied(p) ==
    /\ life[p] = "checking" /\ at[p] > LastVersion
    /\ migrator' = Unlocked
    /\ Move(p, "up")
    /\ UNCHANGED <<at, applied, stops, maxStops>>

\* SIGTERM while serving: the context of the workers is cancelled.
Shutdown(p) ==
    /\ life[p] = "up"
    /\ Stops
    /\ Move(p, "stopping")
    /\ UNCHANGED <<at, migrator, applied, maxStops>>

\* The server has shut down and the workers have returned.
Exit(p) ==
    /\ life[p] = "stopping"
    /\ Move(p, "down")
    /\ UNCHANGED <<at, migrator, applied, stops, maxStops>>

\* The process dies, is told to stop before it serves, or never finds the database.  Its
\* session ends, and with it the lock.
Crash(p) ==
    /\ life[p] # "down"
    /\ Stops
    /\ Move(p, "down")
    /\ migrator' = IF migrator = p THEN Unlocked ELSE migrator
    /\ UNCHANGED <<at, applied, maxStops>>

StartStep(p) == Connect(p) \/ Lock(p) \/ CheckVersion(p) \/ ApplyVersion(p) \/ MigrationsApplied(p)

\* No replica serves before the schema is complete, and each migration is applied once, in
\* order, by one replica at a time, whichever of them start together or die on the way
\* (RunMigrations).
SchemaFirst ==
    /\ \A p \in Replicas : life[p] \in {"up", "stopping"} => Len(applied) = LastVersion
    /\ \A i \in DOMAIN applied : applied[i] = i
    /\ \A p, q \in Replicas :
          life[p] \in {"checking", "applying"} /\ life[q] \in {"checking", "applying"} => p = q

\* What keeps it true: only the holder of the lock works on the schema, and it has come no
\* further than what is applied.
ReplicasInv ==
    /\ life \in [Replicas -> {"down", "connecting", "locking", "checking", "applying", "up", "stopping"}]
    /\ at \in [Replicas -> Nat] /\ stops \in Nat
    /\ applied \in Seq(Nat) /\ Len(applied) <= LastVersion
    /\ \A i \in DOMAIN applied : applied[i] = i
    /\ \A p \in Replicas :
          /\ life[p] \in {"checking", "applying"} => migrator = p
          /\ life[p] = "checking" => at[p] \in 1 .. Len(applied) + 1
          /\ life[p] = "applying" => at[p] = Len(applied) + 1 /\ at[p] <= LastVersion
          /\ life[p] \in {"up", "stopping"} => Len(applied) = LastVersion

====
