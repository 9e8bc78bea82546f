---- MODULE RateLimiter ----
(***************************************************************************)
(* The fixed-window limiter of internal/platform/ratelimit, in the memory  *)
(* of one process, in front of /auth/login/start and /auth/login/verify.   *)
(* Allow runs under the mutex: it is one step of the call that asks.       *)
(***************************************************************************)
EXTENDS Integers, FiniteSets

CONSTANTS
    IPs,          \* client addresses: the limiter's keys
    MaxRequests,  \* Limiter.max, 20
    Period        \* Limiter.period, 1 min, in the model's unit of time

ASSUME RateLimiterAssumption == MaxRequests \in Nat \ {0} /\ Period \in Nat \ {0}

VARIABLES
    windows,      \* Limiter.windows: each address's slot, with the time to its resetAt
    recent        \* history: requests let through, each with its number in its window and its age

\* An address without a slot is treated as one whose window is over.
Slot == [count : Nat, left : -1 .. Period]

LimiterTypeOK ==
    /\ windows \in [IPs -> Slot]
    /\ recent \in [IPs -> SUBSET [n : Nat, age : 0 .. Period]]

LimiterInit ==
    /\ windows = [ip \in IPs |-> [count |-> 0, left |-> -1]]
    /\ recent = [ip \in IPs |-> {}]

\* The window is over only strictly after resetAt.
Allow(s) == s.left < 0 \/ s.count < MaxRequests

\* Mutant: the window is over at resetAt.
LetThrough_OverAtReset(ip) ==
    LET s == windows[ip]
        count == IF s.left <= 0 THEN 1 ELSE s.count + 1
    IN /\ s.left <= 0 \/ s.count < MaxRequests
       /\ windows' = [windows EXCEPT ![ip] =
                        [count |-> count, left |-> IF s.left <= 0 THEN Period ELSE s.left]]
       /\ recent' = [recent EXCEPT ![ip] = @ \cup {[n |-> count, age |-> 0]}]

\* A request that is let through opens a window or is counted in the open one.
LetThrough(ip) ==
    /\ Allow(windows[ip])
    /\ LET s == windows[ip]
           count == IF s.left < 0 THEN 1 ELSE s.count + 1
       IN /\ windows' = [windows EXCEPT ![ip] =
                           [count |-> count, left |-> IF s.left < 0 THEN Period ELSE s.left]]
          /\ recent' = [recent EXCEPT ![ip] = @ \cup {[n |-> count, age |-> 0]}]

\* One unit of time passes.  What a slot that is over counted no longer matters.
LimiterTick ==
    /\ windows' = [ip \in IPs |->
                     IF windows[ip].left > 0 THEN [windows[ip] EXCEPT !.left = @ - 1]
                     ELSE [count |-> 0, left |-> -1]]
    /\ recent' = [ip \in IPs |->
                    {[n |-> r.n, age |-> r.age + 1] : r \in {q \in recent[ip] : q.age < Period}}]

----
\* However its windows fall, an address is never let through more often within one period
\* than twice the limit less one.  A burst across the edge of two windows is what Allow's
\* fixed windows add to "max requests per period"; the request that opened the first of
\* them is never part of it, as its window ends only after resetAt.
BurstBounded == \A ip \in IPs : Cardinality(recent[ip]) <= 2 * MaxRequests - 1

----
(* What keeps the bound true: the requests of one period come from at most *)
(* two windows, each window numbers its own, and the first of the older    *)
(* window has left the period when the newer one opens.                    *)

\* No two of these requests have the same number.
Numbered(S) == \A r, q \in S : r.n = q.n => r = q

\* The requests of the window of w, which has been open for Period - w.left.
Since(w, S) == {r \in S : r.age <= Period - w.left}

\* A window that is over leaves one window's requests without the one that opened it; an
\* open one has numbered its own up to its count, the first as old as the window, and those
\* before it are of one window too, again without the one that opened it.
SlotInv(w, S) ==
    /\ \A r \in S : r.n \in 1 .. MaxRequests
    /\ w.left < 0 => Numbered(S) /\ \A r \in S : r.age > 0 /\ r.n # 1
    /\ w.left >= 0 => /\ Numbered(Since(w, S)) /\ Numbered(S \ Since(w, S))
                      /\ \A r \in Since(w, S) : r.n <= w.count
                      /\ w.count >= 1
                      /\ \A r \in Since(w, S) : r.n = 1 => r.age = Period - w.left
                      /\ \A r \in S \ Since(w, S) : r.n # 1

LimiterInv == LimiterTypeOK /\ \A ip \in IPs : SlotInv(windows[ip], recent[ip])

====
