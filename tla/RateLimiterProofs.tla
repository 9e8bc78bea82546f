---- MODULE RateLimiterProofs ----
(***************************************************************************)
(* The fixed windows of the limiter, for any limit, period and addresses:  *)
(* a burst never exceeds two windows' worth, less one.                     *)
(*                                                                         *)
(* The bound is not inductive: it needs that the requests of one period    *)
(* come from at most two windows.  Each window numbers its requests from   *)
(* one, so the numbers tell the requests of a window apart and are at most *)
(* the limit; and of an older window number one has left the period.       *)
(***************************************************************************)
EXTENDS RateLimiter, TLAPS, FiniteSetTheorems

\* A request in the history.
Entry == [n : Nat, age : 0 .. Period]

----
(* One slot. *)

\* Requests with numbers of their own, from a to the limit, are no more than these numbers.
LEMMA NumberedBound ==
    ASSUME NEW S, NEW a \in {1, 2}, Numbered(S), \A r \in S : r.n \in a .. MaxRequests
    PROVE  IsFiniteSet(S) /\ Cardinality(S) \in Nat /\ Cardinality(S) <= MaxRequests - a + 1
<1>1. MaxRequests \in Nat /\ MaxRequests > 0 /\ a \in Int
  BY RateLimiterAssumption
<1>2. /\ IsFiniteSet(a .. MaxRequests)
      /\ Cardinality(a .. MaxRequests) = IF a > MaxRequests THEN 0 ELSE MaxRequests - a + 1
  BY <1>1, FS_Interval
<1> PICK f : f = [r \in S |-> r.n]
  OBVIOUS
<1>3. f \in [S -> a .. MaxRequests]
  OBVIOUS
<1>4. \A r, q \in S : f[r] = f[q] => r = q
  BY DEF Numbered
<1>5. f \in Injection(S, a .. MaxRequests)
  BY <1>3, <1>4 DEF Injection, IsInjective
<1>6. IsFiniteSet(S) /\ Cardinality(S) <= Cardinality(a .. MaxRequests)
  BY <1>2, <1>5, FS_Injection
<1>7. Cardinality(S) \in Nat
  BY <1>6, FS_CardinalityType
<1> QED
  BY <1>1, <1>2, <1>6, <1>7

\* The history of a slot is finite, and has at most two windows' worth of requests less the
\* one that opened the older window.
LEMMA SlotBound ==
    ASSUME NEW w \in Slot, NEW S, SlotInv(w, S)
    PROVE  IsFiniteSet(S) /\ Cardinality(S) <= 2 * MaxRequests - 1
<1>1. MaxRequests \in Nat /\ MaxRequests > 0
  BY RateLimiterAssumption
<1>2. w.left \in Int /\ \A r \in S : r.n \in 1 .. MaxRequests
  BY RateLimiterAssumption DEF Slot, SlotInv
<1>3. CASE w.left < 0
  <2>1. Numbered(S)
    BY <1>3 DEF SlotInv
  <2>2. IsFiniteSet(S) /\ Cardinality(S) \in Nat /\ Cardinality(S) <= MaxRequests - 1 + 1
    BY <1>2, <2>1, NumberedBound
  <2> QED
    BY <1>1, <2>2
<1>4. CASE w.left >= 0
  <2> PICK A : A = Since(w, S)
    OBVIOUS
  <2> PICK B : B = S \ A
    OBVIOUS
  <2>1. S = A \cup B /\ A \cap B = {} /\ A \subseteq S /\ B \subseteq S
    BY DEF Since
  <2>2. Numbered(A) /\ Numbered(B) /\ \A r \in B : r.n # 1
    BY <1>4 DEF SlotInv
  <2>3. IsFiniteSet(A) /\ Cardinality(A) \in Nat /\ Cardinality(A) <= MaxRequests - 1 + 1
    BY <1>2, <2>1, <2>2, NumberedBound
  <2>4. IsFiniteSet(B) /\ Cardinality(B) \in Nat /\ Cardinality(B) <= MaxRequests - 2 + 1
    <3>1. ASSUME NEW r \in B
          PROVE  r.n \in 2 .. MaxRequests
      <4>1. r.n \in 1 .. MaxRequests /\ r.n # 1
        BY <1>2, <2>1, <2>2
      <4> QED
        BY <1>1, <4>1
    <3> QED
      BY <2>2, <3>1, NumberedBound
  <2>5. IsFiniteSet(S) /\ Cardinality(S) = Cardinality(A) + Cardinality(B) - Cardinality({})
    <3>1. /\ IsFiniteSet(A \cup B)
          /\ Cardinality(A \cup B) = Cardinality(A) + Cardinality(B) - Cardinality(A \cap B)
      BY <2>3, <2>4, FS_Union, Zenon
    <3> QED
      BY <2>1, <3>1, Zenon
  <2> QED
    BY <1>1, <2>3, <2>4, <2>5, FS_EmptySet
<1> QED
  BY <1>2, <1>3, <1>4

\* Allow's two ways to let a request through: it opens a window, or takes the next number
\* of the open one.  Either way it is new to the history.
LEMMA SlotTakes ==
    ASSUME NEW w \in Slot, NEW S \in SUBSET Entry, SlotInv(w, S), Allow(w),
           NEW v, NEW r,
           \/ w.left < 0 /\ v = [count |-> 1, left |-> Period]
           \/ ~(w.left < 0) /\ v = [count |-> w.count + 1, left |-> w.left],
           r = [n |-> v.count, age |-> 0]
    PROVE  v \in Slot /\ r \in Entry /\ r \notin S /\ SlotInv(v, S \cup {r})
<1>1. /\ MaxRequests \in Nat /\ MaxRequests > 0 /\ Period \in Nat /\ Period > 0
      /\ w.left \in -1 .. Period /\ w.count \in Nat
  BY RateLimiterAssumption DEF Slot
<1>2. \A q \in S : q.n \in 1 .. MaxRequests /\ q.age \in 0 .. Period
  BY DEF SlotInv, Entry
<1>3. CASE w.left < 0
  <2>1. v = [count |-> 1, left |-> Period] /\ r = [n |-> 1, age |-> 0]
    BY <1>3
  <2>2. v \in Slot /\ r \in Entry /\ v.left = Period /\ v.count = 1 /\ r.n = 1 /\ r.age = 0
    BY <1>1, <2>1 DEF Slot, Entry
  <2>3. Numbered(S) /\ \A q \in S : q.age > 0 /\ q.n # 1
    BY <1>3 DEF SlotInv
  <2>4. r \notin S
    BY <2>2, <2>3
  <2>5. Since(v, S \cup {r}) = {r}
    BY <1>1, <1>2, <2>2, <2>3 DEF Since
  <2>6. (S \cup {r}) \ {r} = S
    BY <2>4
  <2>7. Numbered({r})
    BY DEF Numbered
  <2>8. \A q \in S \cup {r} : q.n \in 1 .. MaxRequests
    BY <1>1, <1>2, <2>2
  <2>9. /\ ~(v.left < 0) /\ v.count >= 1
        /\ \A q \in {r} : q.n <= v.count /\ q.age = Period - v.left
    BY <1>1, <2>2
  <2> PICK N : N = S \cup {r}
    OBVIOUS
  <2>10. SlotInv(v, N)
    BY <2>3, <2>5, <2>6, <2>7, <2>8, <2>9 DEF SlotInv
  <2> QED
    BY <2>2, <2>4, <2>10
<1>4. CASE ~(w.left < 0)
  <2>1. v = [count |-> w.count + 1, left |-> w.left] /\ r = [n |-> w.count + 1, age |-> 0]
    BY <1>4
  <2>2. w.count < MaxRequests
    BY <1>4 DEF Allow
  <2>3. /\ v \in Slot /\ r \in Entry /\ v.left = w.left /\ v.count = w.count + 1
        /\ r.n = w.count + 1 /\ r.age = 0
    BY <1>1, <2>1 DEF Slot, Entry
  <2> PICK A : A = Since(w, S)
    OBVIOUS
  <2>4. /\ Numbered(A) /\ Numbered(S \ A) /\ A \subseteq S
        /\ \A q \in A : q.n <= w.count /\ q.n \in 1 .. MaxRequests
        /\ w.count >= 1
        /\ \A q \in A : q.n = 1 => q.age = Period - w.left
        /\ \A q \in S \ A : q.n # 1
    BY <1>1, <1>2, <1>4 DEF SlotInv, Since
  <2>5. \A q \in A : q.n # r.n
    BY <1>1, <2>3, <2>4
  <2>6. r \notin S
    <3>1. r \in S => r \in A
      BY <1>1, <2>3 DEF Since
    <3> QED
      BY <2>5, <3>1
  <2>7. Since(v, S \cup {r}) = A \cup {r}
    BY <1>1, <1>4, <2>3 DEF Since
  <2>8. (S \cup {r}) \ (A \cup {r}) = S \ A
    BY <2>6
  <2>9. Numbered(A \cup {r})
    BY <2>4, <2>5 DEF Numbered
  <2>10. \A q \in A \cup {r} : q.n <= v.count
    BY <1>1, <2>3, <2>4
  <2>11. \A q \in S \cup {r} : q.n \in 1 .. MaxRequests
    BY <1>1, <1>2, <2>2, <2>3
  <2>12. ~(v.left < 0) /\ v.count >= 1
    BY <1>1, <1>4, <2>3
  <2>13. \A q \in A \cup {r} : q.n = 1 => q.age = Period - v.left
    BY <1>1, <2>3, <2>4
  <2> QED
    BY <2>3, <2>4, <2>6, <2>7, <2>8, <2>9, <2>10, <2>11, <2>12, <2>13 DEF SlotInv
<1> QED
  BY <1>3, <1>4

\* A unit of time: an open window is a unit older, as its requests are; a window at its end
\* is over, and all that was before it has left the period.
LEMMA SlotAges ==
    ASSUME NEW w \in Slot, NEW S \in SUBSET Entry, SlotInv(w, S),
           NEW v, NEW T,
           \/ w.left > 0 /\ v = [w EXCEPT !.left = @ - 1]
           \/ ~(w.left > 0) /\ v = [count |-> 0, left |-> -1],
           T = {[n |-> r.n, age |-> r.age + 1] : r \in {q \in S : q.age < Period}}
    PROVE  v \in Slot /\ T \in SUBSET Entry /\ SlotInv(v, T)
<1>1. /\ MaxRequests \in Nat /\ MaxRequests > 0 /\ Period \in Nat /\ Period > 0
      /\ w.left \in -1 .. Period /\ w.count \in Nat
  BY RateLimiterAssumption DEF Slot
<1>2. \A q \in S : /\ q = [n |-> q.n, age |-> q.age]
                   /\ q.n \in Nat /\ q.n \in 1 .. MaxRequests /\ q.age \in 0 .. Period
  BY DEF SlotInv, Entry
<1>3. \A x \in T : \E q \in S : q.age < Period /\ x.n = q.n /\ x.age = q.age + 1
                                /\ x = [n |-> q.n, age |-> q.age + 1]
  OBVIOUS
<1>4. T \in SUBSET Entry /\ \A x \in T : x.n \in 1 .. MaxRequests /\ x.age \in 0 .. Period /\ x.age > 0
  <2> SUFFICES ASSUME NEW x \in T
               PROVE  x \in Entry /\ x.n \in 1 .. MaxRequests /\ x.age \in 0 .. Period /\ x.age > 0
    OBVIOUS
  <2>1. PICK q \in S : q.age < Period /\ x.n = q.n /\ x.age = q.age + 1 /\ x = [n |-> q.n, age |-> q.age + 1]
    BY <1>3
  <2>2. q.n \in Nat /\ q.n \in 1 .. MaxRequests /\ q.age + 1 \in 0 .. Period /\ q.age + 1 > 0
    BY <1>1, <1>2, <2>1
  <2> QED
    BY <2>1, <2>2 DEF Entry
<1>5. ASSUME NEW X, NEW Y, Numbered(X), X \subseteq S, Y \subseteq T,
             \A q \in S : [n |-> q.n, age |-> q.age + 1] \in Y => q \in X
      PROVE  Numbered(Y)
  <2> SUFFICES ASSUME NEW x \in Y, NEW y \in Y, x.n = y.n
               PROVE  x = y
    BY DEF Numbered
  <2>1. PICK q \in S : x.n = q.n /\ x = [n |-> q.n, age |-> q.age + 1]
    BY <1>3, <1>5
  <2>2. PICK p \in S : y.n = p.n /\ y = [n |-> p.n, age |-> p.age + 1]
    BY <1>3, <1>5
  <2>3. q \in X /\ p \in X /\ q.n = p.n
    BY <1>5, <2>1, <2>2
  <2>4. q = p
    BY <1>5, <2>3 DEF Numbered
  <2> QED
    BY <2>1, <2>2, <2>4
<1>6. CASE w.left > 0
  <2>1. v \in Slot /\ v.left = w.left - 1 /\ v.count = w.count /\ ~(v.left < 0)
    BY <1>1, <1>6 DEF Slot
  <2> PICK A : A = Since(w, S)
    OBVIOUS
  <2> PICK B : B = Since(v, T)
    OBVIOUS
  <2>2. A \subseteq S /\ B \subseteq T
    BY DEF Since
  <2>3. /\ Numbered(A) /\ Numbered(S \ A) /\ w.count >= 1
        /\ \A r \in A : r.n <= w.count /\ (r.n = 1 => r.age = Period - w.left)
        /\ \A r \in S \ A : r.n # 1
    BY <1>1, <1>6 DEF SlotInv
  <2>4. \A q \in S : [n |-> q.n, age |-> q.age + 1] \in B => q \in A
    <3> SUFFICES ASSUME NEW q \in S, [n |-> q.n, age |-> q.age + 1] \in B
                 PROVE  q \in A
      OBVIOUS
    <3>1. q.age + 1 <= Period - v.left
      BY DEF Since
    <3>2. q.age <= Period - w.left
      BY <1>1, <1>2, <2>1, <3>1
    <3> QED
      BY <3>2 DEF Since
  <2>5. \A q \in S : [n |-> q.n, age |-> q.age + 1] \in T \ B => q \in S \ A
    <3> SUFFICES ASSUME NEW q \in S, [n |-> q.n, age |-> q.age + 1] \in T \ B
                 PROVE  q \notin A
      OBVIOUS
    <3>1. ~(q.age + 1 <= Period - v.left)
      BY DEF Since
    <3>2. ~(q.age <= Period - w.left)
      BY <1>1, <1>2, <2>1, <3>1
    <3> QED
      BY <3>2 DEF Since
  <2>6. Numbered(B)
    BY <1>5, <2>2, <2>3, <2>4
  <2>7. Numbered(T \ B)
    <3>1. S \ A \subseteq S /\ T \ B \subseteq T
      OBVIOUS
    <3> QED
      BY <1>5, <2>3, <2>5, <3>1
  <2>8. \A x \in B : x.n <= v.count /\ (x.n = 1 => x.age = Period - v.left)
    <3> SUFFICES ASSUME NEW x \in B
                 PROVE  x.n <= v.count /\ (x.n = 1 => x.age = Period - v.left)
      OBVIOUS
    <3>1. PICK q \in S : x.n = q.n /\ x.age = q.age + 1 /\ x = [n |-> q.n, age |-> q.age + 1]
      BY <1>3, <2>2
    <3>2. q \in A
      BY <2>4, <3>1
    <3> QED
      BY <1>1, <1>2, <2>1, <2>3, <3>1, <3>2
  <2>9. \A x \in T \ B : x.n # 1
    <3> SUFFICES ASSUME NEW x \in T \ B
                 PROVE  x.n # 1
      OBVIOUS
    <3>1. PICK q \in S : x.n = q.n /\ x = [n |-> q.n, age |-> q.age + 1]
      BY <1>3
    <3>2. q \in S \ A
      BY <2>5, <3>1
    <3> QED
      BY <2>3, <3>1, <3>2
  <2> QED
    BY <1>4, <2>1, <2>3, <2>6, <2>7, <2>8, <2>9 DEF SlotInv
<1>7. CASE ~(w.left > 0)
  <2>1. v = [count |-> 0, left |-> -1]
    BY <1>7
  <2>2. v \in Slot /\ v.left < 0 /\ ~(v.left >= 0)
    BY <1>1, <2>1 DEF Slot
  <2>3. Numbered(S) /\ \A r \in S : r.n = 1 => r.age = Period
    <3>1. CASE w.left < 0
      BY <3>1 DEF SlotInv
    <3>2. CASE w.left >= 0
      <4>1. \A r \in S : r.age <= Period - w.left
        BY <1>1, <1>2, <1>7, <3>2
      <4>2. Since(w, S) = S
        BY <4>1 DEF Since
      <4>3. w.left = 0 /\ Period - w.left = Period
        BY <1>1, <1>7, <3>2
      <4> QED
        BY <3>2, <4>2, <4>3 DEF SlotInv
    <3> QED
      BY <1>1, <3>1, <3>2
  <2>4. Numbered(T)
    BY <1>5, <2>3
  <2>5. \A x \in T : x.n # 1
    <3> SUFFICES ASSUME NEW x \in T
                 PROVE  x.n # 1
      OBVIOUS
    <3>1. PICK q \in S : q.age < Period /\ x.n = q.n
      BY <1>3
    <3> QED
      BY <1>1, <1>2, <2>3, <3>1
  <2> QED
    BY <1>4, <2>2, <2>4, <2>5 DEF SlotInv
<1> QED
  BY <1>6, <1>7

----
(* The limiter. *)

\* No window is open and nothing has been let through.
LEMMA LimiterInitInv ==
    ASSUME LimiterInit
    PROVE  LimiterInv
<1>1. Period \in Nat
  BY RateLimiterAssumption
<1>2. [count |-> 0, left |-> -1] \in Slot
  BY <1>1 DEF Slot
<1>3. LimiterTypeOK
  BY <1>2 DEF LimiterInit, LimiterTypeOK
<1>4. ASSUME NEW ip \in IPs
      PROVE  SlotInv(windows[ip], recent[ip])
  <2>1. windows[ip].left = -1 /\ recent[ip] = {}
    BY DEF LimiterInit
  <2> QED
    BY <2>1 DEF SlotInv, Numbered, Since
<1> QED
  BY <1>3, <1>4 DEF LimiterInv

\* What the invariant says of one address.
LEMMA LimiterAt ==
    ASSUME LimiterInv, NEW ip \in IPs
    PROVE  windows[ip] \in Slot /\ recent[ip] \in SUBSET Entry /\ SlotInv(windows[ip], recent[ip])
  BY DEF LimiterInv, LimiterTypeOK, Entry

\* A request that is let through.
LEMMA LetThroughInv ==
    ASSUME LimiterInv, NEW ip \in IPs, LetThrough(ip)
    PROVE  LimiterInv'
<1> PICK w : w = windows[ip]
  OBVIOUS
<1> PICK S : S = recent[ip]
  OBVIOUS
<1> PICK v : v = [count |-> IF w.left < 0 THEN 1 ELSE w.count + 1,
                  left |-> IF w.left < 0 THEN Period ELSE w.left]
  OBVIOUS
<1> PICK r : r = [n |-> v.count, age |-> 0]
  OBVIOUS
<1>1. w \in Slot /\ S \in SUBSET Entry /\ SlotInv(w, S) /\ Allow(w)
  BY LimiterAt DEF LetThrough
<1>2. \/ w.left < 0 /\ v = [count |-> 1, left |-> Period]
      \/ ~(w.left < 0) /\ v = [count |-> w.count + 1, left |-> w.left]
  OBVIOUS
<1>3. v \in Slot /\ r \in Entry /\ SlotInv(v, S \cup {r})
  BY <1>1, <1>2, SlotTakes
<1>4. windows' = [windows EXCEPT ![ip] = v] /\ recent' = [recent EXCEPT ![ip] = S \cup {r}]
  BY DEF LetThrough
<1>5. windows \in [IPs -> Slot] /\ recent \in [IPs -> SUBSET Entry]
  BY DEF LimiterInv, LimiterTypeOK, Entry
<1>6. S \cup {r} \in SUBSET Entry
  BY <1>1, <1>3
<1>7. windows' \in [IPs -> Slot] /\ recent' \in [IPs -> SUBSET Entry]
  BY <1>3, <1>4, <1>5, <1>6
<1>8. ASSUME NEW i \in IPs
      PROVE  SlotInv(windows'[i], recent'[i])
  <2>1. CASE i = ip
    <3>1. windows'[i] = v /\ recent'[i] = S \cup {r}
      BY <1>4, <1>5, <2>1
    <3> QED
      BY <1>3, <3>1
  <2>2. CASE i # ip
    <3>1. windows'[i] = windows[i] /\ recent'[i] = recent[i]
      BY <1>4, <1>5, <2>2
    <3> QED
      BY <3>1, LimiterAt
  <2> QED
    BY <2>1, <2>2
<1> QED
  BY <1>7, <1>8 DEF LimiterInv, LimiterTypeOK, Entry

\* Time passes.
LEMMA LimiterTickInv ==
    ASSUME LimiterInv, LimiterTick
    PROVE  LimiterInv'
<1>1. ASSUME NEW ip \in IPs
      PROVE  /\ windows'[ip] \in Slot /\ recent'[ip] \in SUBSET Entry
             /\ SlotInv(windows'[ip], recent'[ip])
  <2> PICK w : w = windows[ip]
    OBVIOUS
  <2> PICK S : S = recent[ip]
    OBVIOUS
  <2> PICK v : v = windows'[ip]
    OBVIOUS
  <2> PICK T : T = recent'[ip]
    OBVIOUS
  <2>1. w \in Slot /\ S \in SUBSET Entry /\ SlotInv(w, S)
    BY LimiterAt
  <2>2. \/ w.left > 0 /\ v = [w EXCEPT !.left = @ - 1]
        \/ ~(w.left > 0) /\ v = [count |-> 0, left |-> -1]
    BY DEF LimiterTick
  <2>3. T = {[n |-> r.n, age |-> r.age + 1] : r \in {q \in S : q.age < Period}}
    BY DEF LimiterTick
  <2> QED
    BY <2>1, <2>2, <2>3, SlotAges
<1>2. windows' \in [IPs -> Slot] /\ recent' \in [IPs -> SUBSET Entry]
  BY <1>1 DEF LimiterTick
<1> QED
  BY <1>1, <1>2 DEF LimiterInv, LimiterTypeOK, Entry

\* The limiter is not used.
LEMMA LimiterKept ==
    ASSUME LimiterInv, UNCHANGED <<windows, recent>>
    PROVE  LimiterInv'
<1>1. windows' = windows /\ recent' = recent
  OBVIOUS
<1> QED
  BY <1>1 DEF LimiterInv, LimiterTypeOK

\* Two windows at most have let requests through within a period, and the one that opened
\* the older is not among them.
LEMMA LimiterBound ==
    ASSUME LimiterInv
    PROVE  BurstBounded
  BY LimiterAt, SlotBound DEF BurstBounded

\* Every request that is let through counts in the history: none is taken for another.
LEMMA EachCounted ==
    ASSUME LimiterInv, NEW ip \in IPs, LetThrough(ip)
    PROVE  Cardinality(recent'[ip]) = Cardinality(recent[ip]) + 1
<1> PICK w : w = windows[ip]
  OBVIOUS
<1> PICK S : S = recent[ip]
  OBVIOUS
<1> PICK v : v = [count |-> IF w.left < 0 THEN 1 ELSE w.count + 1,
                  left |-> IF w.left < 0 THEN Period ELSE w.left]
  OBVIOUS
<1> PICK r : r = [n |-> v.count, age |-> 0]
  OBVIOUS
<1>1. w \in Slot /\ S \in SUBSET Entry /\ SlotInv(w, S) /\ Allow(w)
  BY LimiterAt DEF LetThrough
<1>2. \/ w.left < 0 /\ v = [count |-> 1, left |-> Period]
      \/ ~(w.left < 0) /\ v = [count |-> w.count + 1, left |-> w.left]
  OBVIOUS
<1>3. r \notin S /\ IsFiniteSet(S)
  BY <1>1, <1>2, SlotTakes, SlotBound
<1>4. recent'[ip] = S \cup {r}
  BY DEF LetThrough, LimiterInv, LimiterTypeOK
<1>5. Cardinality(S \cup {r}) = Cardinality(S) + 1
  BY <1>3, FS_AddElement
<1> QED
  BY <1>4, <1>5, Zenon

====
