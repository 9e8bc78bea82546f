---- MODULE IdentityProofs ----
(***************************************************************************)
(* Signing in, for any number of clients, codes, sessions and edits: what  *)
(* the separate statements of StartLogin and VerifyLogin can let through   *)
(* is bounded by the calls under way, a role outlives its account by at    *)
(* most a session's lifetime, and the domain policy fails safe.            *)
(*                                                                         *)
(* The bounds are not inductive as they stand: between its read and its    *)
(* write a call has already passed the check.  The invariant counts such a *)
(* call as what it is about to do.                                         *)
(***************************************************************************)
EXTENDS Identity, RateLimiterProofs, TLAPS, SequenceTheorems, FiniteSetTheorems, WellFoundedInduction

----
(* The constants and the directory. *)

\* The lifetimes are positive, so that a fresh row is a live one.
LEMMA Constants ==
    /\ MaxOTPAttempts \in Nat /\ MaxOTPAttempts > 0
    /\ OTPTTL \in Nat /\ OTPTTL > 0
    /\ SessionTTL \in Nat /\ SessionTTL > 0
    /\ Never = SessionTTL + 1 /\ Never \in Nat
    /\ MaxCalls \in Nat /\ MaxEdits \in Nat
    /\ IsFiniteSet(Clients) /\ Cardinality(Clients) \in Nat
<1>1. IsFiniteSet(Clients)
  BY IdentityAssumption
<1>2. Cardinality(Clients) \in Nat
  BY <1>1, FS_CardinalityType
<1> QED
  BY <1>1, <1>2, IdentityAssumption DEF Never

\* The role of an ACTIVE account, if there is one.
LEMMA ActiveRoleType ==
    ASSUME admin \in {None} \cup [role : AdminRoles, status : Statuses],
           student \in {None} \cup Statuses
    PROVE  /\ \A type : ActiveRole(type) \in Roles \cup {None}
           /\ FindByEmail \in Roles \cup {None}
           /\ FindByEmail # None => \E type \in {"ADMIN", "STUDENT"} : FindByEmail = ActiveRole(type)
<1>1. ASSUME NEW type
      PROVE  ActiveRole(type) \in Roles \cup {None}
  BY DEF ActiveRole, Roles, AdminRoles
<1> QED
  BY <1>1 DEF FindByEmail

----
(* Calls: only one of them moves at a time. *)

\* The locals at the beginning of a call.
LEMMA IdleLocals ==
    Idle \in Locals /\ Idle.pc = "idle" /\ Idle.id = 0 /\ Idle.role = None /\ Idle.age = 0 /\ Idle.dead = FALSE
  BY Constants DEF Idle, Locals, PCs

\* A call that moves leaves or joins the calls at a step; the others stay where they are.
LEMMA AtStep ==
    ASSUME calls \in [Clients -> Locals], NEW c \in Clients, NEW v,
           calls' = [calls EXCEPT ![c] = v], NEW pcs
    PROVE  At(pcs)' = IF v.pc \in pcs THEN At(pcs) \cup {c} ELSE At(pcs) \ {c}
  BY DEF At

\* Every set of challenges and of sessions is finite.
LEMMA RowsFinite ==
    ASSUME NEW k \in Nat, NEW S \in SUBSET (1 .. k)
    PROVE  IsFiniteSet(S) /\ Cardinality(S) \in Nat
<1>1. IsFiniteSet(1 .. k)
  BY FS_Interval
<1> QED
  BY <1>1, FS_Subset, FS_CardinalityType

\* Every set of calls is finite.
LEMMA CallsFinite ==
    ASSUME NEW pcs, NEW n
    PROVE  /\ IsFiniteSet(At(pcs)) /\ Cardinality(At(pcs)) \in Nat
           /\ Cardinality(At(pcs)) <= Cardinality(Clients)
           /\ IsFiniteSet(Holding(n, pcs)) /\ Cardinality(Holding(n, pcs)) \in Nat
           /\ Cardinality(Holding(n, pcs)) <= Cardinality(Clients)
<1>1. At(pcs) \in SUBSET Clients /\ Holding(n, pcs) \in SUBSET Clients
  BY DEF At, Holding
<1> QED
  BY <1>1, Constants, FS_Subset, FS_CardinalityType

\* How the number of elements changes when one of them joins or leaves.
LEMMA OneMoves ==
    ASSUME NEW S, IsFiniteSet(S), NEW x, NEW b \in BOOLEAN,
           NEW T, T = IF b THEN S \cup {x} ELSE S \ {x}
    PROVE  /\ Cardinality(S) \in Nat /\ Cardinality(T) \in Nat
           /\ Cardinality(T) <= Cardinality(S) + 1
           /\ ~b \/ x \in S => Cardinality(T) <= Cardinality(S)
           /\ ~b /\ x \in S => Cardinality(T) + 1 <= Cardinality(S)
<1>1. Cardinality(S) \in Nat
  BY FS_CardinalityType
<1>2. CASE b
  <2>1. Cardinality(T) = IF x \in S THEN Cardinality(S) ELSE Cardinality(S) + 1
    BY <1>2, FS_AddElement
  <2> QED
    BY <1>1, <1>2, <2>1
<1>3. CASE ~b
  <2>1. IsFiniteSet(T) /\ Cardinality(T) = IF x \in S THEN Cardinality(S) - 1 ELSE Cardinality(S)
    BY <1>3, FS_RemoveElement
  <2>2. Cardinality(T) \in Nat
    BY <2>1, FS_CardinalityType
  <2> QED
    BY <1>1, <1>3, <2>1, <2>2
<1> QED
  BY <1>2, <1>3

\* How the number of calls at some steps changes when one call moves.
LEMMA AtCount ==
    ASSUME calls \in [Clients -> Locals], NEW c \in Clients, NEW v,
           calls' = [calls EXCEPT ![c] = v], NEW pcs
    PROVE  /\ Cardinality(At(pcs)) \in Nat /\ Cardinality(At(pcs)') \in Nat
           /\ Cardinality(At(pcs)') <= Cardinality(At(pcs)) + 1
           /\ v.pc \notin pcs \/ c \in At(pcs) => Cardinality(At(pcs)') <= Cardinality(At(pcs))
           /\ v.pc \notin pcs /\ c \in At(pcs) => Cardinality(At(pcs)') + 1 <= Cardinality(At(pcs))
<1> PICK S, T, b : S = At(pcs) /\ T = At(pcs)' /\ b = (v.pc \in pcs)
  OBVIOUS
<1>1. IsFiniteSet(S) /\ b \in BOOLEAN
  BY CallsFinite
<1>2. T = IF b THEN S \cup {c} ELSE S \ {c}
  BY AtStep
<1>3. /\ Cardinality(S) \in Nat /\ Cardinality(T) \in Nat
      /\ Cardinality(T) <= Cardinality(S) + 1
      /\ ~b \/ c \in S => Cardinality(T) <= Cardinality(S)
      /\ ~b /\ c \in S => Cardinality(T) + 1 <= Cardinality(S)
  BY <1>1, <1>2, OneMoves
<1> QED
  BY <1>3

\* The same for the calls that work on one challenge.
LEMMA HoldingCount ==
    ASSUME calls \in [Clients -> Locals], NEW c \in Clients, NEW v,
           calls' = [calls EXCEPT ![c] = v], NEW pcs, NEW n
    PROVE  /\ Cardinality(Holding(n, pcs)) \in Nat /\ Cardinality(Holding(n, pcs)') \in Nat
           /\ v.pc \notin pcs \/ v.id # n \/ c \in Holding(n, pcs)
              => Cardinality(Holding(n, pcs)') <= Cardinality(Holding(n, pcs))
           /\ v.pc \notin pcs /\ c \in Holding(n, pcs)
              => Cardinality(Holding(n, pcs)') + 1 <= Cardinality(Holding(n, pcs))
           /\ Cardinality(Holding(n, pcs)') <= Cardinality(Clients)
<1> PICK S, T, b : S = Holding(n, pcs) /\ T = Holding(n, pcs)' /\ b = (v.pc \in pcs /\ v.id = n)
  OBVIOUS
<1>1. IsFiniteSet(S) /\ b \in BOOLEAN
  BY CallsFinite
<1>2. T = IF b THEN S \cup {c} ELSE S \ {c}
  BY DEF Holding, At
<1>3. T \in SUBSET Clients
  BY DEF Holding, At
<1>4. Cardinality(T) <= Cardinality(Clients)
  BY <1>3, Constants, FS_Subset
<1>5. /\ Cardinality(S) \in Nat /\ Cardinality(T) \in Nat
      /\ ~b \/ c \in S => Cardinality(T) <= Cardinality(S)
      /\ ~b /\ c \in S => Cardinality(T) + 1 <= Cardinality(S)
  BY <1>1, <1>2, OneMoves
<1> QED
  BY <1>4, <1>5

----
(* LatestActive. *)

\* Among some rows of a table there is a last one.
LEMMA LastOne ==
    ASSUME NEW k \in Nat, NEW S \in SUBSET (1 .. k), S # {}
    PROVE  \E n \in S : \A m \in S : m <= n
<1> DEFINE R == OpToRel(<, Nat)
           T == {k - n : n \in S}
<1>1. IsWellFoundedOn(R, Nat)
  BY NatLessThanWellFounded
<1>2. T \subseteq Nat /\ T # {}
  <2>1. \A n \in S : k - n \in Nat
    OBVIOUS
  <2> QED
    BY <2>1
<1> HIDE DEF R, T
<1>3. PICK x \in T : \A y \in T : ~ (<<y, x>> \in R)
  BY <1>1, <1>2, WFMin
<1>4. \A y \in T : ~(y < x)
  BY <1>2, <1>3 DEF R, OpToRel
<1>5. PICK n \in S : x = k - n
  BY DEF T
<1>6. \A m \in S : k - m \in T
  BY DEF T
<1> QED
  BY <1>4, <1>5, <1>6

\* LatestActive names a live challenge, if there is one.
LEMMA LatestActiveType ==
    ASSUME challenges \in Seq(Challenge)
    PROVE  IF Live = {} THEN LatestActive = 0 ELSE LatestActive \in Live
<1>1. Len(challenges) \in Nat /\ Live \in SUBSET (1 .. Len(challenges))
  BY LenProperties DEF Live
<1>2. Live # {} => \E n \in Live : \A m \in Live : m <= n
  BY <1>1, LastOne
<1> QED
  BY <1>2 DEF LatestActive

----
(* Steps of a call that leave the rows and the directory alone. *)

\* The tables and the locals of a state of the invariant.
LEMMA Shapes ==
    ASSUME IInv
    PROVE  /\ challenges \in Seq(Challenge) /\ Len(challenges) \in Nat
           /\ DOMAIN challenges = 1 .. Len(challenges)
           /\ \A n \in DOMAIN challenges : challenges[n] \in Challenge
           /\ sessions \in Seq({None} \cup Session) /\ Len(sessions) \in Nat
           /\ DOMAIN sessions = 1 .. Len(sessions)
           /\ \A i \in DOMAIN sessions : sessions[i] # None => sessions[i] \in Session
           /\ calls \in [Clients -> Locals] /\ \A c \in Clients : calls[c] \in Locals
           /\ made \in Nat /\ made <= MaxCalls
  BY LenProperties, Constants DEF IInv, TypeOK

\* A call moves to v: what v has to satisfy.
MoveOk(c, v) ==
    /\ calls' = [calls EXCEPT ![c] = v]
    /\ UNCHANGED <<directory, challenges, sessions>>
    /\ LimiterInv'
    /\ made' = made \/ (made' = made + 1 /\ made < MaxCalls)
    /\ v.pc \in Inserts => c \in At(Inserts) \/ made' = made + 1
    /\ v.pc \in {"mail", "wrong", "user", "consume"} => v.id \in DOMAIN challenges
    /\ v.pc # "session"
    /\ v.pc = "wrong" => challenges[v.id].attempts < MaxOTPAttempts
    /\ v.pc = "create" => Live = {}
    /\ v.pc \in {"user", "consume"} => ~challenges[v.id].consumed \/ c \in Holding(v.id, Opens)
    /\ v.pc = "consume" => v.role \in Roles /\ lastHeld[v.role] <= v.age
    /\ v.pc = "subject" /\ v.dead => FindBySubject(SubjectType(v.role)) = None
    /\ v.pc \in {"find", "latest", "create"} => EmailDomain \in ConfigDomains \/ listed

\* Such a move preserves the invariant.
LEMMA MoveStep ==
    ASSUME IInv, NEW c \in Clients, NEW v \in Locals, MoveOk(c, v)
    PROVE  IInv'
<1> USE DEF directory
<1>0. calls \in [Clients -> Locals] /\ calls' = [calls EXCEPT ![c] = v]
  BY Shapes DEF MoveOk
<1>1. TypeOK' /\ LimiterInv'
  BY Constants DEF IInv, TypeOK, MoveOk, LimiterInv
<1>2. RowsCounted'
  <2>1. Len(challenges)' = Len(challenges) /\ Len(sessions)' = Len(sessions)
    BY DEF MoveOk
  <2>2. /\ Cardinality(At(Inserts)) \in Nat /\ Cardinality(At(Inserts)') \in Nat
        /\ Cardinality(At(Inserts)') <= Cardinality(At(Inserts)) + 1
        /\ v.pc \notin Inserts \/ c \in At(Inserts)
           => Cardinality(At(Inserts)') <= Cardinality(At(Inserts))
    BY <1>0, AtCount, Zenon
  <2> QED
    BY <2>1, <2>2, Shapes DEF IInv, RowsCounted, MoveOk
<1>3. IdsValid'
  BY <1>0, AtStep DEF IInv, IdsValid, MoveOk, At
<1>4. AttemptsCounted'
  <2> SUFFICES ASSUME NEW n \in DOMAIN challenges
               PROVE  challenges[n].attempts + Cardinality(Holding(n, {"wrong"})')
                      <= MaxOTPAttempts + Cardinality(Clients) - 1
    BY DEF AttemptsCounted, MoveOk
  <2>1. challenges[n].attempts \in Nat
    BY Shapes DEF Challenge
  <2>2. challenges[n].attempts + Cardinality(Holding(n, {"wrong"}))
        <= MaxOTPAttempts + Cardinality(Clients) - 1
    BY DEF IInv, AttemptsCounted
  <2>3. /\ Cardinality(Holding(n, {"wrong"})) \in Nat /\ Cardinality(Holding(n, {"wrong"})') \in Nat
        /\ v.pc \notin {"wrong"} \/ v.id # n \/ c \in Holding(n, {"wrong"})
           => Cardinality(Holding(n, {"wrong"})') <= Cardinality(Holding(n, {"wrong"}))
        /\ Cardinality(Holding(n, {"wrong"})') <= Cardinality(Clients)
    BY <1>0, HoldingCount, Zenon
  <2>4. v.pc = "wrong" /\ v.id = n => challenges[n].attempts < MaxOTPAttempts
    BY DEF MoveOk
  <2> QED
    BY <2>1, <2>2, <2>3, <2>4, Constants
<1>5. LiveCounted'
  <2>1. Live' = Live
    BY DEF MoveOk, Live
  <2>2. CASE v.pc = "create"
    <3>1. Cardinality(Live') = 0
      BY <2>1, <2>2, FS_EmptySet DEF MoveOk
    <3>2. At({"create"})' \in SUBSET Clients
      BY DEF At
    <3>3. Cardinality(At({"create"})') <= Cardinality(Clients) /\ Cardinality(At({"create"})') \in Nat
      BY <3>2, Constants, FS_Subset, FS_CardinalityType
    <3> QED
      BY <3>1, <3>3 DEF LiveCounted
  <2>3. CASE v.pc # "create"
    <3>1. Live \in SUBSET (1 .. Len(challenges))
      BY Shapes DEF Live
    <3>2. Cardinality(Live) \in Nat
      BY <3>1, Shapes, RowsFinite
    <3>3. /\ Cardinality(At({"create"})) \in Nat /\ Cardinality(At({"create"})') \in Nat
          /\ v.pc \notin {"create"} => Cardinality(At({"create"})') <= Cardinality(At({"create"}))
      BY <1>0, AtCount, Zenon
    <3> QED
      BY <2>1, <2>3, <3>2, <3>3, Constants DEF IInv, LiveCounted
  <2> QED
    BY <2>2, <2>3
<1>6. SessionsCounted'
  <2> SUFFICES ASSUME NEW n \in DOMAIN challenges
               PROVE  Cardinality(OpenedBy(n)) + Cardinality(Holding(n, Opens)')
                      <= Cardinality(Clients)
    BY DEF SessionsCounted, MoveOk, OpenedBy
  <2>1. OpenedBy(n) \in SUBSET (1 .. Len(sessions))
    BY Shapes DEF OpenedBy
  <2>2. Cardinality(OpenedBy(n)) \in Nat
    BY <2>1, Shapes, RowsFinite
  <2>3. Cardinality(OpenedBy(n)) + Cardinality(Holding(n, Opens)) <= Cardinality(Clients)
    BY DEF IInv, SessionsCounted
  <2>6. /\ Cardinality(Holding(n, Opens)) \in Nat /\ Cardinality(Holding(n, Opens)') \in Nat
        /\ v.pc \notin Opens \/ v.id # n \/ c \in Holding(n, Opens)
           => Cardinality(Holding(n, Opens)') <= Cardinality(Holding(n, Opens))
        /\ Cardinality(Holding(n, Opens)') <= Cardinality(Clients)
    BY <1>0, HoldingCount, Zenon
  <2>4. CASE v.pc \in Opens /\ v.id = n /\ c \notin Holding(n, Opens)
    <3>1. ~challenges[n].consumed
      BY <2>4 DEF MoveOk, Opens
    <3>2. OpenedBy(n) = {}
      BY <3>1 DEF IInv, IdsValid, OpenedBy
    <3>3. Cardinality(OpenedBy(n)) = 0
      BY <3>2, FS_EmptySet
    <3> QED
      BY <2>6, <3>3, Constants
  <2>5. CASE v.pc \notin Opens \/ v.id # n \/ c \in Holding(n, Opens)
    BY <2>2, <2>3, <2>5, <2>6, Constants
  <2> QED
    BY <2>4, <2>5
<1>7. RolesFollowed'
  BY <1>0 DEF IInv, RolesFollowed, MoveOk, At, ActiveRole, FindBySubject
<1>8. RoleFresh'
  BY DEF IInv, RoleFresh, MoveOk
<1>9. PolicyFollowed'
  BY <1>0 DEF IInv, PolicyFollowed, MoveOk, At, Lists
<1> QED
  BY <1>1, <1>2, <1>3, <1>4, <1>5, <1>6, <1>7, <1>8, <1>9 DEF IInv

\* Goto changes the step of a call and nothing else about it.
LEMMA GotoForm ==
    ASSUME calls \in [Clients -> Locals], NEW c \in Clients, NEW pc \in PCs, Goto(c, pc)
    PROVE  \E v \in Locals : /\ calls' = [calls EXCEPT ![c] = v]
                             /\ v.pc = pc /\ v.id = calls[c].id /\ v.role = calls[c].role
                             /\ v.age = calls[c].age /\ v.dead = calls[c].dead
<1> PICK v : v = [calls[c] EXCEPT !.pc = pc]
  OBVIOUS
<1>1. calls[c] \in Locals
  OBVIOUS
<1>2. v \in Locals /\ v.pc = pc /\ v.id = calls[c].id /\ v.role = calls[c].role
      /\ v.age = calls[c].age /\ v.dead = calls[c].dead
  BY <1>1 DEF Locals
<1>3. calls' = [calls EXCEPT ![c] = v]
  BY DEF Goto
<1> QED
  BY <1>2, <1>3

\* A call may be answered at any step.
LEMMA AnswerStep ==
    ASSUME IInv, NEW c \in Clients, Answer(c), LimiterInv', made' = made,
           UNCHANGED <<directory, challenges, sessions>>
    PROVE  IInv'
<1>1. MoveOk(c, Idle)
  BY IdleLocals DEF Answer, MoveOk, Inserts, directory
<1> QED
  BY <1>1, IdleLocals, MoveStep

\* A login call arrives.
LEMMA ArriveStep ==
    ASSUME IInv, NEW c \in Clients, NEW op \in {"start", "verify"}, Arrive(c, op)
    PROVE  IInv'
<1>1. PICK ip \in IPs : LetThrough(ip)
  BY DEF Arrive
<1>2. LimiterInv'
  BY <1>1, LetThroughInv DEF IInv
<1>3. op \in PCs
  BY DEF PCs
<1>4. PICK v \in Locals : calls' = [calls EXCEPT ![c] = v] /\ v.pc = op
  BY <1>3, GotoForm, Shapes DEF Arrive
<1>5. MoveOk(c, v)
  BY <1>2, <1>4 DEF Arrive, Call, MoveOk, Inserts
<1> QED
  BY <1>5, MoveStep

\* The domain policy lets only a listed or configured domain through.
LEMMA PolicySound ==
    ASSUME PolicyFollowed, IsAllowedDomain(EffectiveDomains)
    PROVE  EmailDomain \in ConfigDomains \/ listed
  BY IdentityAssumption DEF PolicyFollowed, IsAllowedDomain, EffectiveDomains, AllowedDomains, Lists

\* A call goes to a step that asks for no locals.
LEMMA GotoStep ==
    ASSUME IInv, NEW c \in Clients, NEW pc \in {"find", "latest", "create", "served"}, Goto(c, pc),
           UNCHANGED <<limiter, directory, challenges, sessions>>,
           pc \in Inserts => c \in At(Inserts),
           pc = "create" => Live = {},
           pc # "served" => EmailDomain \in ConfigDomains \/ listed
    PROVE  IInv'
<1>1. LimiterInv' /\ made' = made
  BY LimiterKept DEF IInv, limiter
<1>2. pc \in PCs
  BY DEF PCs
<1>3. PICK v \in Locals : calls' = [calls EXCEPT ![c] = v] /\ v.pc = pc
  BY <1>2, GotoForm, Shapes
<1>4. MoveOk(c, v)
  BY <1>1, <1>3 DEF MoveOk, directory
<1> QED
  BY <1>4, MoveStep

\* A call is answered and has changed nothing.
LEMMA AnswerOnly ==
    ASSUME IInv, NEW c \in Clients, Answer(c),
           UNCHANGED <<limiter, directory, challenges, sessions>>
    PROVE  IInv'
<1>1. LimiterInv' /\ made' = made
  BY LimiterKept DEF IInv, limiter
<1> QED
  BY <1>1, AnswerStep

\* StartLogin: the domain, the account and the live challenge are read.
LEMMA StartReads ==
    ASSUME IInv, NEW c \in Clients, CheckDomain(c) \/ FindAccount(c) \/ ReuseChallenge(c)
    PROVE  IInv'
<1>1. UNCHANGED <<limiter, directory, challenges, sessions>> /\ c \in At(Inserts)
  BY DEF CheckDomain, FindAccount, ReuseChallenge, At, Inserts
<1>2. CASE Answer(c)
  BY <1>1, <1>2, AnswerOnly
<1>3. CASE IsAllowedDomain(EffectiveDomains) /\ Goto(c, "find")
  <2>1. EmailDomain \in ConfigDomains \/ listed
    BY <1>3, PolicySound DEF IInv
  <2> QED
    BY <1>1, <1>3, <2>1, GotoStep
<1>4. CASE FindAccount(c) /\ Goto(c, "latest")
  <2>1. EmailDomain \in ConfigDomains \/ listed
    BY <1>4 DEF IInv, PolicyFollowed, FindAccount, At
  <2> QED
    BY <1>1, <1>4, <2>1, GotoStep
<1>5. CASE ReuseChallenge(c) /\ LatestActive = 0 /\ Goto(c, "create")
  <2>1. EmailDomain \in ConfigDomains \/ listed
    BY <1>5 DEF IInv, PolicyFollowed, ReuseChallenge, At
  <2>2. Live = {}
    <3>1. 0 \notin Live
      BY Shapes DEF Live
    <3> QED
      BY <1>5, <3>1, Shapes, LatestActiveType
  <2> QED
    BY <1>1, <1>5, <2>1, <2>2, GotoStep
<1> QED
  BY <1>2, <1>3, <1>4, <1>5 DEF CheckDomain, FindAccount, ReuseChallenge

\* A session's call is checked against its account and served.
LEMMA GuardStep ==
    ASSUME IInv, NEW c \in Clients, CheckSubject(c) \/ Served(c)
    PROVE  IInv'
<1>1. UNCHANGED <<limiter, directory, challenges, sessions>>
  BY DEF CheckSubject, Served
<1>2. Answer(c) \/ Goto(c, "served")
  BY DEF CheckSubject, Served
<1>3. "served" \notin Inserts
  BY DEF Inserts
<1> QED
  BY <1>1, <1>2, <1>3, AnswerOnly, GotoStep

\* VerifyLogin looks the challenge up.
LEMMA CheckCodeStep ==
    ASSUME IInv, NEW c \in Clients, CheckCode(c)
    PROVE  IInv'
<1> PICK n : n = LatestActive
  OBVIOUS
<1>1. UNCHANGED <<limiter, directory, challenges, sessions>> /\ calls[c].pc = "verify"
  BY DEF CheckCode
<1>2. LimiterInv' /\ made' = made
  BY <1>1, LimiterKept DEF IInv, limiter
<1>3. calls[c] \in Locals /\ calls \in [Clients -> Locals]
  BY Shapes
<1>4. n # 0 => n \in DOMAIN challenges /\ ~challenges[n].consumed /\ n \in 0 .. MaxCalls
  <2>1. n # 0 => n \in Live
    BY Shapes, LatestActiveType
  <2>2. Len(challenges) <= MaxCalls
    <3>1. Cardinality(At(Inserts)) \in Nat
      BY CallsFinite
    <3> QED
      BY <3>1, Shapes, Constants DEF IInv, RowsCounted
  <2> QED
    BY <2>1, <2>2, Shapes, Constants DEF Live, Active
<1>5. CASE Answer(c)
  BY <1>1, <1>5, AnswerOnly
<1>6. CASE /\ n # 0 /\ challenges[n].attempts < MaxOTPAttempts
           /\ calls' = [calls EXCEPT ![c].pc = "wrong", ![c].id = n]
  <2> PICK v : v = [calls[c] EXCEPT !.pc = "wrong", !.id = n]
    OBVIOUS
  <2>1. v \in Locals /\ v.pc = "wrong" /\ v.id = n
    BY <1>3, <1>4, <1>6 DEF Locals, PCs
  <2>2. calls' = [calls EXCEPT ![c] = v]
    BY <1>3, <1>6
  <2>3. MoveOk(c, v)
    BY <1>1, <1>2, <1>4, <1>6, <2>1, <2>2 DEF MoveOk, directory, Inserts
  <2> QED
    BY <2>1, <2>3, MoveStep
<1>7. CASE /\ n # 0 /\ challenges[n].attempts < MaxOTPAttempts
           /\ calls' = [calls EXCEPT ![c].pc = "user", ![c].id = n, ![c].age = 0]
  <2> PICK v : v = [calls[c] EXCEPT !.pc = "user", !.id = n, !.age = 0]
    OBVIOUS
  <2>0. 0 \in 0 .. Never
    BY Constants
  <2>1. v \in Locals /\ v.pc = "user" /\ v.id = n
    BY <1>3, <1>4, <1>7, <2>0 DEF Locals, PCs
  <2>2. calls' = [calls EXCEPT ![c] = v]
    BY <1>3, <1>7
  <2>3. c \in At(Inserts)
    BY <1>1 DEF At, Inserts
  <2>4. MoveOk(c, v)
    BY <1>1, <1>2, <1>4, <1>7, <2>1, <2>2, <2>3 DEF MoveOk, directory
  <2> QED
    BY <2>1, <2>4, MoveStep
<1> QED
  BY <1>5, <1>6, <1>7 DEF CheckCode

\* VerifyLogin looks the account up.
LEMMA FindUserStep ==
    ASSUME IInv, NEW c \in Clients, FindUser(c)
    PROVE  IInv'
<1>1. UNCHANGED <<limiter, directory, challenges, sessions>> /\ calls[c].pc = "user"
  BY DEF FindUser
<1>2. LimiterInv' /\ made' = made
  BY <1>1, LimiterKept DEF IInv, limiter
<1>3. calls[c] \in Locals /\ calls \in [Clients -> Locals]
  BY Shapes
<1>4. CASE Answer(c)
  BY <1>1, <1>4, AnswerOnly
<1>5. CASE FindByEmail # None /\ calls' = [calls EXCEPT ![c].pc = "consume", ![c].role = FindByEmail]
  <2> PICK r : r = FindByEmail
    OBVIOUS
  <2> PICK v : v = [calls[c] EXCEPT !.pc = "consume", !.role = r]
    OBVIOUS
  <2>1. r \in Roles /\ lastHeld[r] = 0
    <3>1. /\ FindByEmail \in Roles \cup {None}
          /\ \E type \in {"ADMIN", "STUDENT"} : FindByEmail = ActiveRole(type)
      BY <1>5, ActiveRoleType DEF IInv, TypeOK
    <3> QED
      BY <1>5, <3>1 DEF IInv, RolesFollowed
  <2>2. v \in Locals /\ v.pc = "consume" /\ v.id = calls[c].id /\ v.role = r /\ v.age = calls[c].age
    BY <1>3, <2>1 DEF Locals, PCs
  <2>3. calls' = [calls EXCEPT ![c] = v]
    BY <1>3, <1>5
  <2>4. c \in At(Inserts) /\ c \in Holding(v.id, Opens) /\ v.id \in DOMAIN challenges
    BY <1>1, <2>2 DEF IInv, IdsValid, At, Inserts, Holding, Opens
  <2>5. 0 <= v.age
    <3>1. v.age \in 0 .. Never
      BY <2>2 DEF Locals
    <3> QED
      BY <3>1, Constants
  <2>6. MoveOk(c, v)
    BY <1>1, <1>2, <2>1, <2>2, <2>3, <2>4, <2>5 DEF MoveOk, directory
  <2> QED
    BY <2>2, <2>6, MoveStep
<1> QED
  BY <1>4, <1>5 DEF FindUser

\* Authenticate reads the session.
LEMMA GetSessionStep ==
    ASSUME IInv, NEW c \in Clients, NEW n \in DOMAIN sessions, GetSession(c, n)
    PROVE  IInv'
<1> PICK r, d : r = sessions[n].role /\ d = (FindBySubject(SubjectType(sessions[n].role)) = None)
  OBVIOUS
<1> PICK v : v = [Idle EXCEPT !.pc = "subject", !.id = n, !.role = r, !.dead = d]
  OBVIOUS
<1>1. UNCHANGED <<windows, recent, directory, challenges, sessions>>
  BY DEF GetSession
<1>2. LimiterInv'
  BY <1>1, LimiterKept DEF IInv
<1>3. r \in Roles \cup {None} /\ n \in 0 .. MaxCalls /\ d \in BOOLEAN
  <2>1. r \in Roles
    BY Shapes DEF GetSession, Session
  <2>2. Cardinality(At(Inserts)) \in Nat
    BY CallsFinite
  <2>3. Len(sessions) <= MaxCalls
    BY <2>2, Shapes, Constants DEF IInv, RowsCounted
  <2> QED
    BY <2>1, <2>3, Shapes, Constants
<1>4. v \in Locals /\ v.pc = "subject" /\ v.role = r /\ v.dead = d
  BY <1>3, IdleLocals DEF Locals, PCs
<1>5. calls' = [calls EXCEPT ![c] = v]
  BY DEF GetSession
<1>6. MoveOk(c, v)
  BY <1>1, <1>2, <1>4, <1>5 DEF MoveOk, directory, Inserts, GetSession, Call
<1> QED
  BY <1>4, <1>6, MoveStep

----
(* Steps of a call that change its challenge. *)

\* A call at one of its last steps writes ch to its challenge and goes to v.
WriteOk(c, v, k, ch) ==
    /\ calls' = [calls EXCEPT ![c] = v]
    /\ challenges' = [challenges EXCEPT ![k] = ch]
    /\ UNCHANGED <<limiter, directory, sessions>>
    /\ calls[c].id = k
    /\ ch.left = challenges[k].left
    /\ challenges[k].consumed => ch.consumed
    /\ \/ ch.attempts = challenges[k].attempts
       \/ calls[c].pc = "wrong" /\ ch.attempts = challenges[k].attempts + 1
    /\ \/ calls[c].pc \in {"mail", "wrong"} /\ v.pc = "idle"
       \/ /\ calls[c].pc = "consume" /\ v.pc = "session" /\ ch.consumed
          /\ v.id = k /\ v.role = calls[c].role /\ v.age = calls[c].age

\* Such a write preserves the invariant.
LEMMA WriteStep ==
    ASSUME IInv, NEW c \in Clients, NEW v \in Locals, NEW k \in DOMAIN challenges,
           NEW ch \in Challenge, WriteOk(c, v, k, ch)
    PROVE  IInv'
<1>0. calls \in [Clients -> Locals] /\ calls' = [calls EXCEPT ![c] = v]
  BY Shapes DEF WriteOk
<1>a. /\ challenges' \in Seq(Challenge) /\ Len(challenges') = Len(challenges)
      /\ DOMAIN challenges' = DOMAIN challenges
      /\ \A n \in DOMAIN challenges : challenges'[n] = IF n = k THEN ch ELSE challenges[n]
  BY Shapes, ExceptSeq DEF WriteOk
<1>b. UNCHANGED <<windows, recent, made, admin, student, setting, edits, lastHeld, listed, sessions>>
  BY DEF WriteOk, limiter, directory
<1>1. TypeOK' /\ LimiterInv'
  <2>1. LimiterInv'
    BY <1>b, LimiterKept DEF IInv
  <2> QED
    BY <1>0, <1>a, <1>b, <2>1 DEF IInv, TypeOK, LimiterInv
<1>2. RowsCounted'
  <2>1. /\ Cardinality(At(Inserts)) \in Nat /\ Cardinality(At(Inserts)') \in Nat
        /\ v.pc \notin Inserts \/ c \in At(Inserts)
           => Cardinality(At(Inserts)') <= Cardinality(At(Inserts))
    BY <1>0, AtCount, Zenon
  <2>2. v.pc \notin Inserts \/ c \in At(Inserts)
    BY DEF WriteOk, At, Inserts
  <2> QED
    BY <1>a, <1>b, <2>1, <2>2, Shapes DEF IInv, RowsCounted
<1>3. IdsValid'
  BY <1>0, <1>a, <1>b DEF IInv, IdsValid, WriteOk, At
<1>4. AttemptsCounted'
  <2> SUFFICES ASSUME NEW n \in DOMAIN challenges
               PROVE  challenges'[n].attempts + Cardinality(Holding(n, {"wrong"})')
                      <= MaxOTPAttempts + Cardinality(Clients) - 1
    BY <1>a DEF AttemptsCounted
  <2>1. challenges[n].attempts \in Nat
    BY Shapes DEF Challenge
  <2>2. challenges[n].attempts + Cardinality(Holding(n, {"wrong"}))
        <= MaxOTPAttempts + Cardinality(Clients) - 1
    BY DEF IInv, AttemptsCounted
  <2>3. /\ Cardinality(Holding(n, {"wrong"})) \in Nat /\ Cardinality(Holding(n, {"wrong"})') \in Nat
        /\ v.pc \notin {"wrong"} \/ v.id # n \/ c \in Holding(n, {"wrong"})
           => Cardinality(Holding(n, {"wrong"})') <= Cardinality(Holding(n, {"wrong"}))
        /\ v.pc \notin {"wrong"} /\ c \in Holding(n, {"wrong"})
           => Cardinality(Holding(n, {"wrong"})') + 1 <= Cardinality(Holding(n, {"wrong"}))
    BY <1>0, HoldingCount, Zenon
  <2>4. v.pc \notin {"wrong"}
    BY DEF WriteOk
  <2>5. CASE challenges'[n].attempts = challenges[n].attempts
    BY <2>1, <2>2, <2>3, <2>4, <2>5, Constants
  <2>6. CASE challenges'[n].attempts # challenges[n].attempts
    <3>1. n = k /\ challenges'[n].attempts = challenges[n].attempts + 1 /\ calls[c].pc = "wrong"
      BY <1>a, <2>6 DEF WriteOk
    <3>2. c \in Holding(n, {"wrong"})
      BY <3>1 DEF Holding, At, WriteOk
    <3> QED
      BY <2>1, <2>2, <2>3, <2>4, <3>1, <3>2, Constants
  <2> QED
    BY <2>5, <2>6
<1>5. LiveCounted'
  <2>1. Live' \in SUBSET Live
    BY <1>a DEF Live, Active, WriteOk
  <2>2. Live \in SUBSET (1 .. Len(challenges))
    BY Shapes DEF Live
  <2>3. IsFiniteSet(Live) /\ Cardinality(Live) \in Nat
    BY <2>2, Shapes, RowsFinite
  <2>4. Cardinality(Live') <= Cardinality(Live) /\ Cardinality(Live') \in Nat
    BY <2>1, <2>3, FS_Subset, FS_CardinalityType
  <2>5. /\ Cardinality(At({"create"})) \in Nat /\ Cardinality(At({"create"})') \in Nat
        /\ v.pc \notin {"create"} => Cardinality(At({"create"})') <= Cardinality(At({"create"}))
    BY <1>0, AtCount, Zenon
  <2>6. v.pc \notin {"create"}
    BY DEF WriteOk
  <2> QED
    BY <2>3, <2>4, <2>5, <2>6, Constants DEF IInv, LiveCounted
<1>6. SessionsCounted'
  <2> SUFFICES ASSUME NEW n \in DOMAIN challenges
               PROVE  Cardinality(OpenedBy(n)) + Cardinality(Holding(n, Opens)')
                      <= Cardinality(Clients)
    BY <1>a, <1>b DEF SessionsCounted, OpenedBy
  <2>1. OpenedBy(n) \in SUBSET (1 .. Len(sessions))
    BY Shapes DEF OpenedBy
  <2>2. Cardinality(OpenedBy(n)) \in Nat
    BY <2>1, Shapes, RowsFinite
  <2>3. Cardinality(OpenedBy(n)) + Cardinality(Holding(n, Opens)) <= Cardinality(Clients)
    BY DEF IInv, SessionsCounted
  <2>4. /\ Cardinality(Holding(n, Opens)) \in Nat /\ Cardinality(Holding(n, Opens)') \in Nat
        /\ v.pc \notin Opens \/ v.id # n \/ c \in Holding(n, Opens)
           => Cardinality(Holding(n, Opens)') <= Cardinality(Holding(n, Opens))
    BY <1>0, HoldingCount, Zenon
  <2>5. v.pc \notin Opens \/ v.id # n \/ c \in Holding(n, Opens)
    BY DEF WriteOk, Opens, Holding, At
  <2> QED
    BY <2>2, <2>3, <2>4, <2>5, Constants
<1>7. RolesFollowed'
  BY <1>0, <1>b DEF IInv, RolesFollowed, WriteOk, At, ActiveRole, FindBySubject
<1>8. RoleFresh'
  BY <1>b DEF IInv, RoleFresh
<1>9. PolicyFollowed'
  <2>1. challenges # << >>
    BY EmptySeq, Shapes
  <2> QED
    BY <1>b, <2>1 DEF IInv, PolicyFollowed, Lists
<1> QED
  BY <1>1, <1>2, <1>3, <1>4, <1>5, <1>6, <1>7, <1>8, <1>9 DEF IInv

\* The relay answers, a wrong code is counted, or the challenge is consumed.
LEMMA ChallengeSteps ==
    ASSUME IInv, NEW c \in Clients, SendLoginCode(c) \/ IncrementAttempts(c) \/ Consume(c)
    PROVE  IInv'
<1> PICK k, old : k = calls[c].id /\ old = challenges[calls[c].id]
  OBVIOUS
<1>1. k \in DOMAIN challenges /\ old \in Challenge
  BY Shapes DEF IInv, IdsValid, At, SendLoginCode, IncrementAttempts, Consume
<1>2. calls[c] \in Locals /\ calls \in [Clients -> Locals]
  BY Shapes
<1>3. CASE SendLoginCode(c)
  <2>1. PICK b \in BOOLEAN : challenges' = [challenges EXCEPT ![k].sent = b]
    BY <1>3 DEF SendLoginCode
  <2> PICK ch : ch = [old EXCEPT !.sent = b]
    OBVIOUS
  <2>2. ch \in Challenge /\ ch.left = old.left /\ ch.consumed = old.consumed /\ ch.attempts = old.attempts
    BY <1>1 DEF Challenge
  <2>3. challenges' = [challenges EXCEPT ![k] = ch]
    BY <1>1, <2>1
  <2>4. WriteOk(c, Idle, k, ch)
    BY <1>3, <2>2, <2>3, IdleLocals DEF WriteOk, SendLoginCode, Answer
  <2> QED
    BY <1>1, <2>2, <2>4, IdleLocals, WriteStep
<1>4. CASE IncrementAttempts(c) /\ challenges' = [challenges EXCEPT ![calls[c].id].attempts = @ + 1]
  <2> PICK a : a = old.attempts + 1
    OBVIOUS
  <2> PICK ch : ch = [old EXCEPT !.attempts = a]
    OBVIOUS
  <2>1. a \in Nat
    BY <1>1 DEF Challenge
  <2>2. ch \in Challenge /\ ch.left = old.left /\ ch.consumed = old.consumed /\ ch.attempts = a
    BY <1>1, <2>1 DEF Challenge
  <2>3. challenges' = [challenges EXCEPT ![k] = ch]
    BY <1>1, <1>4
  <2>4. WriteOk(c, Idle, k, ch)
    BY <1>4, <2>2, <2>3, IdleLocals DEF WriteOk, IncrementAttempts, Answer
  <2> QED
    BY <1>1, <2>2, <2>4, IdleLocals, WriteStep
<1>5. CASE IncrementAttempts(c) /\ UNCHANGED challenges
  BY <1>5, AnswerOnly DEF IncrementAttempts
<1>6. CASE Consume(c)
  <2> PICK ch : ch = [old EXCEPT !.consumed = TRUE]
    OBVIOUS
  <2>1. ch \in Challenge /\ ch.left = old.left /\ ch.consumed /\ ch.attempts = old.attempts
    BY <1>1 DEF Challenge
  <2>2. challenges' = [challenges EXCEPT ![k] = ch]
    BY <1>1, <1>6 DEF Consume
  <2>3. "session" \in PCs
    BY DEF PCs
  <2>4. PICK v \in Locals : /\ calls' = [calls EXCEPT ![c] = v]
                           /\ v.pc = "session" /\ v.id = calls[c].id /\ v.role = calls[c].role
                           /\ v.age = calls[c].age
    BY <1>2, <1>6, <2>3, GotoForm DEF Consume
  <2>5. WriteOk(c, v, k, ch)
    BY <1>6, <2>1, <2>2, <2>4 DEF WriteOk, Consume
  <2> QED
    BY <1>1, <2>1, <2>5, WriteStep
<1> QED
  BY <1>3, <1>4, <1>5, <1>6 DEF IncrementAttempts

----
(* Rows that are inserted. *)

\* Every table of a state of the invariant is within the bound on calls.
LEMMA TablesBounded ==
    ASSUME IInv
    PROVE  /\ Len(challenges) + Len(sessions) <= MaxCalls
           /\ At(Inserts) # {} => Len(challenges) + Len(sessions) < MaxCalls
<1>1. IsFiniteSet(At(Inserts)) /\ Cardinality(At(Inserts)) \in Nat
  BY CallsFinite
<1>2. At(Inserts) # {} => Cardinality(At(Inserts)) # 0
  BY <1>1, FS_EmptySet
<1> QED
  BY <1>1, <1>2, Shapes, Constants DEF IInv, RowsCounted

\* StartLogin creates a challenge.
LEMMA CreateChallengeStep ==
    ASSUME IInv, NEW c \in Clients, CreateChallenge(c)
    PROVE  IInv'
<1> PICK k, ch : /\ k = Len(challenges) + 1
                 /\ ch = [left |-> OTPTTL, consumed |-> FALSE, attempts |-> 0, sent |-> FALSE]
  OBVIOUS
<1> PICK v : v = [calls[c] EXCEPT !.pc = "mail", !.id = k]
  OBVIOUS
<1>s. /\ calls[c] \in Locals /\ calls \in [Clients -> Locals]
      /\ challenges \in Seq(Challenge) /\ Len(challenges) \in Nat
      /\ DOMAIN challenges = 1 .. Len(challenges)
  BY Shapes
<1>c. ch \in Challenge /\ ch.attempts = 0 /\ ~ch.consumed
  BY Constants DEF Challenge
<1>a. /\ challenges' \in Seq(Challenge) /\ Len(challenges') = k
      /\ DOMAIN challenges' = DOMAIN challenges \cup {k} /\ k \notin DOMAIN challenges
      /\ challenges'[k] = ch
      /\ \A n \in DOMAIN challenges : challenges'[n] = challenges[n]
  <2>1. challenges' = Append(challenges, ch)
    BY DEF CreateChallenge
  <2>2. /\ challenges' \in Seq(Challenge) /\ Len(challenges') = k /\ challenges'[k] = ch
        /\ \A n \in DOMAIN challenges : challenges'[n] = challenges[n]
    BY <1>s, <1>c, <2>1, AppendProperties
  <2>3. DOMAIN challenges' = 1 .. k
    BY <2>2, LenProperties
  <2> QED
    BY <1>s, <2>2, <2>3
<1>b. UNCHANGED <<windows, recent, made, admin, student, setting, edits, lastHeld, listed, sessions>>
  BY DEF CreateChallenge, limiter, directory
<1>p. c \in At(Inserts) /\ c \in At({"create"}) /\ calls[c].pc = "create"
  BY DEF CreateChallenge, At, Inserts
<1>k. k \in 0 .. MaxCalls
  BY <1>p, <1>s, TablesBounded, Shapes, Constants
<1>v. v \in Locals /\ v.pc = "mail" /\ v.id = k
  BY <1>s, <1>k DEF Locals, PCs
<1>0. calls \in [Clients -> Locals] /\ calls' = [calls EXCEPT ![c] = v]
  BY <1>s, <1>a DEF CreateChallenge
<1>n. /\ v.pc \notin {"wrong"} /\ v.pc \notin Opens /\ v.pc \notin Inserts /\ v.pc \notin {"create"}
  BY <1>v DEF Opens, Inserts
<1>1. TypeOK' /\ LimiterInv'
  <2>1. LimiterInv'
    BY <1>b, LimiterKept DEF IInv
  <2> QED
    BY <1>0, <1>a, <1>b, <1>v, <2>1 DEF IInv, TypeOK, LimiterInv
<1>2. RowsCounted'
  <2>1. /\ Cardinality(At(Inserts)) \in Nat /\ Cardinality(At(Inserts)') \in Nat
        /\ v.pc \notin Inserts /\ c \in At(Inserts)
           => Cardinality(At(Inserts)') + 1 <= Cardinality(At(Inserts))
    BY <1>0, AtCount, Zenon
  <2> QED
    BY <1>a, <1>b, <1>n, <1>p, <2>1, Shapes DEF IInv, RowsCounted
<1>3. IdsValid'
  BY <1>0, <1>a, <1>b, <1>v DEF IInv, IdsValid, At
<1>h. ASSUME NEW pcs \in {{"wrong"}, Opens}
      PROVE  Holding(k, pcs)' = {}
  <2>1. \A d \in Clients : d # c /\ calls[d].pc \in pcs => calls[d].id # k
    BY <1>a DEF IInv, IdsValid, At, Opens
  <2> QED
    BY <1>0, <1>n, <2>1 DEF Holding, At
<1>4. AttemptsCounted'
  <2> SUFFICES ASSUME NEW n \in DOMAIN challenges'
               PROVE  challenges'[n].attempts + Cardinality(Holding(n, {"wrong"})')
                      <= MaxOTPAttempts + Cardinality(Clients) - 1
    BY DEF AttemptsCounted
  <2>1. CASE n = k
    <3>1. Cardinality(Holding(n, {"wrong"})') = 0
      BY <1>h, <2>1, FS_EmptySet
    <3> QED
      BY <1>a, <1>c, <2>1, <3>1, Constants
  <2>2. CASE n # k
    <3>1. n \in DOMAIN challenges /\ challenges'[n] = challenges[n]
      BY <1>a, <2>2
    <3>2. challenges[n].attempts \in Nat
      BY <3>1, Shapes DEF Challenge
    <3>3. challenges[n].attempts + Cardinality(Holding(n, {"wrong"}))
          <= MaxOTPAttempts + Cardinality(Clients) - 1
      BY <3>1 DEF IInv, AttemptsCounted
    <3>4. /\ Cardinality(Holding(n, {"wrong"})) \in Nat /\ Cardinality(Holding(n, {"wrong"})') \in Nat
          /\ v.pc \notin {"wrong"} \/ v.id # n \/ c \in Holding(n, {"wrong"})
             => Cardinality(Holding(n, {"wrong"})') <= Cardinality(Holding(n, {"wrong"}))
      BY <1>0, HoldingCount, Zenon
    <3> QED
      BY <1>n, <3>1, <3>2, <3>3, <3>4, Constants
  <2> QED
    BY <2>1, <2>2
<1>5. LiveCounted'
  <2>1. Live' \in SUBSET (Live \cup {k})
    BY <1>a DEF Live
  <2>2. Live \in SUBSET (1 .. Len(challenges))
    BY Shapes DEF Live
  <2>3. IsFiniteSet(Live) /\ Cardinality(Live) \in Nat
    BY <2>2, Shapes, RowsFinite
  <2>4. /\ IsFiniteSet(Live \cup {k}) /\ Cardinality(Live \cup {k}) \in Nat
        /\ Cardinality(Live \cup {k}) <= Cardinality(Live) + 1
    <3>1. /\ IsFiniteSet(Live \cup {k})
          /\ Cardinality(Live \cup {k}) = IF k \in Live THEN Cardinality(Live) ELSE Cardinality(Live) + 1
      BY <2>3, FS_AddElement
    <3> QED
      BY <2>3, <3>1
  <2>5. Cardinality(Live') <= Cardinality(Live \cup {k}) /\ Cardinality(Live') \in Nat
    BY <2>1, <2>4, FS_Subset, FS_CardinalityType
  <2>6. /\ Cardinality(At({"create"})) \in Nat /\ Cardinality(At({"create"})') \in Nat
        /\ v.pc \notin {"create"} /\ c \in At({"create"})
           => Cardinality(At({"create"})') + 1 <= Cardinality(At({"create"}))
    BY <1>0, AtCount, Zenon
  <2> QED
    BY <1>n, <1>p, <2>3, <2>4, <2>5, <2>6, Constants DEF IInv, LiveCounted
<1>6. SessionsCounted'
  <2> SUFFICES ASSUME NEW n \in DOMAIN challenges'
               PROVE  Cardinality(OpenedBy(n)) + Cardinality(Holding(n, Opens)')
                      <= Cardinality(Clients)
    BY <1>b DEF SessionsCounted, OpenedBy
  <2>1. CASE n = k
    <3>1. OpenedBy(n) = {}
      BY <1>a, <2>1 DEF IInv, IdsValid, OpenedBy
    <3>2. Cardinality(Holding(n, Opens)') = 0 /\ Cardinality(OpenedBy(n)) = 0
      BY <1>h, <2>1, <3>1, FS_EmptySet
    <3> QED
      BY <3>2, Constants
  <2>2. CASE n # k
    <3>0. n \in DOMAIN challenges
      BY <1>a, <2>2
    <3>1. OpenedBy(n) \in SUBSET (1 .. Len(sessions))
      BY Shapes DEF OpenedBy
    <3>2. Cardinality(OpenedBy(n)) \in Nat
      BY <3>1, Shapes, RowsFinite
    <3>3. Cardinality(OpenedBy(n)) + Cardinality(Holding(n, Opens)) <= Cardinality(Clients)
      BY <3>0 DEF IInv, SessionsCounted
    <3>4. /\ Cardinality(Holding(n, Opens)) \in Nat /\ Cardinality(Holding(n, Opens)') \in Nat
          /\ v.pc \notin Opens \/ v.id # n \/ c \in Holding(n, Opens)
             => Cardinality(Holding(n, Opens)') <= Cardinality(Holding(n, Opens))
      BY <1>0, HoldingCount, Zenon
    <3> QED
      BY <1>n, <3>2, <3>3, <3>4, Constants
  <2> QED
    BY <2>1, <2>2
<1>7. RolesFollowed'
  BY <1>0, <1>b, <1>v DEF IInv, RolesFollowed, At, ActiveRole, FindBySubject
<1>8. RoleFresh'
  BY <1>b DEF IInv, RoleFresh
<1>9. PolicyFollowed'
  <2>1. EmailDomain \in ConfigDomains \/ listed
    BY <1>p DEF IInv, PolicyFollowed, At
  <2> QED
    BY <1>b, <2>1 DEF IInv, PolicyFollowed, Lists
<1> QED
  BY <1>1, <1>2, <1>3, <1>4, <1>5, <1>6, <1>7, <1>8, <1>9 DEF IInv

\* VerifyLogin creates a session.
LEMMA CreateSessionStep ==
    ASSUME IInv, NEW c \in Clients, CreateSession(c)
    PROVE  IInv'
<1> PICK k, n, r, a : /\ k = Len(sessions) + 1
                      /\ n = calls[c].id /\ r = calls[c].role /\ a = calls[c].age
  OBVIOUS
<1> PICK s : s = [role |-> r, left |-> SessionTTL - a, code |-> n]
  OBVIOUS
<1>s. /\ calls[c] \in Locals /\ calls \in [Clients -> Locals]
      /\ challenges \in Seq(Challenge) /\ Len(challenges) \in Nat
      /\ DOMAIN challenges = 1 .. Len(challenges)
      /\ sessions \in Seq({None} \cup Session) /\ Len(sessions) \in Nat
      /\ DOMAIN sessions = 1 .. Len(sessions)
  BY Shapes
<1>p. /\ c \in At(Inserts) /\ c \in At({"session"}) /\ c \in At({"consume", "session"})
      /\ c \in Holding(n, Opens) /\ calls[c].pc = "session"
  BY DEF CreateSession, At, Inserts, Holding, Opens
<1>l. n \in DOMAIN challenges /\ challenges[n].consumed /\ r \in Roles /\ lastHeld[r] <= a
  BY <1>p DEF IInv, IdsValid, RolesFollowed, At
<1>c. s \in Session /\ s.role = r /\ s.left = SessionTTL - a /\ s.code = n
  <2>1. n \in 1 .. MaxCalls
    BY <1>l, <1>s, TablesBounded, Constants
  <2>2. a \in 0 .. Never
    BY <1>s DEF Locals
  <2>3. SessionTTL - a \in -1 .. SessionTTL
    BY <2>2, Constants
  <2> QED
    BY <1>l, <2>1, <2>3 DEF Session
<1>a. /\ sessions' \in Seq({None} \cup Session) /\ Len(sessions') = k
      /\ DOMAIN sessions' = DOMAIN sessions \cup {k} /\ k \notin DOMAIN sessions
      /\ sessions'[k] = s
      /\ \A i \in DOMAIN sessions : sessions'[i] = sessions[i]
  <2>0. s \in {None} \cup Session
    BY <1>c
  <2>1. sessions' = Append(sessions, s)
    BY DEF CreateSession, Lifetime
  <2>2. /\ sessions' \in Seq({None} \cup Session) /\ Len(sessions') = k /\ sessions'[k] = s
        /\ \A i \in DOMAIN sessions : sessions'[i] = sessions[i]
    BY <1>s, <2>0, <2>1, AppendProperties
  <2>3. DOMAIN sessions' = 1 .. k
    BY <2>2, LenProperties
  <2> QED
    BY <1>s, <2>2, <2>3
<1>b. UNCHANGED <<windows, recent, made, admin, student, setting, edits, lastHeld, listed, challenges>>
  BY DEF CreateSession, limiter, directory
<1> PICK v : v = Idle
  OBVIOUS
<1>v. v \in Locals /\ v.pc = "idle"
  BY IdleLocals
<1>0. calls \in [Clients -> Locals] /\ calls' = [calls EXCEPT ![c] = v]
  BY <1>s DEF CreateSession, Answer
<1>n. /\ v.pc \notin {"wrong"} /\ v.pc \notin Opens /\ v.pc \notin Inserts /\ v.pc \notin {"create"}
  BY <1>v DEF Opens, Inserts
<1>1. TypeOK' /\ LimiterInv'
  <2>1. LimiterInv'
    BY <1>b, LimiterKept DEF IInv
  <2> QED
    BY <1>0, <1>a, <1>b, <1>v, <2>1 DEF IInv, TypeOK, LimiterInv
<1>2. RowsCounted'
  <2>1. /\ Cardinality(At(Inserts)) \in Nat /\ Cardinality(At(Inserts)') \in Nat
        /\ v.pc \notin Inserts /\ c \in At(Inserts)
           => Cardinality(At(Inserts)') + 1 <= Cardinality(At(Inserts))
    BY <1>0, AtCount, Zenon
  <2> QED
    BY <1>a, <1>b, <1>n, <1>p, <2>1, Shapes DEF IInv, RowsCounted
<1>3. IdsValid'
  BY <1>0, <1>a, <1>b, <1>c, <1>l, <1>v DEF IInv, IdsValid, At
<1>4. AttemptsCounted'
  <2> SUFFICES ASSUME NEW m \in DOMAIN challenges
               PROVE  challenges[m].attempts + Cardinality(Holding(m, {"wrong"})')
                      <= MaxOTPAttempts + Cardinality(Clients) - 1
    BY <1>b DEF AttemptsCounted
  <2>1. challenges[m].attempts \in Nat
    BY Shapes DEF Challenge
  <2>2. challenges[m].attempts + Cardinality(Holding(m, {"wrong"}))
        <= MaxOTPAttempts + Cardinality(Clients) - 1
    BY DEF IInv, AttemptsCounted
  <2>3. /\ Cardinality(Holding(m, {"wrong"})) \in Nat /\ Cardinality(Holding(m, {"wrong"})') \in Nat
        /\ v.pc \notin {"wrong"} \/ v.id # m \/ c \in Holding(m, {"wrong"})
           => Cardinality(Holding(m, {"wrong"})') <= Cardinality(Holding(m, {"wrong"}))
    BY <1>0, HoldingCount, Zenon
  <2> QED
    BY <1>n, <2>1, <2>2, <2>3, Constants
<1>5. LiveCounted'
  <2>1. Live' = Live
    BY <1>b DEF Live
  <2>2. Live \in SUBSET (1 .. Len(challenges))
    BY Shapes DEF Live
  <2>3. Cardinality(Live) \in Nat
    BY <2>2, Shapes, RowsFinite
  <2>4. /\ Cardinality(At({"create"})) \in Nat /\ Cardinality(At({"create"})') \in Nat
        /\ v.pc \notin {"create"} \/ c \in At({"create"})
           => Cardinality(At({"create"})') <= Cardinality(At({"create"}))
    BY <1>0, AtCount, Zenon
  <2> QED
    BY <1>n, <2>1, <2>3, <2>4, Constants DEF IInv, LiveCounted
<1>6. SessionsCounted'
  <2> SUFFICES ASSUME NEW m \in DOMAIN challenges
               PROVE  Cardinality(OpenedBy(m)') + Cardinality(Holding(m, Opens)')
                      <= Cardinality(Clients)
    BY <1>b DEF SessionsCounted
  <2> PICK S, T : S = OpenedBy(m) /\ T = OpenedBy(m)'
    OBVIOUS
  <2>1. S \in SUBSET (1 .. Len(sessions))
    BY Shapes DEF OpenedBy
  <2>2. IsFiniteSet(S) /\ Cardinality(S) \in Nat
    BY <2>1, Shapes, RowsFinite
  <2>3. Cardinality(S) + Cardinality(Holding(m, Opens)) <= Cardinality(Clients)
    BY DEF IInv, SessionsCounted
  <2>4. /\ Cardinality(Holding(m, Opens)) \in Nat /\ Cardinality(Holding(m, Opens)') \in Nat
        /\ v.pc \notin Opens \/ v.id # m \/ c \in Holding(m, Opens)
           => Cardinality(Holding(m, Opens)') <= Cardinality(Holding(m, Opens))
        /\ v.pc \notin Opens /\ c \in Holding(m, Opens)
           => Cardinality(Holding(m, Opens)') + 1 <= Cardinality(Holding(m, Opens))
    BY <1>0, HoldingCount, Zenon
  <2>5. CASE m = n
    <3>1. T \in SUBSET (S \cup {k})
      BY <1>a DEF OpenedBy
    <3>2. /\ IsFiniteSet(S \cup {k})
          /\ Cardinality(S \cup {k}) = IF k \in S THEN Cardinality(S) ELSE Cardinality(S) + 1
      BY <2>2, FS_AddElement
    <3>3. Cardinality(T) <= Cardinality(S \cup {k}) /\ Cardinality(T) \in Nat
      BY <3>1, <3>2, FS_Subset, FS_CardinalityType
    <3> QED
      BY <1>n, <1>p, <2>2, <2>3, <2>4, <2>5, <3>2, <3>3, Constants
  <2>6. CASE m # n
    <3>1. T = S
      BY <1>a, <1>c, <2>6 DEF OpenedBy
    <3> QED
      BY <1>n, <2>2, <2>3, <2>4, <3>1, Constants
  <2> QED
    BY <2>5, <2>6
<1>7. RolesFollowed'
  BY <1>0, <1>b, <1>v DEF IInv, RolesFollowed, At, ActiveRole, FindBySubject
<1>8. RoleFresh'
  <2>1. lastHeld[r] <= SessionTTL - s.left
    <3>1. a \in 0 .. Never
      BY <1>s DEF Locals
    <3>2. SessionTTL - (SessionTTL - a) = a
      BY <3>1, Constants
    <3> QED
      BY <1>c, <1>l, <3>2
  <2>2. ASSUME NEW i \in DOMAIN sessions', sessions'[i] # None, ~Expired(sessions'[i])
        PROVE  lastHeld[sessions'[i].role] <= SessionTTL - sessions'[i].left
    <3>1. CASE i = k
      BY <1>a, <1>c, <2>1, <3>1
    <3>2. CASE i # k
      BY <1>a, <2>2, <3>2 DEF IInv, RoleFresh
    <3> QED
      BY <3>1, <3>2
  <2> QED
    BY <1>b, <2>2 DEF RoleFresh, Expired
<1>9. PolicyFollowed'
  BY <1>0, <1>b, <1>v DEF IInv, PolicyFollowed, Lists, At
<1> QED
  BY <1>1, <1>2, <1>3, <1>4, <1>5, <1>6, <1>7, <1>8, <1>9 DEF IInv

----
(* Sessions that are deleted. *)

\* Logout and the cleanup only take sessions away.
LEMMA SessionsDropped ==
    ASSUME IInv, UNCHANGED <<limiter, directory, challenges, calls>>,
           DOMAIN sessions' = DOMAIN sessions, sessions' = [i \in DOMAIN sessions |-> sessions'[i]],
           \A i \in DOMAIN sessions : sessions'[i] \in {None, sessions[i]}
    PROVE  IInv'
<1>s. /\ sessions \in Seq({None} \cup Session) /\ Len(sessions) \in Nat
      /\ DOMAIN sessions = 1 .. Len(sessions)
      /\ \A i \in DOMAIN sessions : sessions[i] \in {None} \cup Session
  BY Shapes
<1>a. sessions' \in Seq({None} \cup Session) /\ Len(sessions') = Len(sessions)
  <2>1. \A i \in 1 .. Len(sessions) : sessions'[i] \in {None} \cup Session
    BY <1>s
  <2>2. sessions' \in [1 .. Len(sessions) -> {None} \cup Session]
    BY <1>s, <2>1
  <2> QED
    BY <1>s, <2>2
<1>b. UNCHANGED <<windows, recent, made, admin, student, setting, edits, lastHeld, listed, challenges, calls>>
  BY DEF limiter, directory
<1>1. TypeOK' /\ LimiterInv'
  <2>1. LimiterInv'
    BY <1>b, LimiterKept DEF IInv
  <2> QED
    BY <1>a, <1>b, <2>1 DEF IInv, TypeOK, LimiterInv
<1>2. RowsCounted'
  BY <1>a, <1>b DEF IInv, RowsCounted, At
<1>3. IdsValid'
  BY <1>b DEF IInv, IdsValid, At
<1>4. AttemptsCounted' /\ LiveCounted' /\ PolicyFollowed' /\ RolesFollowed'
  BY <1>b DEF IInv, AttemptsCounted, LiveCounted, PolicyFollowed, RolesFollowed, Holding, At, Live,
              Lists, ActiveRole, FindBySubject
<1>5. SessionsCounted'
  <2> SUFFICES ASSUME NEW n \in DOMAIN challenges
               PROVE  Cardinality(OpenedBy(n)') + Cardinality(Holding(n, Opens)) <= Cardinality(Clients)
    BY <1>b DEF SessionsCounted, Holding, At
  <2> PICK S, T : S = OpenedBy(n) /\ T = OpenedBy(n)'
    OBVIOUS
  <2>1. S \in SUBSET (1 .. Len(sessions)) /\ T \in SUBSET S
    BY <1>s DEF OpenedBy
  <2>2. IsFiniteSet(S) /\ Cardinality(S) \in Nat
    BY <1>s, <2>1, RowsFinite
  <2>3. Cardinality(T) <= Cardinality(S) /\ Cardinality(T) \in Nat
    BY <2>1, <2>2, FS_Subset, FS_CardinalityType
  <2>4. Cardinality(S) + Cardinality(Holding(n, Opens)) <= Cardinality(Clients)
    BY DEF IInv, SessionsCounted
  <2>5. Cardinality(Holding(n, Opens)) \in Nat
    BY CallsFinite
  <2> QED
    BY <2>2, <2>3, <2>4, <2>5, Constants
<1>6. RoleFresh'
  BY <1>b DEF IInv, RoleFresh, Expired
<1> QED
  BY <1>1, <1>2, <1>3, <1>4, <1>5, <1>6 DEF IInv

\* A session is deleted by its owner, or the expired ones by the cleanup.
LEMMA SessionsDeleted ==
    ASSUME IInv, DeleteExpired \/ \E n \in DOMAIN sessions : Logout(n)
    PROVE  IInv'
<1>1. sessions \in [DOMAIN sessions -> {None} \cup Session]
  BY Shapes, LenProperties
<1>2. /\ UNCHANGED <<limiter, directory, challenges, calls>>
      /\ DOMAIN sessions' = DOMAIN sessions /\ sessions' = [i \in DOMAIN sessions |-> sessions'[i]]
      /\ \A i \in DOMAIN sessions : sessions'[i] \in {None, sessions[i]}
  BY <1>1 DEF DeleteExpired, Logout
<1> QED
  BY <1>2, SessionsDropped

----
(* Edits by other administrators, and time. *)

\* What the sets of calls look at stays as it is.
LEMMA SameCalls ==
    ASSUME \A c \in Clients : calls'[c].pc = calls[c].pc /\ calls'[c].id = calls[c].id
    PROVE  \A pcs : At(pcs)' = At(pcs) /\ \A n : Holding(n, pcs)' = Holding(n, pcs)
  BY DEF At, Holding

\* An edit of the accounts.
LEMMA AccountEdit ==
    ASSUME IInv, Edit, Noted,
           admin' \in {None} \cup [role : AdminRoles, status : Statuses],
           student' \in {None} \cup Statuses,
           UNCHANGED <<limiter, setting, challenges, sessions, listed>>
    PROVE  IInv'
<1>b. UNCHANGED <<windows, recent, made, setting, challenges, sessions, listed>>
  BY DEF limiter
<1> PICK roles : roles = [type \in {"ADMIN", "STUDENT"} |-> ActiveRole(type)']
  OBVIOUS
<1>r. /\ lastHeld' = [r \in Roles |-> IF r \in Range(roles) THEN 0 ELSE lastHeld[r]]
      /\ calls' = [c \in Clients |->
                     [calls[c] EXCEPT !.dead = @ /\ roles[SubjectType(calls[c].role)] = None]]
  BY DEF Noted, FindBySubject
<1>s. calls \in [Clients -> Locals] /\ \A c \in Clients : calls[c] \in Locals
  BY Shapes
<1>c. ASSUME NEW c \in Clients
      PROVE  /\ calls'[c] \in Locals
             /\ calls'[c].pc = calls[c].pc /\ calls'[c].id = calls[c].id
             /\ calls'[c].role = calls[c].role /\ calls'[c].age = calls[c].age
             /\ calls'[c].dead => roles[SubjectType(calls[c].role)] = None
  <2> PICK d : d = (calls[c].dead /\ roles[SubjectType(calls[c].role)] = None)
    OBVIOUS
  <2>1. calls'[c] = [calls[c] EXCEPT !.dead = d]
    BY <1>r
  <2>2. d \in BOOLEAN
    BY <1>s DEF Locals
  <2> QED
    BY <1>s, <2>1, <2>2 DEF Locals
<1>a. \A pcs : At(pcs)' = At(pcs) /\ \A n : Holding(n, pcs)' = Holding(n, pcs)
  BY <1>c, SameCalls
<1>h. lastHeld \in [Roles -> 0 .. Never] /\ 0 \in 0 .. Never
  BY Constants DEF IInv, TypeOK
<1>i. ASSUME NEW r \in Roles
      PROVE  lastHeld'[r] \in 0 .. Never /\ lastHeld'[r] <= lastHeld[r]
  BY <1>h, <1>r, Constants
<1>1. TypeOK' /\ LimiterInv'
  <2>1. LimiterInv'
    BY <1>b, LimiterKept DEF IInv
  <2>2. calls' \in [Clients -> Locals]
    BY <1>c, <1>r
  <2>3. lastHeld' \in [Roles -> 0 .. Never]
    BY <1>i, <1>r
  <2>4. edits' \in 0 .. MaxEdits
    BY Constants DEF Edit, IInv, TypeOK
  <2> QED
    BY <1>b, <2>1, <2>2, <2>3, <2>4 DEF IInv, TypeOK, LimiterInv
<1>2. RowsCounted'
  <2>1. At(Inserts)' = At(Inserts)
    BY <1>a
  <2> QED
    BY <1>b, <2>1 DEF IInv, RowsCounted
<1>3. IdsValid'
  BY <1>b, <1>c DEF IInv, IdsValid, At
<1>4. AttemptsCounted'
  <2>1. \A n : Holding(n, {"wrong"})' = Holding(n, {"wrong"})
    BY <1>a
  <2> QED
    BY <1>b, <2>1 DEF IInv, AttemptsCounted
<1>5. LiveCounted'
  <2>1. At({"create"})' = At({"create"})
    BY <1>a
  <2> QED
    BY <1>b, <2>1 DEF IInv, LiveCounted, Live
<1>6. SessionsCounted'
  <2>1. \A n : Holding(n, Opens)' = Holding(n, Opens)
    BY <1>a
  <2> QED
    BY <1>b, <2>1 DEF IInv, SessionsCounted, OpenedBy
<1>7. RolesFollowed'
  <2>1. ASSUME NEW type \in {"ADMIN", "STUDENT"}, ActiveRole(type)' # None
        PROVE  lastHeld'[ActiveRole(type)'] = 0
    <3>1. ActiveRole(type)' \in Roles
      BY <2>1 DEF ActiveRole, Roles, AdminRoles
    <3>2. ActiveRole(type)' \in Range(roles)
      BY DEF Range
    <3> QED
      BY <1>r, <3>1, <3>2
  <2>2. ASSUME NEW c \in At({"consume", "session"})'
        PROVE  lastHeld'[calls'[c].role] <= calls'[c].age
    <3>0. c \in Clients
      BY DEF At
    <3>1. c \in At({"consume", "session"})
      BY <1>a
    <3>2. calls[c].role \in Roles /\ lastHeld[calls[c].role] <= calls[c].age
      BY <3>1 DEF IInv, IdsValid, RolesFollowed
    <3>3. calls[c].age \in 0 .. Never
      BY <1>s, <3>0 DEF Locals
    <3> QED
      BY <1>c, <1>h, <1>i, <3>0, <3>2, <3>3, Constants
  <2>3. ASSUME NEW c \in At({"subject"})', calls'[c].dead
        PROVE  FindBySubject(SubjectType(calls[c].role))' = None
    <3> PICK t : t = SubjectType(calls[c].role)
      OBVIOUS
    <3>1. c \in Clients /\ t \in {"ADMIN", "STUDENT"}
      BY DEF At, SubjectType
    <3>2. SubjectType(calls[c].role)' = t
      BY <1>c, <3>1 DEF SubjectType
    <3>3. ActiveRole(t)' = None
      BY <1>c, <2>3, <3>1
    <3> QED
      BY <3>2, <3>3 DEF FindBySubject, ActiveRole
  <2> QED
    BY <2>1, <2>2, <2>3 DEF RolesFollowed
<1>8. RoleFresh'
  <2> SUFFICES ASSUME NEW i \in DOMAIN sessions, sessions[i] # None, ~Expired(sessions[i])
               PROVE  lastHeld'[sessions[i].role] <= SessionTTL - sessions[i].left
    BY <1>b DEF RoleFresh, Expired
  <2>1. sessions[i].role \in Roles /\ sessions[i].left \in -1 .. SessionTTL
    BY Shapes DEF Session
  <2>2. lastHeld[sessions[i].role] <= SessionTTL - sessions[i].left
    BY DEF IInv, RoleFresh
  <2> QED
    BY <1>h, <1>i, <2>1, <2>2, Constants
<1>9. PolicyFollowed'
  <2>1. At({"find", "latest", "create"})' = At({"find", "latest", "create"})
    BY <1>a
  <2> QED
    BY <1>b, <2>1 DEF IInv, PolicyFollowed, Lists
<1> QED
  BY <1>1, <1>2, <1>3, <1>4, <1>5, <1>6, <1>7, <1>8, <1>9 DEF IInv

\* An administrator is created or changed, or a student is.
LEMMA AccountEdits ==
    ASSUME IInv,
           \/ \E role \in AdminRoles :
                 CreateAdminUser(role) \/ \E status \in Statuses : UpdateAdminUser(role, status)
           \/ \E status \in Statuses : UpdateStudent(status)
    PROVE  IInv'
<1>1. ASSUME NEW role \in AdminRoles, NEW status \in Statuses, admin' = [role |-> role, status |-> status]
      PROVE  admin' \in {None} \cup [role : AdminRoles, status : Statuses]
  BY <1>1
<1>2. ASSUME NEW role \in AdminRoles, CreateAdminUser(role)
      PROVE  IInv'
  <2>1. "ACTIVE" \in Statuses /\ student' \in {None} \cup Statuses
    BY <1>2 DEF Statuses, CreateAdminUser, IInv, TypeOK
  <2> QED
    BY <1>1, <1>2, <2>1, AccountEdit DEF CreateAdminUser
<1>3. ASSUME NEW role \in AdminRoles, NEW status \in Statuses, UpdateAdminUser(role, status)
      PROVE  IInv'
  <2>1. student' \in {None} \cup Statuses
    BY <1>3 DEF UpdateAdminUser, IInv, TypeOK
  <2> QED
    BY <1>1, <1>3, <2>1, AccountEdit DEF UpdateAdminUser
<1>4. ASSUME NEW status \in Statuses, UpdateStudent(status)
      PROVE  IInv'
  <2>1. student' \in {None} \cup Statuses /\ admin' \in {None} \cup [role : AdminRoles, status : Statuses]
    BY <1>4 DEF UpdateStudent, IInv, TypeOK
  <2> QED
    BY <1>4, <2>1, AccountEdit DEF UpdateStudent
<1> QED
  BY <1>2, <1>3, <1>4

\* The setting is changed.
LEMMA UpsertSettingStep ==
    ASSUME IInv, NEW value \in {Malformed} \cup SettingDomains, UpsertSetting(value)
    PROVE  IInv'
<1>b. UNCHANGED <<windows, recent, made, admin, student, challenges, sessions, calls, lastHeld>>
  BY DEF UpsertSetting, limiter
<1>1. TypeOK' /\ LimiterInv'
  <2>1. LimiterInv'
    BY <1>b, LimiterKept DEF IInv
  <2>2. edits' \in 0 .. MaxEdits
    BY Constants DEF UpsertSetting, Edit, IInv, TypeOK
  <2> QED
    BY <1>b, <2>1, <2>2 DEF UpsertSetting, IInv, TypeOK, LimiterInv
<1>2. RowsCounted' /\ IdsValid' /\ AttemptsCounted' /\ LiveCounted' /\ SessionsCounted' /\ RoleFresh'
  BY <1>b DEF IInv, RowsCounted, IdsValid, AttemptsCounted, LiveCounted, SessionsCounted, RoleFresh,
              At, Holding, Live, OpenedBy
<1>3. RolesFollowed'
  BY <1>b DEF IInv, RolesFollowed, At, ActiveRole, FindBySubject
<1>4. PolicyFollowed'
  BY <1>b DEF IInv, PolicyFollowed, UpsertSetting, At, Lists
<1> QED
  BY <1>1, <1>2, <1>3, <1>4 DEF IInv

\* What a unit of time does to a challenge, a session and a call.
LEMMA TickedRows ==
    ASSUME IInv, Tick
    PROVE  /\ challenges' \in Seq(Challenge) /\ Len(challenges') = Len(challenges)
           /\ DOMAIN challenges' = DOMAIN challenges
           /\ \A n \in DOMAIN challenges :
                 /\ challenges'[n].consumed = challenges[n].consumed
                 /\ challenges'[n].attempts = challenges[n].attempts
                 /\ challenges'[n].left > 0 => challenges[n].left > 0
           /\ sessions' \in Seq({None} \cup Session) /\ Len(sessions') = Len(sessions)
           /\ DOMAIN sessions' = DOMAIN sessions
           /\ \A i \in DOMAIN sessions :
                 \/ sessions[i] = None /\ sessions'[i] = None
                 \/ /\ sessions[i] # None
                    /\ sessions'[i] \in Session
                    /\ sessions'[i].role = sessions[i].role /\ sessions'[i].code = sessions[i].code
                    /\ ~Expired(sessions'[i])
                       => ~Expired(sessions[i]) /\ sessions'[i].left = sessions[i].left - 1
<1>s. /\ challenges \in Seq(Challenge) /\ Len(challenges) \in Nat
      /\ DOMAIN challenges = 1 .. Len(challenges)
      /\ \A n \in DOMAIN challenges : challenges[n] \in Challenge
      /\ sessions \in Seq({None} \cup Session) /\ Len(sessions) \in Nat
      /\ DOMAIN sessions = 1 .. Len(sessions)
      /\ \A i \in DOMAIN sessions : sessions[i] # None => sessions[i] \in Session
  BY Shapes
<1>1. ASSUME NEW n \in DOMAIN challenges
      PROVE  /\ challenges'[n] \in Challenge
             /\ challenges'[n].consumed = challenges[n].consumed
             /\ challenges'[n].attempts = challenges[n].attempts
             /\ challenges'[n].left > 0 => challenges[n].left > 0
  <2> PICK l : l = IF challenges[n].left = 0 THEN 0 ELSE challenges[n].left - 1
    OBVIOUS
  <2>1. challenges'[n] = [challenges[n] EXCEPT !.left = l]
    BY DEF Tick
  <2>2. challenges[n].left \in 0 .. OTPTTL
    BY <1>s DEF Challenge
  <2>3. l \in 0 .. OTPTTL /\ (l > 0 => challenges[n].left > 0)
    BY <2>2, Constants
  <2> QED
    BY <1>s, <2>1, <2>3 DEF Challenge
<1>2. challenges' \in Seq(Challenge) /\ Len(challenges') = Len(challenges)
      /\ DOMAIN challenges' = DOMAIN challenges
  <2>1. challenges' \in [1 .. Len(challenges) -> Challenge]
    BY <1>1, <1>s DEF Tick
  <2> QED
    BY <1>s, <2>1
<1>3. ASSUME NEW i \in DOMAIN sessions, sessions[i] # None
      PROVE  /\ sessions'[i] \in Session
             /\ sessions'[i].role = sessions[i].role /\ sessions'[i].code = sessions[i].code
             /\ ~Expired(sessions'[i])
                => ~Expired(sessions[i]) /\ sessions'[i].left = sessions[i].left - 1
  <2> PICK l : l = IF sessions[i].left < 0 THEN sessions[i].left ELSE sessions[i].left - 1
    OBVIOUS
  <2>1. sessions'[i] = [sessions[i] EXCEPT !.left = l]
    BY <1>3 DEF Tick
  <2>2. sessions[i] \in Session /\ sessions[i].left \in -1 .. SessionTTL
    BY <1>3, <1>s DEF Session
  <2>3. l \in -1 .. SessionTTL /\ (~(l < 0) => ~(sessions[i].left < 0) /\ l = sessions[i].left - 1)
    BY <2>2, Constants
  <2>4. /\ sessions'[i] \in Session /\ sessions'[i].left = l
        /\ sessions'[i].role = sessions[i].role /\ sessions'[i].code = sessions[i].code
    BY <2>1, <2>2, <2>3 DEF Session
  <2> QED
    BY <2>3, <2>4 DEF Expired
<1>4. \A i \in DOMAIN sessions : sessions[i] = None => sessions'[i] = None
  BY DEF Tick
<1>5. sessions' \in Seq({None} \cup Session) /\ Len(sessions') = Len(sessions)
      /\ DOMAIN sessions' = DOMAIN sessions
  <2>1. \A i \in 1 .. Len(sessions) : sessions'[i] \in {None} \cup Session
    BY <1>3, <1>4, <1>s
  <2>2. sessions' = [i \in 1 .. Len(sessions) |-> sessions'[i]]
    BY <1>s DEF Tick
  <2>3. sessions' \in [1 .. Len(sessions) -> {None} \cup Session]
    BY <2>1, <2>2
  <2> QED
    BY <1>s, <2>3
<1> QED
  BY <1>1, <1>2, <1>3, <1>4, <1>5

\* A unit of time preserves the invariant: a row, a clock and a history age together.
LEMMA TickStep ==
    ASSUME IInv, Tick
    PROVE  IInv'
<1>b. UNCHANGED <<admin, student, setting, made, edits, listed>>
  BY DEF Tick
<1>s. calls \in [Clients -> Locals] /\ \A c \in Clients : calls[c] \in Locals
  BY Shapes
<1>c. ASSUME NEW c \in Clients
      PROVE  /\ calls'[c] \in Locals
             /\ calls'[c].pc = calls[c].pc /\ calls'[c].id = calls[c].id
             /\ calls'[c].role = calls[c].role /\ calls'[c].dead = calls[c].dead
             /\ calls[c].age \in 0 .. Never
             /\ calls[c].pc \in {"consume", "session"}
                => calls'[c].age = IF calls[c].age = Never THEN Never ELSE calls[c].age + 1
  <2> PICK a : a = IF calls[c].age = Never THEN calls[c].age ELSE calls[c].age + 1
    OBVIOUS
  <2>1. calls[c] \in Locals /\ calls[c].age \in 0 .. Never
    BY <1>s DEF Locals
  <2>2. a \in 0 .. Never
    BY <2>1, Constants
  <2>3. CASE calls[c].pc \in {"user", "consume", "session"}
    <3>1. calls'[c] = [calls[c] EXCEPT !.age = a]
      BY <2>3 DEF Tick
    <3> QED
      BY <2>1, <2>2, <3>1 DEF Locals
  <2>4. CASE calls[c].pc \notin {"user", "consume", "session"}
    <3>1. calls'[c] = calls[c]
      BY <2>4 DEF Tick
    <3> QED
      BY <2>1, <2>4, <3>1
  <2> QED
    BY <2>3, <2>4
<1>a. \A pcs : At(pcs)' = At(pcs) /\ \A n : Holding(n, pcs)' = Holding(n, pcs)
  BY <1>c, SameCalls
<1>h. ASSUME NEW r \in Roles
      PROVE  /\ lastHeld[r] \in 0 .. Never /\ lastHeld'[r] \in 0 .. Never
             /\ lastHeld'[r] <= lastHeld[r] + 1
             /\ r \in {ActiveRole("ADMIN"), ActiveRole("STUDENT")} => lastHeld'[r] = 0
  <2>1. lastHeld[r] \in 0 .. Never
    BY DEF IInv, TypeOK
  <2>2. lastHeld'[r] = IF r \in {ActiveRole("ADMIN"), ActiveRole("STUDENT")} THEN 0
                       ELSE IF lastHeld[r] = Never THEN Never ELSE lastHeld[r] + 1
    BY DEF Tick
  <2> QED
    BY <2>1, <2>2, Constants
<1>1. TypeOK' /\ LimiterInv'
  <2>1. LimiterInv'
    BY LimiterTickInv DEF IInv, Tick
  <2>2. calls' \in [Clients -> Locals]
    BY <1>c DEF Tick
  <2>3. lastHeld' \in [Roles -> 0 .. Never]
    BY <1>h DEF Tick
  <2> QED
    BY <1>b, <2>1, <2>2, <2>3, TickedRows DEF IInv, TypeOK, LimiterInv
<1>2. RowsCounted'
  <2>1. At(Inserts)' = At(Inserts)
    BY <1>a
  <2> QED
    BY <1>b, <2>1, TickedRows DEF IInv, RowsCounted
<1>3. IdsValid'
  BY <1>c, TickedRows DEF IInv, IdsValid, At
<1>4. AttemptsCounted'
  <2>1. \A n : Holding(n, {"wrong"})' = Holding(n, {"wrong"})
    BY <1>a
  <2> QED
    BY <2>1, TickedRows DEF IInv, AttemptsCounted
<1>5. LiveCounted'
  <2>1. At({"create"})' = At({"create"})
    BY <1>a
  <2>2. Live' \in SUBSET Live /\ Live \in SUBSET (1 .. Len(challenges))
    BY TickedRows, Shapes DEF Live, Active
  <2>3. IsFiniteSet(Live) /\ Cardinality(Live) \in Nat
    BY <2>2, Shapes, RowsFinite
  <2>4. Cardinality(Live') <= Cardinality(Live) /\ Cardinality(Live') \in Nat
    BY <2>2, <2>3, FS_Subset, FS_CardinalityType
  <2>5. Cardinality(At({"create"})) \in Nat
    BY CallsFinite
  <2> QED
    BY <2>1, <2>3, <2>4, <2>5, Constants DEF IInv, LiveCounted
<1>6. SessionsCounted'
  <2> SUFFICES ASSUME NEW n \in DOMAIN challenges
               PROVE  Cardinality(OpenedBy(n)') + Cardinality(Holding(n, Opens)') <= Cardinality(Clients)
    BY TickedRows DEF SessionsCounted
  <2> PICK S, T : S = OpenedBy(n) /\ T = OpenedBy(n)'
    OBVIOUS
  <2>1. S \in SUBSET (1 .. Len(sessions)) /\ T \in SUBSET S
    BY TickedRows, Shapes DEF OpenedBy
  <2>2. IsFiniteSet(S) /\ Cardinality(S) \in Nat
    BY <2>1, Shapes, RowsFinite
  <2>3. Cardinality(T) <= Cardinality(S) /\ Cardinality(T) \in Nat
    BY <2>1, <2>2, FS_Subset, FS_CardinalityType
  <2>4. Cardinality(S) + Cardinality(Holding(n, Opens)) <= Cardinality(Clients)
    BY DEF IInv, SessionsCounted
  <2>5. Cardinality(Holding(n, Opens)) \in Nat /\ Holding(n, Opens)' = Holding(n, Opens)
    BY <1>a, CallsFinite
  <2> QED
    BY <2>2, <2>3, <2>4, <2>5, Constants
<1>7. RolesFollowed'
  <2>1. \A type : ActiveRole(type)' = ActiveRole(type)
    BY <1>b DEF ActiveRole
  <2>2. ASSUME NEW type \in {"ADMIN", "STUDENT"}, ActiveRole(type) # None
        PROVE  lastHeld'[ActiveRole(type)] = 0
    <3>1. ActiveRole(type) \in Roles
      BY <2>2, ActiveRoleType DEF IInv, TypeOK
    <3> QED
      BY <1>h, <3>1
  <2>3. ASSUME NEW c \in At({"consume", "session"})
        PROVE  lastHeld'[calls'[c].role] <= calls'[c].age
    <3>1. c \in Clients /\ calls[c].pc \in {"consume", "session"}
      BY DEF At
    <3>2. calls[c].role \in Roles /\ lastHeld[calls[c].role] <= calls[c].age
      BY DEF IInv, IdsValid, RolesFollowed
    <3> QED
      BY <1>c, <1>h, <3>1, <3>2, Constants
  <2>4. ASSUME NEW c \in At({"subject"}), calls'[c].dead
        PROVE  FindBySubject(SubjectType(calls[c].role))' = None
    <3> PICK t : t = SubjectType(calls[c].role)
      OBVIOUS
    <3>1. c \in Clients
      BY DEF At
    <3>2. SubjectType(calls[c].role)' = t
      BY <1>c, <3>1 DEF SubjectType
    <3>3. ActiveRole(t) = None
      BY <1>c, <2>4, <3>1 DEF IInv, RolesFollowed, FindBySubject
    <3> QED
      BY <1>b, <3>2, <3>3 DEF FindBySubject, ActiveRole
  <2>5. At({"consume", "session"})' = At({"consume", "session"}) /\ At({"subject"})' = At({"subject"})
    BY <1>a
  <2> QED
    BY <2>1, <2>2, <2>3, <2>4, <2>5 DEF RolesFollowed
<1>8. RoleFresh'
  <2> SUFFICES ASSUME NEW i \in DOMAIN sessions, sessions'[i] # None, ~Expired(sessions'[i])
               PROVE  lastHeld'[sessions'[i].role] <= SessionTTL - sessions'[i].left
    BY TickedRows DEF RoleFresh, Expired
  <2>1. /\ sessions[i] # None /\ ~Expired(sessions[i])
        /\ sessions'[i].role = sessions[i].role /\ sessions'[i].left = sessions[i].left - 1
    BY TickedRows
  <2>2. sessions[i].role \in Roles /\ sessions[i].left \in -1 .. SessionTTL
    BY <2>1, Shapes DEF Session
  <2>3. lastHeld[sessions[i].role] <= SessionTTL - sessions[i].left
    BY <2>1 DEF IInv, RoleFresh
  <2> QED
    BY <1>h, <2>1, <2>2, <2>3, Constants
<1>9. PolicyFollowed'
  <2>1. At({"find", "latest", "create"})' = At({"find", "latest", "create"})
    BY <1>a
  <2>2. challenges' # << >> => challenges # << >>
    BY TickedRows, Shapes, EmptySeq
  <2> QED
    BY <1>b, <2>1, <2>2 DEF IInv, PolicyFollowed, Lists
<1> QED
  BY <1>1, <1>2, <1>3, <1>4, <1>5, <1>6, <1>7, <1>8, <1>9 DEF IInv

----
(* The invariant, and what it implies. *)

\* Nobody is signed in to begin with.
LEMMA InitIInv ==
    ASSUME Init
    PROVE  IInv
<1>0. /\ challenges = << >> /\ sessions = << >> /\ Len(challenges) = 0 /\ Len(sessions) = 0
      /\ challenges \in Seq(Challenge) /\ sessions \in Seq({None} \cup Session)
      /\ DOMAIN challenges = {} /\ DOMAIN sessions = {}
  BY EmptySeq DEF Init
<1>1. \A c \in Clients : calls[c] = Idle
  BY DEF Init
<1>2. ASSUME NEW pcs, "idle" \notin pcs
      PROVE  At(pcs) = {}
  BY <1>1, <1>2, IdleLocals DEF At
<1>3. At(Inserts) = {} /\ At({"create"}) = {}
  <2>1. "idle" \notin Inserts /\ "idle" \notin {"create"}
    BY DEF Inserts
  <2> QED
    BY <1>2, <2>1
<1>4. TypeOK /\ LimiterInv
  <2>1. LimiterInv
    BY LimiterInitInv DEF Init
  <2>2. admin \in {None} \cup [role : AdminRoles, status : Statuses] /\ student \in {None} \cup Statuses
    BY IdentityAssumption DEF Init
  <2>3. calls \in [Clients -> Locals]
    BY IdleLocals DEF Init
  <2>4. lastHeld \in [Roles -> 0 .. Never]
    <3>1. 0 \in 0 .. Never /\ Never \in 0 .. Never
      BY Constants
    <3> QED
      BY <3>1 DEF Init
  <2>5. setting \in {None, Malformed} \cup SettingDomains /\ listed \in BOOLEAN
    BY DEF Init, Lists
  <2>6. made \in 0 .. MaxCalls /\ edits \in 0 .. MaxEdits
    BY Constants DEF Init
  <2> QED
    BY <1>0, <2>1, <2>2, <2>3, <2>4, <2>5, <2>6 DEF TypeOK, LimiterInv
<1>5. RowsCounted
  <2>1. Cardinality(At(Inserts)) = 0
    BY <1>3, FS_EmptySet
  <2> QED
    BY <1>0, <2>1 DEF Init, RowsCounted
<1>6. IdsValid /\ AttemptsCounted /\ SessionsCounted /\ RoleFresh
  <2>1. \A c \in Clients : calls[c].pc = "idle"
    BY <1>1, IdleLocals
  <2> QED
    BY <1>0, <2>1 DEF IdsValid, AttemptsCounted, SessionsCounted, RoleFresh, At
<1>7. LiveCounted
  <2>1. Live = {}
    BY <1>0 DEF Live
  <2>2. Cardinality(Live) = 0 /\ Cardinality(At({"create"})) = 0
    BY <1>3, <2>1, FS_EmptySet
  <2> QED
    BY <2>2, Constants DEF LiveCounted
<1>8. RolesFollowed
  <2>1. \A c \in Clients : calls[c].pc = "idle"
    BY <1>1, IdleLocals
  <2>2. ASSUME NEW type \in {"ADMIN", "STUDENT"}, ActiveRole(type) # None
        PROVE  lastHeld[ActiveRole(type)] = 0
    <3>1. ActiveRole(type) \in Roles
      BY <1>4, <2>2, ActiveRoleType DEF TypeOK
    <3> QED
      BY <3>1 DEF Init
  <2> QED
    BY <2>1, <2>2 DEF RolesFollowed, At
<1>9. PolicyFollowed
  <2>1. \A c \in Clients : calls[c].pc = "idle"
    BY <1>1, IdleLocals
  <2> QED
    BY <1>0, <2>1 DEF Init, PolicyFollowed, At
<1> QED
  BY <1>4, <1>5, <1>6, <1>7, <1>8, <1>9 DEF IInv

\* Every step preserves the invariant.
LEMMA NextIInv ==
    ASSUME IInv, [Next]_vars
    PROVE  IInv'
<1>1. ASSUME NEW c \in Clients, PostStart(c) \/ PostVerify(c)
      PROVE  IInv'
  BY <1>1, ArriveStep DEF PostStart, PostVerify
<1>2. ASSUME NEW c \in Clients, CheckDomain(c) \/ FindAccount(c) \/ ReuseChallenge(c)
      PROVE  IInv'
  BY <1>2, StartReads
<1>3. ASSUME NEW c \in Clients, CreateChallenge(c)
      PROVE  IInv'
  BY <1>3, CreateChallengeStep
<1>4. ASSUME NEW c \in Clients, SendLoginCode(c) \/ IncrementAttempts(c) \/ Consume(c)
      PROVE  IInv'
  BY <1>4, ChallengeSteps
<1>5. ASSUME NEW c \in Clients, CheckCode(c)
      PROVE  IInv'
  BY <1>5, CheckCodeStep
<1>6. ASSUME NEW c \in Clients, FindUser(c)
      PROVE  IInv'
  BY <1>6, FindUserStep
<1>7. ASSUME NEW c \in Clients, CreateSession(c)
      PROVE  IInv'
  BY <1>7, CreateSessionStep
<1>8. ASSUME NEW c \in Clients, NEW n \in DOMAIN sessions, GetSession(c, n)
      PROVE  IInv'
  BY <1>8, GetSessionStep
<1>9. ASSUME NEW c \in Clients, CheckSubject(c) \/ Served(c)
      PROVE  IInv'
  BY <1>9, GuardStep
<1>10. ASSUME DeleteExpired \/ \E n \in DOMAIN sessions : Logout(n)
       PROVE  IInv'
  BY <1>10, SessionsDeleted
<1>11. ASSUME \/ \E role \in AdminRoles :
                    CreateAdminUser(role) \/ \E status \in Statuses : UpdateAdminUser(role, status)
              \/ \E status \in Statuses : UpdateStudent(status)
       PROVE  IInv'
  BY <1>11, AccountEdits
<1>12. ASSUME NEW value \in {Malformed} \cup SettingDomains, UpsertSetting(value)
       PROVE  IInv'
  BY <1>12, UpsertSettingStep
<1>13. CASE Tick
  BY <1>13, TickStep
<1>14. CASE UNCHANGED vars
  BY <1>14 DEF vars, IInv, TypeOK, LimiterInv, LimiterTypeOK, RowsCounted, IdsValid, AttemptsCounted, LiveCounted,
               SessionsCounted, RolesFollowed, RoleFresh, PolicyFollowed, At, Holding, OpenedBy, Live,
               Lists, FindBySubject, ActiveRole
<1> QED
  BY <1>1, <1>2, <1>3, <1>4, <1>5, <1>6, <1>7, <1>8, <1>9, <1>10, <1>11, <1>12, <1>13, <1>14 DEF Next

\* The invariant of signing in holds, for any number of clients, calls and edits.
THEOREM IdentityInvariant == Spec => []IInv
<1>1. Init => IInv
  BY InitIInv
<1>2. IInv /\ [Next]_vars => IInv'
  BY NextIInv
<1> QED
  BY <1>1, <1>2, PTL DEF Spec

\* Every row of the identity tables and every local of a call keeps its type.
THEOREM TypeCorrect == Spec => []TypeOK
<1>1. IInv => TypeOK
  BY DEF IInv
<1> QED
  BY <1>1, IdentityInvariant, PTL

\* Wrong codes exceed the limit by less than the number of calls that can be under way:
\* VerifyLogin's check and its increment are separate statements, and no more is lost by it.
THEOREM AttemptsBoundedHolds == Spec => []AttemptsBounded
<1>1. IInv => AttemptsBounded
  <2> SUFFICES ASSUME IInv, NEW n \in DOMAIN challenges
               PROVE  challenges[n].attempts <= MaxOTPAttempts + Cardinality(Clients) - 1
    BY DEF AttemptsBounded
  <2>1. challenges[n].attempts \in Nat
    BY Shapes DEF Challenge
  <2>2. Cardinality(Holding(n, {"wrong"})) \in Nat
    BY CallsFinite
  <2>3. challenges[n].attempts + Cardinality(Holding(n, {"wrong"}))
        <= MaxOTPAttempts + Cardinality(Clients) - 1
    BY DEF IInv, AttemptsCounted
  <2> QED
    BY <2>1, <2>2, <2>3, Constants
<1> QED
  BY <1>1, IdentityInvariant, PTL

\* The live challenges of an address never outnumber the calls that can be under way,
\* although StartLogin looks for one and creates one in separate statements.
THEOREM LiveChallengesBoundedHolds == Spec => []LiveChallengesBounded
<1>1. IInv => LiveChallengesBounded
  <2> SUFFICES ASSUME IInv
               PROVE  Cardinality(Live) <= Cardinality(Clients)
    BY DEF LiveChallengesBounded
  <2>1. Live \in SUBSET (1 .. Len(challenges))
    BY Shapes DEF Live
  <2>2. Cardinality(Live) \in Nat
    BY <2>1, Shapes, RowsFinite
  <2>3. Cardinality(At({"create"})) \in Nat
    BY CallsFinite
  <2> QED
    BY <2>2, <2>3, Constants DEF IInv, LiveCounted
<1> QED
  BY <1>1, IdentityInvariant, PTL

\* One code opens no more sessions than there can be calls between VerifyLogin's look at
\* the challenge and its Consume.
THEOREM SessionsPerCodeHolds == Spec => []SessionsPerCode
<1>1. IInv => SessionsPerCode
  <2> SUFFICES ASSUME IInv, NEW n \in DOMAIN challenges
               PROVE  Cardinality(OpenedBy(n)) <= Cardinality(Clients)
    BY DEF SessionsPerCode
  <2>1. OpenedBy(n) \in SUBSET (1 .. Len(sessions))
    BY Shapes DEF OpenedBy
  <2>2. Cardinality(OpenedBy(n)) \in Nat
    BY <2>1, Shapes, RowsFinite
  <2>3. Cardinality(Holding(n, Opens)) \in Nat
    BY CallsFinite
  <2>4. Cardinality(OpenedBy(n)) + Cardinality(Holding(n, Opens)) <= Cardinality(Clients)
    BY DEF IInv, SessionsCounted
  <2> QED
    BY <2>2, <2>3, <2>4, Constants
<1> QED
  BY <1>1, IdentityInvariant, PTL

\* The role of a session that Authenticate still accepts was held by an ACTIVE account of
\* the address within the lifetime of the session so far.
THEOREM RoleFreshHolds == Spec => []RoleFresh
<1>1. IInv => RoleFresh
  BY DEF IInv
<1> QED
  BY <1>1, IdentityInvariant, PTL

\* Two windows of the limiter back to back are the most that one address is let through
\* within a period, whatever the limit, the period and the pace of its requests.
THEOREM BurstBoundedHolds == Spec => []BurstBounded
<1>1. IInv => BurstBounded
  BY LimiterBound DEF IInv
<1> QED
  BY <1>1, IdentityInvariant, PTL

\* A challenge is created only for a domain that the configuration or the setting lists.
THEOREM DomainPolicyHolds == Spec => []DomainPolicyFailsSafe
<1>1. IInv => DomainPolicyFailsSafe
  BY DEF IInv, PolicyFollowed, DomainPolicyFailsSafe
<1> QED
  BY <1>1, IdentityInvariant, PTL

\* Only CheckSubject serves a call, and it reads the account again: a call whose account
\* has been inactive since before it began is not served.
THEOREM InactiveNotServedHolds == Spec => InactiveNotServed
<1>1. ASSUME IInv, Next, NEW c \in Clients, calls[c].pc = "subject", calls'[c].pc = "served"
      PROVE  ~calls[c].dead
  <2>s. calls \in [Clients -> Locals] /\ \A d \in Clients : calls[d] \in Locals
    BY <1>1, Shapes
  <2>1. ASSUME NEW d \in Clients, d # c,
               \/ PostStart(d) \/ PostVerify(d) \/ CheckDomain(d) \/ FindAccount(d) \/ ReuseChallenge(d)
               \/ CreateChallenge(d) \/ SendLoginCode(d) \/ CheckCode(d) \/ IncrementAttempts(d)
               \/ FindUser(d) \/ Consume(d) \/ CreateSession(d) \/ CheckSubject(d) \/ Served(d)
               \/ \E n \in DOMAIN sessions : GetSession(d, n)
        PROVE  calls'[c] = calls[c]
    BY <2>1, <2>s DEF PostStart, PostVerify, Arrive, CheckDomain, FindAccount, ReuseChallenge,
         CreateChallenge, SendLoginCode, CheckCode, IncrementAttempts, FindUser, Consume, CreateSession,
         CheckSubject, Served, GetSession, Goto, Answer
  <2>2. ASSUME \/ PostStart(c) \/ PostVerify(c) \/ CheckDomain(c) \/ FindAccount(c) \/ ReuseChallenge(c)
               \/ CreateChallenge(c) \/ SendLoginCode(c) \/ CheckCode(c) \/ IncrementAttempts(c)
               \/ FindUser(c) \/ Consume(c) \/ CreateSession(c) \/ Served(c)
               \/ \E n \in DOMAIN sessions : GetSession(c, n)
        PROVE  FALSE
    BY <1>1, <2>2 DEF PostStart, PostVerify, Arrive, Call, CheckDomain, FindAccount, ReuseChallenge,
         CreateChallenge, SendLoginCode, CheckCode, IncrementAttempts, FindUser, Consume, CreateSession,
         Served, GetSession
  <2>3. ASSUME \/ DeleteExpired \/ \E n \in DOMAIN sessions : Logout(n)
               \/ \E value \in {Malformed} \cup SettingDomains : UpsertSetting(value)
        PROVE  calls'[c] = calls[c]
    BY <2>3 DEF DeleteExpired, Logout, UpsertSetting
  <2>4. ASSUME Tick \/ Noted
        PROVE  calls'[c].pc = calls[c].pc
    <3>0. calls[c] \in Locals
      BY <2>s
    <3>1. CASE Tick
      <4> PICK a : a = IF calls[c].age = Never THEN calls[c].age ELSE calls[c].age + 1
        OBVIOUS
      <4>1. calls'[c] = [calls[c] EXCEPT !.age = a] \/ calls'[c] = calls[c]
        BY <3>1 DEF Tick
      <4> QED
        BY <3>0, <4>1 DEF Locals
    <3>2. CASE Noted
      <4>1. \E e : calls'[c] = [calls[c] EXCEPT !.dead = e]
        BY <3>2 DEF Noted
      <4> QED
        BY <3>0, <4>1 DEF Locals
    <3> QED
      BY <2>4, <3>1, <3>2
  <2>5. (\E role \in AdminRoles : CreateAdminUser(role) \/ \E status \in Statuses : UpdateAdminUser(role, status))
        \/ (\E status \in Statuses : UpdateStudent(status)) => Noted
    BY DEF CreateAdminUser, UpdateAdminUser, UpdateStudent
  <2>6. CheckSubject(c)
    BY <1>1, <2>1, <2>2, <2>3, <2>4, <2>5 DEF Next
  <2>7. FindBySubject(SubjectType(calls[c].role)) # None
    <3>1. ~Answer(c)
      BY <1>1, <2>s, IdleLocals DEF Answer
    <3> QED
      BY <2>6, <3>1 DEF CheckSubject
  <2> QED
    BY <1>1, <2>7 DEF IInv, RolesFollowed, At
<1>2. IInv /\ [Next]_vars => [\A c \in Clients : calls[c].pc = "subject" /\ calls'[c].pc = "served"
                                               => ~calls[c].dead]_vars
  BY <1>1
<1> QED
  BY <1>2, IdentityInvariant, PTL DEF Spec, InactiveNotServed

====
