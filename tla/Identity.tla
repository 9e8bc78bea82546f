---- MODULE Identity ----
(***************************************************************************)
(* Signing in and being recognised (internal/identity, platform/authn):    *)
(* one-time codes, sessions and the guards in front of the routes, for the *)
(* accounts behind one institutional address.  Every client call runs one  *)
(* statement at a time; the edits of other administrators (adminuser,      *)
(* student and settings transactions) fall between any two of them.        *)
(*                                                                         *)
(* Expiry times are kept as the time that is left.                         *)
(***************************************************************************)
EXTENDS RateLimiter, Sequences, Functions

CONSTANTS
    Clients,          \* concurrent HTTP calls about this address
    None, Malformed,  \* no row or value; a stored value that is no JSON string array
    EmailDomain,      \* the domain of the address
    ConfigDomains,    \* Config.AllowedDomains, from ALLOWED_EMAIL_DOMAINS
    SettingDomains,   \* the lists an administrator may store as allowed_email_domains
    InitialAccounts,  \* the rows of the address to begin with
    MaxOTPAttempts,   \* 5
    OTPTTL,           \* Config.OTPTTL
    SessionTTL,       \* Config.SessionTTL
    MaxCalls, MaxEdits   \* bounds: client calls and administrators' edits in one behaviour

AdminRoles == {"ADMIN", "SUPER_ADMIN"}
Roles      == AdminRoles \cup {"STUDENT"}
Statuses   == {"ACTIVE", "INACTIVE"}

ASSUME IdentityAssumption ==
    /\ {MaxOTPAttempts, OTPTTL, SessionTTL} \subseteq Nat \ {0}
    /\ {MaxCalls, MaxEdits} \subseteq Nat
    /\ ConfigDomains # {}
    /\ IsFiniteSet(Clients)
    /\ \A a \in InitialAccounts : /\ a.admin \in {None} \cup [role : AdminRoles, status : Statuses]
                                  /\ a.student \in {None} \cup Statuses

VARIABLES
    admin,        \* the admin_users row of the address: role and status, or None
    student,      \* the status of its students row, or None
    setting,      \* allowed_email_domains: a list, Malformed, or None
    challenges,   \* login_challenges of the address, by created_at
    sessions,     \* sessions by creation; a deleted one is None
    calls,        \* the locals of each call
    made,         \* calls made so far
    edits,        \* edits of other administrators so far
    lastHeld,     \* history: time since an ACTIVE account of the address had each role
    listed        \* history: the setting has included EmailDomain

vars == <<windows, recent, admin, student, setting, challenges, sessions, calls, made,
          edits, lastHeld, listed>>

\* lastHeld counts as far as it matters.
Never == SessionTTL + 1

Idle == [pc |-> "idle", id |-> 0, role |-> None, age |-> 0, dead |-> FALSE]

Challenge == [left : 0 .. OTPTTL, consumed : BOOLEAN, attempts : Nat, sent : BOOLEAN]
Session   == [role : Roles, left : -1 .. SessionTTL, code : 1 .. MaxCalls]
PCs       == {"idle", "start", "find", "latest", "create", "mail", "verify", "wrong", "user",
              "consume", "session", "subject", "served"}
Locals    == [pc : PCs, id : 0 .. MaxCalls, role : Roles \cup {None}, age : 0 .. Never, dead : BOOLEAN]

\* Every row and every local of a call has its type.
TypeOK ==
    /\ LimiterTypeOK
    /\ admin \in {None} \cup [role : AdminRoles, status : Statuses]
    /\ student \in {None} \cup Statuses
    /\ setting \in {None, Malformed} \cup SettingDomains
    /\ challenges \in Seq(Challenge)
    /\ sessions \in Seq({None} \cup Session)
    /\ calls \in [Clients -> Locals]
    /\ made \in 0 .. MaxCalls /\ edits \in 0 .. MaxEdits
    /\ lastHeld \in [Roles -> 0 .. Never] /\ listed \in BOOLEAN

----
(* The directory and the domain policy. *)

\* scanAdmin and scanStudent on the ACTIVE rows of a subject type.
ActiveRole(type) ==
    CASE type = "ADMIN" /\ admin # None -> IF admin.status = "ACTIVE" THEN admin.role ELSE None
      [] type = "STUDENT" /\ student = "ACTIVE" -> "STUDENT"
      [] OTHER -> None

\* An admin record is preferred when the address is in both tables.
FindByEmail == IF ActiveRole("ADMIN") # None THEN ActiveRole("ADMIN") ELSE ActiveRole("STUDENT")

SubjectType(role) == IF role = "STUDENT" THEN "STUDENT" ELSE "ADMIN"

FindBySubject(type) == ActiveRole(type)

\* Mutant: a stored empty list is taken as it is.
AllowedDomains_TakesEmpty == IF setting \in {None, Malformed} THEN None ELSE setting

\* The runtime list, or None: absent, unreadable, malformed or empty settings are no list.
AllowedDomains == IF setting \in {None, Malformed, {}} THEN None ELSE setting

\* An empty list accepts every domain.
IsAllowedDomain(domains) == domains = {} \/ EmailDomain \in domains

Lists(value) == value \notin {None, Malformed} /\ EmailDomain \in value

\* AuthService.allowedDomains: the policy's list, or the configured one.
EffectiveDomains == IF AllowedDomains = None THEN ConfigDomains ELSE AllowedDomains

----
(* Challenges and sessions. *)

Active(ch) == ~ch.consumed /\ ch.left > 0

Live == {n \in DOMAIN challenges : Active(challenges[n])}

\* The number of the most recent unconsumed, unexpired challenge, 0 when there is none.
LatestActive == IF Live = {} THEN 0 ELSE CHOOSE n \in Live : \A m \in Live : m <= n

\* ExpiresAt.Before(now)
Expired(s) == s.left < 0

Init ==
    /\ LimiterInit
    /\ \E a \in InitialAccounts : admin = a.admin /\ student = a.student
    /\ setting \in {None, Malformed} \cup SettingDomains
    /\ challenges = << >> /\ sessions = << >>
    /\ calls = [c \in Clients |-> Idle]
    /\ made = 0 /\ edits = 0
    /\ lastHeld = [r \in Roles |->
                     IF r \in {ActiveRole("ADMIN"), ActiveRole("STUDENT")} THEN 0 ELSE Never]
    /\ listed = Lists(setting)

directory == <<admin, student, setting, edits, lastHeld, listed>>
limiter   == <<windows, recent, made>>

Call(c) == calls[c].pc = "idle" /\ made < MaxCalls /\ made' = made + 1

Goto(c, pc) == calls' = [calls EXCEPT ![c].pc = pc]
Answer(c)   == calls' = [calls EXCEPT ![c] = Idle]

\* A login call passes the limiter of its address, or is answered 429 and is over.
Arrive(c, op) ==
    /\ Call(c)
    /\ \E ip \in IPs : LetThrough(ip)
    /\ Goto(c, op)
    /\ UNCHANGED <<directory, challenges, sessions>>

PostStart(c)  == Arrive(c, "start")
PostVerify(c) == Arrive(c, "verify")

----
(* StartLogin.  Whatever happens the caller is told that a code was sent. *)

\* The domain policy reads the setting.
CheckDomain(c) ==
    /\ calls[c].pc = "start"
    /\ IF IsAllowedDomain(EffectiveDomains) THEN Goto(c, "find") ELSE Answer(c)
    /\ UNCHANGED <<limiter, directory, challenges, sessions>>

FindAccount(c) ==
    /\ calls[c].pc = "find"
    /\ IF FindByEmail # None THEN Goto(c, "latest") ELSE Answer(c)
    /\ UNCHANGED <<limiter, directory, challenges, sessions>>

\* Mutant: every start mints a code.
ReuseChallenge_Never(c) ==
    /\ calls[c].pc = "latest"
    /\ Goto(c, "create")
    /\ UNCHANGED <<limiter, directory, challenges, sessions>>

\* A live challenge is reused: no new code, no e-mail.
ReuseChallenge(c) ==
    /\ calls[c].pc = "latest"
    /\ IF LatestActive = 0 THEN Goto(c, "create") ELSE Answer(c)
    /\ UNCHANGED <<limiter, directory, challenges, sessions>>

CreateChallenge(c) ==
    /\ calls[c].pc = "create"
    /\ challenges' = Append(challenges, [left |-> OTPTTL, consumed |-> FALSE, attempts |-> 0,
                                         sent |-> FALSE])
    /\ calls' = [calls EXCEPT ![c].pc = "mail", ![c].id = Len(challenges')]
    /\ UNCHANGED <<limiter, directory, sessions>>

\* The relay takes the code or not; after an error (answered 500) the challenge stays,
\* and nobody may know its code.
SendLoginCode(c) ==
    /\ calls[c].pc = "mail"
    /\ \E sent \in BOOLEAN : challenges' = [challenges EXCEPT ![calls[c].id].sent = sent]
    /\ Answer(c)
    /\ UNCHANGED <<limiter, directory, sessions>>

----
(* VerifyLogin. *)

\* Mutant: the attempts are not looked at.
CheckCode_NoLimit(c) ==
    LET n == LatestActive
        open == n # 0
    IN /\ calls[c].pc = "verify"
       /\ \/ ~open /\ Answer(c)
          \/ open /\ calls' = [calls EXCEPT ![c].pc = "wrong", ![c].id = n]
          \/ /\ open /\ challenges[n].sent
             /\ calls' = [calls EXCEPT ![c].pc = "user", ![c].id = n, ![c].age = 0]
       /\ UNCHANGED <<limiter, directory, challenges, sessions>>

\* LatestActive, the attempts and the hash: the code typed is the one that was sent for
\* that challenge, or another one (a wrong code, or the code of an earlier challenge).
CheckCode(c) ==
    LET n == LatestActive
        open == n # 0 /\ challenges[n].attempts < MaxOTPAttempts
    IN /\ calls[c].pc = "verify"
       /\ \/ ~open /\ Answer(c)
          \/ open /\ calls' = [calls EXCEPT ![c].pc = "wrong", ![c].id = n]
          \/ /\ open /\ challenges[n].sent
             /\ calls' = [calls EXCEPT ![c].pc = "user", ![c].id = n, ![c].age = 0]
       /\ UNCHANGED <<limiter, directory, challenges, sessions>>

\* attempts = attempts + 1, in SQL; a failed statement is ignored.
IncrementAttempts(c) ==
    /\ calls[c].pc = "wrong"
    /\ \/ challenges' = [challenges EXCEPT ![calls[c].id].attempts = @ + 1]
       \/ UNCHANGED challenges
    /\ Answer(c)
    /\ UNCHANGED <<limiter, directory, sessions>>

\* Mutant: a missing or inactive account is not noticed.
FindUser_Unchecked(c) ==
    /\ calls[c].pc = "user"
    /\ calls' = [calls EXCEPT ![c].pc = "consume", ![c].role = FindByEmail]
    /\ UNCHANGED <<limiter, directory, challenges, sessions>>

\* The account may have gone since the code was sent.
FindUser(c) ==
    /\ calls[c].pc = "user"
    /\ IF FindByEmail = None THEN Answer(c)
       ELSE calls' = [calls EXCEPT ![c].pc = "consume", ![c].role = FindByEmail]
    /\ UNCHANGED <<limiter, directory, challenges, sessions>>

\* Mutant: the code stays valid.
Consume_Missing(c) ==
    /\ calls[c].pc = "consume"
    /\ Goto(c, "session")
    /\ UNCHANGED <<limiter, directory, challenges, sessions>>

\* Unconditional: whoever consumed the challenge before.
Consume(c) ==
    /\ calls[c].pc = "consume"
    /\ challenges' = [challenges EXCEPT ![calls[c].id].consumed = TRUE]
    /\ Goto(c, "session")
    /\ UNCHANGED <<limiter, directory, sessions>>

\* Mutant: the lifetime is counted from a second reading of the clock.
Lifetime_FromCreation(age) == SessionTTL

\* ExpiresAt is counted from the clock read before the code was checked.
Lifetime(age) == SessionTTL - age

\* The session keeps the role that FindUser read.
CreateSession(c) ==
    /\ calls[c].pc = "session"
    /\ sessions' = Append(sessions, [role |-> calls[c].role, left |-> Lifetime(calls[c].age),
                                     code |-> calls[c].id])
    /\ Answer(c)
    /\ UNCHANGED <<limiter, directory, challenges>>

----
(* A call with a session cookie. *)

\* Authenticate: SessionStore.Get and the expiry.  dead: the account behind the session
\* has not been ACTIVE since the call began.
GetSession(c, n) ==
    /\ Call(c)
    /\ sessions[n] # None
    /\ ~Expired(sessions[n])
    /\ calls' = [calls EXCEPT ![c] =
                   [Idle EXCEPT !.pc = "subject", !.id = n, !.role = sessions[n].role,
                                !.dead = FindBySubject(SubjectType(sessions[n].role)) = None]]
    /\ UNCHANGED <<windows, recent, directory, challenges, sessions>>

\* Mutant: the session alone is trusted.
CheckSubject_Missing(c) ==
    /\ calls[c].pc = "subject"
    /\ Goto(c, "served")
    /\ UNCHANGED <<limiter, directory, challenges, sessions>>

\* The roles that RequireAuth and RequireRole admit to each group of routes.
Routes == [secured |-> Roles, admin |-> AdminRoles, superAdmin |-> {"SUPER_ADMIN"}]

\* RequireCSRF: safe methods pass; the others need the session's own token.
CSRFOk(safe, token) == safe \/ token

\* A principal passes RequireCSRF and RequireRole.
Admitted(role, route, safe, token) == CSRFOk(safe, token) /\ role \in Routes[route]

\* Authenticate's second read, then the guards: 401 or 403, or the handler runs.
CheckSubject(c) ==
    /\ calls[c].pc = "subject"
    /\ \E route \in DOMAIN Routes, safe, token \in BOOLEAN :
          IF /\ FindBySubject(SubjectType(calls[c].role)) # None
             /\ Admitted(calls[c].role, route, safe, token)
          THEN Goto(c, "served") ELSE Answer(c)
    /\ UNCHANGED <<limiter, directory, challenges, sessions>>

\* The handler of the route answers.
Served(c) ==
    /\ calls[c].pc = "served"
    /\ Answer(c)
    /\ UNCHANGED <<limiter, directory, challenges, sessions>>

\* /auth/logout is outside the guards: the session of the cookie is deleted.
Logout(n) ==
    /\ sessions[n] # None
    /\ sessions' = [sessions EXCEPT ![n] = None]
    /\ UNCHANGED <<limiter, directory, challenges, calls>>

\* runSessionCleanup.
DeleteExpired ==
    /\ \E n \in DOMAIN sessions : sessions[n] # None /\ Expired(sessions[n])
    /\ sessions' = [n \in DOMAIN sessions |->
                      IF sessions[n] # None /\ Expired(sessions[n]) THEN None ELSE sessions[n]]
    /\ UNCHANGED <<limiter, directory, challenges, calls>>

----
(* Edits by other administrators, each one transaction, and time. *)

\* What an edit of the accounts means for the histories.
Noted ==
    LET roles == [type \in {"ADMIN", "STUDENT"} |-> FindBySubject(type)]'
    IN /\ lastHeld' = [r \in Roles |-> IF r \in Range(roles) THEN 0 ELSE lastHeld[r]]
       /\ calls' = [c \in Clients |->
                      [calls[c] EXCEPT !.dead = @ /\ roles[SubjectType(calls[c].role)] = None]]

Edit == edits < MaxEdits /\ edits' = edits + 1

\* adminuser Create: a new administrator is ACTIVE.
CreateAdminUser(role) ==
    /\ Edit
    /\ admin = None
    /\ admin' = [role |-> role, status |-> "ACTIVE"]
    /\ UNCHANGED <<limiter, student, setting, challenges, sessions, listed>>
    /\ Noted

\* adminuser Update: a patch of role, status or both.
UpdateAdminUser(role, status) ==
    /\ Edit
    /\ admin # None
    /\ admin' = [role |-> role, status |-> status]
    /\ UNCHANGED <<limiter, student, setting, challenges, sessions, listed>>
    /\ Noted

\* student Update, as far as identity reads it.
UpdateStudent(status) ==
    /\ Edit
    /\ student # None
    /\ student' = status
    /\ UNCHANGED <<limiter, admin, setting, challenges, sessions, listed>>
    /\ Noted

\* settings Upsert of allowed_email_domains: any JSON document but null is stored.
UpsertSetting(value) ==
    /\ Edit
    /\ setting' = value
    /\ listed' = (listed \/ Lists(value))
    /\ UNCHANGED <<limiter, admin, student, challenges, sessions, calls, lastHeld>>

Tick ==
    /\ LimiterTick
    /\ challenges' = [n \in DOMAIN challenges |->
                        [challenges[n] EXCEPT !.left = IF @ = 0 THEN 0 ELSE @ - 1]]
    /\ sessions' = [n \in DOMAIN sessions |->
                      IF sessions[n] = None THEN None
                      ELSE [sessions[n] EXCEPT !.left = IF @ < 0 THEN @ ELSE @ - 1]]
    /\ calls' = [c \in Clients |->
                   IF calls[c].pc \in {"user", "consume", "session"}
                   THEN [calls[c] EXCEPT !.age = IF @ = Never THEN @ ELSE @ + 1] ELSE calls[c]]
    /\ lastHeld' = [r \in Roles |->
                      IF r \in {ActiveRole("ADMIN"), ActiveRole("STUDENT")} THEN 0
                      ELSE IF lastHeld[r] = Never THEN Never ELSE lastHeld[r] + 1]
    /\ UNCHANGED <<admin, student, setting, made, edits, listed>>

Next ==
    \/ \E c \in Clients :
          \/ PostStart(c) \/ PostVerify(c)
          \/ CheckDomain(c) \/ FindAccount(c) \/ ReuseChallenge(c) \/ CreateChallenge(c)
          \/ SendLoginCode(c)
          \/ CheckCode(c) \/ IncrementAttempts(c) \/ FindUser(c) \/ Consume(c)
          \/ CreateSession(c)
          \/ \E n \in DOMAIN sessions : GetSession(c, n)
          \/ CheckSubject(c) \/ Served(c)
    \/ \E n \in DOMAIN sessions : Logout(n)
    \/ DeleteExpired
    \/ \E role \in AdminRoles :
          CreateAdminUser(role) \/ \E status \in Statuses : UpdateAdminUser(role, status)
    \/ \E status \in Statuses : UpdateStudent(status)
    \/ \E value \in {Malformed} \cup SettingDomains : UpsertSetting(value)
    \/ Tick

Spec == Init /\ [][Next]_vars

----
(* Properties. *)

\* The limit on wrong codes can be passed only by calls that were already under way:
\* VerifyLogin compares the attempts it read and increments them in another statement.
AttemptsBounded ==
    \A n \in DOMAIN challenges :
        challenges[n].attempts <= MaxOTPAttempts + Cardinality(Clients) - 1

\* StartLogin looks for a live challenge and creates one in separate statements; even
\* so one address never has more live challenges than there were calls in between.
LiveChallengesBounded == Cardinality(Live) <= Cardinality(Clients)

OpenedBy(n) == {i \in DOMAIN sessions : sessions[i] # None /\ sessions[i].code = n}

\* Consume is unconditional: one code can open several sessions, but only as many as
\* there were calls in between, and none once it has been consumed before the call.
SessionsPerCode ==
    \A n \in DOMAIN challenges : Cardinality(OpenedBy(n)) <= Cardinality(Clients)

\* A session that Authenticate still accepts carries a role that an ACTIVE account of
\* the address had within the session's lifetime so far: a demoted or removed
\* administrator's privileges outlive the change by at most SessionTTL.
RoleFresh ==
    \A n \in DOMAIN sessions :
        sessions[n] # None /\ ~Expired(sessions[n])
        => lastHeld[sessions[n].role] <= SessionTTL - sessions[n].left

\* No handler runs for a call whose account was inactive from before the call began:
\* Authenticate reads the account again on every request.
InactiveNotServed ==
    [][\A c \in Clients : calls[c].pc = "subject" /\ calls'[c].pc = "served"
                          => ~calls[c].dead]_vars

\* A broken or empty allowed_email_domains never opens the door: a code is created only
\* for a domain that the configuration allows or the setting has really listed.
DomainPolicyFailsSafe ==
    challenges # << >> => EmailDomain \in ConfigDomains \/ listed

----
(* What keeps the properties true from step to step. *)

At(pcs) == {c \in Clients : calls[c].pc \in pcs}

\* The calls that are at one of these steps for challenge n.
Holding(n, pcs) == {c \in At(pcs) : calls[c].id = n}

\* The steps of a call that may still insert a challenge or a session.
Inserts == {"start", "find", "latest", "create", "verify", "user", "consume", "session"}

Opens == {"user", "consume", "session"}

\* Every row was inserted by a call of its own.
RowsCounted == Len(challenges) + Len(sessions) + Cardinality(At(Inserts)) <= made

\* A call that has looked a challenge up works on one that there is, and nobody gets to
\* open a session before its challenge is consumed.
IdsValid ==
    /\ \A c \in At({"mail", "wrong", "user", "consume", "session"}) :
          calls[c].id \in DOMAIN challenges
    /\ \A c \in At({"session"}) : challenges[calls[c].id].consumed
    /\ \A c \in At({"consume", "session"}) : calls[c].role \in Roles
    /\ \A i \in DOMAIN sessions : sessions[i] # None =>
          /\ sessions[i].code \in DOMAIN challenges
          /\ challenges[sessions[i].code].consumed

\* The calls under way count as what they are about to do.
AttemptsCounted ==
    \A n \in DOMAIN challenges :
        challenges[n].attempts + Cardinality(Holding(n, {"wrong"}))
        <= MaxOTPAttempts + Cardinality(Clients) - 1

LiveCounted == Cardinality(Live) + Cardinality(At({"create"})) <= Cardinality(Clients)

SessionsCounted ==
    \A n \in DOMAIN challenges :
        Cardinality(OpenedBy(n)) + Cardinality(Holding(n, Opens))
        <= Cardinality(Clients)

\* The histories follow the accounts, and the role of a call is as fresh as its clock.
RolesFollowed ==
    /\ \A type \in {"ADMIN", "STUDENT"} :
          ActiveRole(type) # None => lastHeld[ActiveRole(type)] = 0
    /\ \A c \in At({"consume", "session"}) : lastHeld[calls[c].role] <= calls[c].age
    /\ \A c \in At({"subject"}) :
          calls[c].dead => FindBySubject(SubjectType(calls[c].role)) = None

PolicyFollowed ==
    /\ Lists(setting) => listed
    /\ challenges # << >> \/ At({"find", "latest", "create"}) # {}
       => EmailDomain \in ConfigDomains \/ listed

IInv ==
    /\ TypeOK /\ RowsCounted /\ IdsValid
    /\ AttemptsCounted /\ LiveCounted /\ SessionsCounted
    /\ RolesFollowed /\ RoleFresh /\ PolicyFollowed
    /\ LimiterInv

====
