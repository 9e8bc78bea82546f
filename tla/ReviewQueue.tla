---- MODULE ReviewQueue ----
(***************************************************************************)
(* The review queue (internal/review/adapter/postgres/queue.go): one       *)
(* statement counts the requests, a second one reads a page of them in     *)
(* priority order with its warnings, a third one the groups of their       *)
(* offerings; the administrator decides on what the page showed.           *)
(***************************************************************************)
EXTENDS CatalogBrowsing, Integers, FiniteSetsExt

CONSTANTS
    DefaultPageSize, MaxPageSize,   \* 20 and 100 in review/app/service.go
    QueueRequests,                  \* query strings: [page, size, filter], where a filter has
                                    \* [semester, offering, group, priority, status] and None
                                    \* where it has none; the semester is required
    Completed                       \* [Students -> Nat]: electives completed before

ASSUME QueueAssumption ==
    /\ DefaultPageSize \in 1 .. MaxPageSize /\ MaxPageSize \in Nat
    /\ \A q \in QueueRequests : q.page \in Int /\ q.size \in Int
    /\ Completed \in [Students -> Nat]

VARIABLE desk    \* the locals of the administrator's call, what it was shown, and its walk

\* An administrator who reads page after page is on a walk; its history: the requests that
\* were in the queue at every page so far, the queue at the last page, the places up to the
\* end of that page, what was shown, and how many requests left between two pages.
NoWalk == [stayed |-> {}, queue |-> {}, upto |-> 0, shown |-> {}, gone |-> 0]

NotReading == [pc |-> "idle", filter |-> None, page |-> 1, size |-> 1, total |-> 0,
               items |-> << >>, targets |-> {}, walk |-> NoWalk]

QueueInit == desk = NotReading

ReviewableStatuses == {"SUBMITTED", "PENDING_REVIEW", "WAITLIST_SAME_SHIFT", "WAITLIST_OPPOSITE_SHIFT"}

PriorityRank(p) == CASE p = "DIRECT_SAME_SHIFT" -> 0
                     [] p = "WAITLIST_SAME_SHIFT" -> 1
                     [] OTHER -> 2

\* The WHERE clause; without a status the pending workload is shown.
Matches(r, f) ==
    /\ reqs[r].semester = f.semester
    /\ f.offering # None => GroupOffering[reqs[r].group] = f.offering
    /\ f.group # None => reqs[r].group = f.group
    /\ f.priority # None => reqs[r].priority = f.priority
    /\ IF f.status # None THEN reqs[r].status = f.status ELSE reqs[r].status \in ReviewableStatuses

Workload(f) == {r \in DOMAIN reqs : Matches(r, f)}

Before(q, r) ==
    LET p == PriorityRank(reqs[q].priority)
        o == PriorityRank(reqs[r].priority)
    IN p < o \/ (p = o /\ q < r)

\* ORDER BY priorityRank, arrival_sequence: the i-th request has i - 1 ahead of it.
Ahead(W, r) == {q \in W : Before(q, r)}

Ordered(W) == [i \in 1 .. Cardinality(W) |-> CHOOSE r \in W : Cardinality(Ahead(W, r)) = i - 1]

\* Mutant: the offset counts pages from zero.
Page_OffsetFromZero(W, page, size) ==
    SubSeq(Ordered(W), page * size + 1, Min({(page + 1) * size, Cardinality(W)}))

\* LIMIT size OFFSET (page - 1) * size
Page(W, page, size) ==
    SubSeq(Ordered(W), (page - 1) * size + 1, Min({page * size, Cardinality(W)}))

\* Service.Queue
PageNumber(n) == IF n < 1 THEN 1 ELSE n
PageSize(n)   == IF n < 1 \/ n > MaxPageSize THEN DefaultPageSize ELSE n

AcceptedOf(r) == {q \in DOMAIN reqs : /\ reqs[q].student = reqs[r].student
                                      /\ reqs[q].semester = reqs[r].semester
                                      /\ reqs[q].status = "ACCEPTED"}

\* Mutant: the group is said to be full only when it is overfull.
WarningsFor_Overfull(r) ==
    {w \in {"maximum", "capacity", "opposite"} :
        \/ w = "maximum" /\ Completed[reqs[r].student] + Cardinality(AcceptedOf(r))
                                >= MaxElectivesPerSemester
        \/ w = "capacity" /\ Cardinality(Accepted(reqs[r].group)) > capacity[reqs[r].group]
        \/ w = "opposite" /\ reqs[r].priority = "WAITLIST_OPPOSITE_SHIFT"}

WarningsFor(r) ==
    {w \in {"maximum", "capacity", "opposite"} :
        \/ w = "maximum" /\ Completed[reqs[r].student] + Cardinality(AcceptedOf(r))
                                >= MaxElectivesPerSemester
        \/ w = "capacity" /\ Cardinality(Accepted(reqs[r].group)) >= capacity[reqs[r].group]
        \/ w = "opposite" /\ reqs[r].priority = "WAITLIST_OPPOSITE_SHIFT"}

\* A row of the page: the request, what was counted for it in the same statement, and the
\* warnings.
Item(r) == [id |-> r, group |-> reqs[r].group, status |-> reqs[r].status,
            capacity |-> capacity[reqs[r].group], seated |-> Accepted(reqs[r].group),
            accepted |-> AcceptedOf(r), warnings |-> WarningsFor(r)]

----
\* GET /admin/review-queues, with any of its filters.  The next page of the same list goes
\* on with the walk.
Queue ==
    /\ desk.pc \in {"idle", "shown"}
    /\ Spend("reads")
    /\ \E q \in QueueRequests :
          LET page == PageNumber(q.page)
              size == PageSize(q.size)
              goesOn == page = desk.page + 1 /\ size = desk.size /\ q.filter = desk.filter
          IN desk' = [NotReading EXCEPT !.pc = "count", !.filter = q.filter, !.page = page,
                        !.size = size, !.walk = IF goesOn THEN desk.walk ELSE NoWalk]
    /\ UNCHANGED <<reqs, capacity, closed, open, calls, faults, browse>>

QueueCount ==
    /\ desk.pc = "count"
    /\ desk' = [desk EXCEPT !.pc = "page", !.total = Cardinality(Workload(desk.filter))]
    /\ UNCHANGED <<requestVars, browse>>

\* The walk after a page: the first one begins it.
Walked(W, page) ==
    LET w == desk.walk
    IN [stayed |-> IF desk.page = 1 THEN W ELSE w.stayed \cap W,
        queue  |-> W,
        upto   |-> desk.page * desk.size,
        shown  |-> IF desk.page = 1 THEN Range(page) ELSE w.shown \cup Range(page),
        gone   |-> IF desk.page = 1 THEN 0 ELSE w.gone + Cardinality(w.queue \ W)]

QueuePage ==
    LET W == Workload(desk.filter)
        page == Page(W, desk.page, desk.size)
    IN /\ desk.pc = "page"
       /\ desk' = [desk EXCEPT !.pc = IF page = << >> THEN "idle" ELSE "groups",
                     !.items = [i \in DOMAIN page |-> Item(page[i])],
                     !.walk = Walked(W, page)]
       /\ UNCHANGED <<requestVars, browse>>

\* The ACTIVE groups of the offerings on the page: where a request may be moved to.
AttachOfferingGroups ==
    LET offerings == {GroupOffering[desk.items[i].group] : i \in DOMAIN desk.items}
    IN /\ desk.pc = "groups"
       /\ desk' = [desk EXCEPT !.pc = "shown",
                     !.targets = {g \in Groups \ closed : GroupOffering[g] \in offerings}]
       /\ UNCHANGED <<requestVars, browse>>

\* The DecisionContext that Decide gathers when it runs.
Context(r, target) ==
    [status |-> reqs[r].status, reasonValid |-> TRUE, targetGiven |-> TRUE,
     capacity |-> capacity[target], groupAccepted |-> Cardinality(Accepted(target)),
     studentAccepted |-> Cardinality(AcceptedOf(r))]

\* Repo.Decide on an item of the page, in one step.  It decides on the request as it is
\* now; a refusal changes nothing, and the page stays before the administrator.
Decide ==
    /\ desk.pc = "shown"
    /\ \E i \in DOMAIN desk.items, dt \in DecisionTypes :
         LET r == desk.items[i].id
         IN \E target \in IF dt = "CREATE_GROUP_ACCEPTANCE"
                          THEN {g \in desk.targets : GroupOffering[g] = GroupOffering[reqs[r].group]}
                          ELSE {reqs[r].group} :
              LET outcome == ApplyDecision(dt, Context(r, target))
                  taken == \E q \in Active(reqs[r].student, reqs[r].semester) \ {r} :
                               reqs[q].group = target
              IN \/ outcome = "ACCEPTED" /\ ~taken /\ Accept(r, target)
                 \/ outcome \notin DecisionErrors \cup {"ACCEPTED"} /\ Settle(r, outcome)
                 \/ /\ outcome \in DecisionErrors \/ (outcome = "ACCEPTED" /\ taken)
                    /\ UNCHANGED <<reqs, capacity>>
    /\ UNCHANGED <<closed, open, calls, budget, faults, browse, desk>>

QueueSteps == QueueCount \/ QueuePage \/ AttachOfferingGroups

----
(* Properties. *)

\* The first n of a queue.
Front(W, n) == {r \in W : Cardinality(Ahead(W, r)) < n}

\* An administrator who reads page after page misses at most one request for each one that
\* left the queue between two pages: of the requests that were in it all along and have
\* been passed by now, all but so many were shown (LIMIT and OFFSET of ListQueue against
\* the submissions, cancellations and decisions that come between two pages).
MissedByDepartures ==
    LET w == desk.walk
    IN Cardinality((w.stayed \cap Front(w.queue, w.upto)) \ w.shown) <= w.gone

\* An item without a warning can be accepted, or something happened since its page was
\* read: the request was changed, the group lost seats, or another request of the group or
\* of the student was accepted (warningsFor when the page is read against ApplyDecision
\* when the administrator decides).
RefusalsExplained ==
    desk.pc = "shown" =>
        \A i \in DOMAIN desk.items :
            LET it == desk.items[i]
                now == reqs[it.id]
            IN (/\ it.warnings \cap {"maximum", "capacity"} = {} /\ ~IsTerminal(it.status)
                /\ ApplyDecision("ACCEPT", Context(it.id, now.group)) # "ACCEPTED")
               => \/ now.status # it.status \/ now.group # it.group
                  \/ capacity[it.group] < it.capacity
                  \/ ~(Accepted(it.group) \subseteq it.seated)
                  \/ ~(AcceptedOf(it.id) \subseteq it.accepted)

----
(* What keeps them true from step to step. *)

\* The history of the walk is about requests that there are, and it is where the page is.
WalkKept ==
    LET w == desk.walk
    IN /\ DOMAIN w = DOMAIN NoWalk
       /\ w.stayed \subseteq w.queue /\ w.queue \subseteq DOMAIN reqs
       /\ w.gone \in Nat /\ w.upto \in Nat
       /\ w.stayed # {} =>
            w.upto = (IF desk.pc \in {"count", "page"} THEN desk.page - 1 ELSE desk.page) * desk.size
       /\ MissedByDepartures

\* The warnings of an item are about what was counted with it.
ItemKept(it) ==
    /\ it.id \in DOMAIN reqs /\ it.group \in Groups /\ it.capacity \in Nat
    /\ IsFiniteSet(it.seated) /\ IsFiniteSet(it.accepted)
    /\ "maximum" \notin it.warnings => Cardinality(it.accepted) < MaxElectivesPerSemester
    /\ "capacity" \notin it.warnings => Cardinality(it.seated) < it.capacity

DeskInv ==
    /\ DOMAIN desk = DOMAIN NotReading
    /\ desk.pc \in {"idle", "count", "page", "groups", "shown"}
    /\ desk.page \in Nat \ {0} /\ desk.size \in Nat \ {0}
    /\ desk.targets \subseteq Groups
    /\ \A i \in DOMAIN desk.items : ItemKept(desk.items[i])
    /\ WalkKept

====
