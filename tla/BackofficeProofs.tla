---- MODULE BackofficeProofs ----
(***************************************************************************)
(* Proofs of the safety properties of the administrative endpoints: one    *)
(* active semester, the audit trail, and the answers of calls and imports. *)
(***************************************************************************)
EXTENDS Backoffice, FiniteSetTheorems, SequenceTheorems, TLAPS

USE DEF Table

----
(* The parts of the state that a step leaves alone. *)

LEMMA IdleCall ==
    /\ Idle.pc = "idle" /\ Idle.held = {} /\ Idle.before = None /\ Idle.closing = {}
    /\ Idle.accepted = 0
    /\ OpKept(Idle) /\ ReadKept(Idle)
BY DEF Idle, OpKept, OpAt, ReadKept, OnSemesters, OnAccounts, OnGroups, OnSettings, OnOthers, Activating

\* What a step of c does to the store when it changes, or leaves, rows one by one.
LEMMA StoreFrame ==
    ASSUME NEW c \in Admins, NEW call,
           StoreKept, world' = world, OpKept(call),
           calls' = [calls EXCEPT ![c] = call],
           DOMAIN rows' = Entities, \A e \in Entities : RowKept(e)',
           DOMAIN trail' = Entities,
           \A e \in Entities : trail'[e] \in Seq(Range(trail'[e])),
           DOMAIN answers' = DOMAIN answers,
           faults' \in {faults, faults + 1}
    PROVE  StoreKept'
<1>1. \A d \in Admins : calls'[d] = IF d = c THEN call ELSE calls[d]
  BY DEF StoreKept
<1>2. \A d \in Admins : OpKept(calls'[d])
  BY <1>1 DEF StoreKept
<1>3. \A d \in Admins : OpKept(calls[d])'
  BY <1>2 DEF OpKept, OpAt
<1>4. DOMAIN calls' = Admins /\ faults' \in Nat /\ world' \in Worlds /\ DOMAIN answers' = 1 .. MaxCalls
  BY DEF StoreKept
<1> QED
  BY <1>3, <1>4 DEF StoreKept

LEMMA LocksFrame ==
    ASSUME NEW c \in Admins, NEW call,
           StoreKept, LocksKept, world' = world,
           calls' = [calls EXCEPT ![c] = call],
           ReadKept(call)',
           \A e \in call.held : Free(c, e),
           \A e \in Entities : rows[e] # None => /\ rows'[e] # None
                                                 /\ rows'[e] = rows[e] \/ Free(c, e)
    PROVE  LocksKept'
<1>1. \A d \in Admins : calls'[d] = IF d = c THEN call ELSE calls[d]
  BY DEF StoreKept
<1>2. \A a, b \in Admins : a # b => calls'[a].held \cap calls'[b].held = {}
  BY <1>1 DEF LocksKept, Free
<1>3. ASSUME NEW d \in Admins
      PROVE  ReadKept(calls[d])'
  <2>1. CASE d = c
    BY <1>1, <2>1 DEF ReadKept
  <2>2. CASE d # c
    <3>1. calls'[d] = calls[d]
      BY <1>1, <2>2
    <3>2. \A e \in calls[d].held : e \in Entities /\ rows'[e] = rows[e] /\ rows[e] # None
      BY <2>2 DEF LocksKept, ReadKept, Free
    <3>3. ReadKept(calls[d])
      BY DEF LocksKept
    <3> QED
      BY <3>1, <3>2, <3>3 DEF ReadKept
  <2> QED
    BY <2>1, <2>2
<1> QED
  BY <1>2, <1>3 DEF LocksKept

LEMMA SemestersFrame ==
    ASSUME NEW c \in Admins, NEW call,
           StoreKept, SemestersKept, world' = world,
           calls' = [calls EXCEPT ![c] = call],
           call.pc # "commitActivation",
           \A e \in Table("semesters") : Active(e)' => Active(e)
    PROVE  SemestersKept'
<1>1. \A d \in Admins : calls'[d] = IF d = c THEN call ELSE calls[d]
  BY DEF StoreKept
<1>2. \A d \in Admins : calls'[d].pc = "commitActivation" => d # c /\ calls'[d] = calls[d]
  BY <1>1
<1>3. Table("semesters")' = Table("semesters")
  OBVIOUS
<1>4. \A e, f \in Table("semesters")' : Active(e)' /\ Active(f)' => e = f
  BY <1>3 DEF SemestersKept
<1>5. \A a, b \in Admins : calls'[a].pc = "commitActivation" /\ calls'[b].pc = "commitActivation" => a = b
  BY <1>2 DEF SemestersKept
<1>6. \A d \in Admins : calls'[d].pc = "commitActivation" =>
          \A e \in Table("semesters")' \ {Entity(d)'} : Active(e)' => e \in calls'[d].closing
  BY <1>2, <1>3 DEF SemestersKept, Entity
<1> QED
  BY <1>4, <1>5, <1>6 DEF SemestersKept

----
(* What an event adds to the trail. *)

LEMMA OwnElements ==
    ASSUME NEW S, NEW s \in Seq(S)
    PROVE  s \in Seq(Range(s))
<1>1. /\ Len(s) \in Nat /\ DOMAIN s = 1 .. Len(s)
      /\ s = [i \in 1 .. Len(s) |-> s[i]] /\ \A i \in 1 .. Len(s) : s[i] \in Range(s)
  BY LenProperties DEF Range
<1>2. s \in [1 .. Len(s) -> Range(s)]
  BY <1>1
<1> QED
  BY <1>1, <1>2, SeqDef

LEMMA Appended ==
    ASSUME NEW S, NEW s \in Seq(S), NEW x
    PROVE  /\ Len(s) \in Nat
           /\ DOMAIN Append(s, x) = DOMAIN s \cup {Len(s) + 1}
           /\ \A i \in DOMAIN s : Append(s, x)[i] = s[i] /\ i \in Nat /\ i < Len(s) + 1
           /\ Append(s, x)[Len(s) + 1] = x
           /\ Append(s, x) \in Seq(Range(Append(s, x)))
<1>1. Len(s) \in Nat /\ DOMAIN s = 1 .. Len(s)
  OBVIOUS
<1>2. s \in Seq(S \cup {x}) /\ x \in S \cup {x}
  OBVIOUS
<1>3. Append(s, x) \in Seq(S \cup {x}) /\ Len(Append(s, x)) = Len(s) + 1
  BY <1>2
<1>4. DOMAIN Append(s, x) = 1 .. Len(s) + 1
  BY <1>3
<1>5. \A i \in 1 .. Len(s) + 1 : Append(s, x)[i] = IF i <= Len(s) THEN s[i] ELSE x
  BY <1>2
<1>6. Append(s, x) \in Seq(Range(Append(s, x)))
  BY <1>3, OwnElements, Zenon
<1> QED
  BY <1>1, <1>4, <1>5, <1>6

\* The trail of e with the event that a call appends to it.
LEMMA EventAppended ==
    ASSUME NEW e \in Entities, NEW event,
           StoreKept,
           trail' = [trail EXCEPT ![e] = Append(@, event)]
    PROVE  /\ DOMAIN trail' = Entities
           /\ \A f \in Entities : f # e => trail'[f] = trail[f]
           /\ \A f \in Entities : trail'[f] \in Seq(Range(trail'[f]))
           /\ Len(trail[e]) \in Nat
           /\ DOMAIN trail'[e] = DOMAIN trail[e] \cup {Len(trail[e]) + 1}
           /\ \A i \in DOMAIN trail[e] :
                 trail'[e][i] = trail[e][i] /\ i \in Nat /\ i < Len(trail[e]) + 1
           /\ trail'[e][Len(trail[e]) + 1] = event
<1>1. trail[e] \in Seq(Range(trail[e]))
  BY DEF StoreKept
<1>2. /\ DOMAIN trail' = Entities
      /\ trail'[e] = Append(trail[e], event)
      /\ \A f \in Entities : f # e => trail'[f] = trail[f]
  BY DEF StoreKept
<1>3. \A f \in Entities : f # e => trail'[f] \in Seq(Range(trail'[f]))
  BY <1>2 DEF StoreKept
<1>4. /\ Len(trail[e]) \in Nat
      /\ DOMAIN Append(trail[e], event) = DOMAIN trail[e] \cup {Len(trail[e]) + 1}
      /\ \A i \in DOMAIN trail[e] :
            Append(trail[e], event)[i] = trail[e][i] /\ i \in Nat /\ i < Len(trail[e]) + 1
      /\ Append(trail[e], event)[Len(trail[e]) + 1] = event
      /\ Append(trail[e], event) \in Seq(Range(Append(trail[e], event)))
  BY <1>1, Appended, Zenon
<1> QED
  BY <1>2, <1>3, <1>4

\* The counts that bound the events without a previous value.
LEMMA TrailFinite ==
    ASSUME NEW e \in Entities, StoreKept
    PROVE  IsFiniteSet(Prevless(e)) /\ IsFiniteSet(Valued(e))
<1>1. Len(trail[e]) \in Nat /\ DOMAIN trail[e] = 1 .. Len(trail[e])
  BY DEF StoreKept
<1>2. IsFiniteSet(1 .. Len(trail[e]))
  BY <1>1, FS_Interval
<1>3. Prevless(e) \subseteq 1 .. Len(trail[e]) /\ Valued(e) \subseteq 1 .. Len(trail[e])
  BY <1>1 DEF Prevless, Valued
<1> QED
  BY <1>2, <1>3, FS_Subset

LEMMA UnreadFinite ==
    ASSUME NEW e
    PROVE  /\ IsFiniteSet(Unread(e)) /\ IsFiniteSet(Admins)
           /\ Cardinality(Unread(e)) \in Nat /\ Cardinality(Admins) \in Nat
           /\ Cardinality(Unread(e)) <= Cardinality(Admins) /\ 1 <= Cardinality(Admins)
<1>1. IsFiniteSet(Admins) /\ Admins # {}
  BY StoreAssumption
<1>2. Unread(e) \subseteq Admins
  BY DEF Unread
<1>3. IsFiniteSet(Unread(e)) /\ Cardinality(Unread(e)) <= Cardinality(Admins)
  BY <1>1, <1>2, FS_Subset
<1>4. Cardinality(Admins) \in Nat /\ Cardinality(Unread(e)) \in Nat /\ Cardinality(Admins) # 0
  BY <1>1, <1>3, FS_CardinalityType, FS_EmptySet
<1> QED
  BY <1>1, <1>3, <1>4

\* The upserts of e that found nothing, after a step of c.
LEMMA UnreadAfter ==
    ASSUME NEW c \in Admins, NEW call, NEW e,
           StoreKept, calls' = [calls EXCEPT ![c] = call],
           call.pc = "upsertSetting" /\ call.op.e = e => call.before # None
    PROVE  Unread(e)' = Unread(e) \ {c}
<1>1. \A d \in Admins : calls'[d] = IF d = c THEN call ELSE calls[d]
  BY DEF StoreKept
<1> QED
  BY <1>1 DEF Unread, Entity

\* A row whose trail and whose view stay: its history does.
LEMMA HistoryStays ==
    ASSUME NEW c \in Admins, NEW call, NEW e \in Entities,
           StoreKept, HistoryKept(e),
           calls' = [calls EXCEPT ![c] = call],
           trail'[e] = trail[e],
           rows[e] = None <=> rows'[e] = None,
           rows[e] # None => View(e, rows'[e]) = View(e, rows[e]),
           call.pc = "upsertSetting" /\ call.op.e = e /\ call.before = None => rows[e] = None
    PROVE  HistoryKept(e)'
<1>1. Valued(e)' = Valued(e) /\ Prevless(e)' = Prevless(e)
  BY DEF Valued, Prevless
<1>2. \A i, j : Follows(e, i, j)' <=> Follows(e, i, j)
  BY <1>1 DEF Follows
<1>3. \A i \in Valued(e) : rows[e] # None
  BY DEF HistoryKept, History
<1>4. History(e)'
  BY <1>1, <1>2, <1>3 DEF HistoryKept, History
<1>5. /\ Cardinality(Unread(e)) \in Nat /\ Cardinality(Admins) \in Nat
      /\ IsFiniteSet(Unread(e))
  BY UnreadFinite, Zenon
<1>6. Cardinality(Prevless(e)) \in Nat
  BY TrailFinite, FS_CardinalityType
<1>7. CASE call.pc = "upsertSetting" /\ call.op.e = e => call.before # None
  <2>1. Unread(e)' \subseteq Unread(e)
    BY <1>7, UnreadAfter
  <2>2. Cardinality(Unread(e)') \in Nat /\ Cardinality(Unread(e)') <= Cardinality(Unread(e))
    BY <1>5, <2>1, FS_Subset, FS_CardinalityType
  <2>3. Cardinality(Prevless(e)) + Cardinality(Unread(e)') <= Cardinality(Admins)
    BY <1>5, <1>6, <2>2 DEF HistoryKept
  <2> QED
    BY <1>1, <1>4, <2>3 DEF HistoryKept
<1>8. CASE rows[e] = None
  <2>1. Prevless(e) = {}
    BY <1>8 DEF HistoryKept, History, Prevless
  <2>2. Cardinality(Prevless(e)) = 0
    BY <2>1, FS_EmptySet
  <2>3. Unread(e)' \subseteq Admins
    BY DEF Unread
  <2>4. Cardinality(Unread(e)') \in Nat /\ Cardinality(Unread(e)') <= Cardinality(Admins)
    BY <2>3, StoreAssumption, FS_Subset, FS_CardinalityType
  <2>5. Cardinality(Prevless(e)) + Cardinality(Unread(e)') <= Cardinality(Admins)
    BY <1>5, <2>2, <2>4
  <2> QED
    BY <1>1, <1>4, <2>5 DEF HistoryKept
<1> QED
  BY <1>7, <1>8

\* One more event that shows nothing of the row.
LEMMA HistorySilent ==
    ASSUME NEW c \in Admins, NEW call, NEW e \in Entities, NEW prev, NEW id,
           StoreKept, HistoryKept(e),
           calls' = [calls EXCEPT ![c] = call], call.pc # "upsertSetting",
           trail' = [trail EXCEPT ![e] = Append(@, Event(prev, None, id))],
           rows[e] = None <=> rows'[e] = None,
           rows[e] # None => View(e, rows'[e]) = View(e, rows[e])
    PROVE  HistoryKept(e)'
<1>1. /\ Len(trail[e]) \in Nat
      /\ DOMAIN trail'[e] = DOMAIN trail[e] \cup {Len(trail[e]) + 1}
      /\ \A i \in DOMAIN trail[e] :
            trail'[e][i] = trail[e][i] /\ i \in Nat /\ i < Len(trail[e]) + 1
      /\ trail'[e][Len(trail[e]) + 1] = Event(prev, None, id)
  BY EventAppended, Zenon
<1>2. Valued(e)' = Valued(e)
  BY <1>1 DEF Valued, Event
<1>3. \A i \in Valued(e) : trail'[e][i] = trail[e][i]
  BY <1>1 DEF Valued
<1>4. Prevless(e)' = Prevless(e)
  BY <1>2, <1>3 DEF Prevless
<1>5. \A i, j : Follows(e, i, j)' <=> Follows(e, i, j)
  BY <1>2 DEF Follows
<1>6. \A i \in Valued(e) : rows[e] # None
  BY DEF HistoryKept, History
<1>7. History(e)'
  BY <1>2, <1>3, <1>4, <1>5, <1>6 DEF HistoryKept, History
<1>8. Unread(e)' \subseteq Unread(e)
  BY UnreadAfter
<1>9. /\ Cardinality(Unread(e)) \in Nat /\ Cardinality(Admins) \in Nat
      /\ IsFiniteSet(Unread(e))
  BY UnreadFinite, Zenon
<1>10. Cardinality(Unread(e)') \in Nat /\ Cardinality(Unread(e)') <= Cardinality(Unread(e))
  BY <1>8, <1>9, FS_Subset, FS_CardinalityType
<1>11. Cardinality(Prevless(e)) \in Nat
  BY TrailFinite, FS_CardinalityType
<1>12. Cardinality(Prevless(e)) + Cardinality(Unread(e)') <= Cardinality(Admins)
  BY <1>9, <1>10, <1>11 DEF HistoryKept
<1> QED
  BY <1>4, <1>7, <1>12 DEF HistoryKept

\* One more event that shows what the row has become: it continues the last one, or it is
\* the first, or it is an upsert that found nothing.
LEMMA HistoryGrows ==
    ASSUME NEW c \in Admins, NEW call, NEW e \in Entities, NEW prev, NEW next, NEW id,
           StoreKept, HistoryKept(e),
           calls' = [calls EXCEPT ![c] = call], call.pc # "upsertSetting",
           trail' = [trail EXCEPT ![e] = Append(@, Event(prev, next, id))],
           next # None, rows'[e] # None, next = View(e, rows'[e]),
           \/ rows[e] # None /\ prev # None /\ prev = View(e, rows[e])
           \/ rows[e] = None /\ prev = None /\ Unread(e) = {}
           \/ Info[e].table = "global_settings" /\ prev = None /\ c \in Unread(e)
    PROVE  HistoryKept(e)'
<1>0. /\ Len(trail[e]) \in Nat
      /\ DOMAIN trail'[e] = DOMAIN trail[e] \cup {Len(trail[e]) + 1}
      /\ \A i \in DOMAIN trail[e] :
            trail'[e][i] = trail[e][i] /\ i \in Nat /\ i < Len(trail[e]) + 1
      /\ trail'[e][Len(trail[e]) + 1] = Event(prev, next, id)
  BY EventAppended, Zenon
<1> PICK n : n = Len(trail[e]) + 1
  OBVIOUS
<1>1. /\ DOMAIN trail'[e] = DOMAIN trail[e] \cup {n} /\ n \in Nat
      /\ \A i \in DOMAIN trail[e] : trail'[e][i] = trail[e][i] /\ i \in Nat /\ i < n
      /\ trail'[e][n] = Event(prev, next, id)
  BY <1>0
<1>2. trail'[e][n].prev = prev /\ trail'[e][n].next = next
  BY <1>1 DEF Event
<1>3. Valued(e)' = Valued(e) \cup {n}
  BY <1>1, <1>2 DEF Valued
<1>4. \A i \in Valued(e) : trail'[e][i] = trail[e][i] /\ i \in Nat /\ i < n /\ ~(n <= i) /\ i # n
  BY <1>1 DEF Valued
<1>5. n \in Nat
  BY <1>1
<1>6. \A i, j \in Valued(e) : Follows(e, i, j)' => Follows(e, i, j)
  BY <1>3 DEF Follows
<1>7. \A i \in Valued(e) : Follows(e, i, n)' => \A k \in Valued(e) : k <= i
  BY <1>3, <1>4 DEF Follows
<1>8. \A i \in Valued(e)' : ~Follows(e, n, i)'
  BY <1>3, <1>4, <1>5 DEF Follows
<1>9. \A i, j \in Valued(e)' :
         Follows(e, i, j)' =>
            \/ trail'[e][j].prev = trail'[e][i].next
            \/ Info[e].table = "global_settings" /\ trail'[e][j].prev = None
  <2> SUFFICES ASSUME NEW i \in Valued(e)', NEW j \in Valued(e)', Follows(e, i, j)'
               PROVE  \/ trail'[e][j].prev = trail'[e][i].next
                      \/ Info[e].table = "global_settings" /\ trail'[e][j].prev = None
    OBVIOUS
  <2>1. i \in Valued(e)
    BY <1>3, <1>8
  <2>2. CASE j \in Valued(e)
    <3>1. trail'[e][i] = trail[e][i] /\ trail'[e][j] = trail[e][j]
      BY <1>4, <2>1, <2>2
    <3>2. Follows(e, i, j)
      BY <1>6, <2>1, <2>2
    <3> QED
      BY <2>1, <2>2, <3>1, <3>2 DEF HistoryKept, History
  <2>3. CASE j = n
    <3>1. rows[e] # None
      BY <2>1 DEF HistoryKept, History
    <3>2. trail[e][i].next = View(e, rows[e])
      BY <1>7, <2>1, <2>3 DEF HistoryKept, History
    <3>3. trail'[e][i] = trail[e][i]
      BY <1>4, <2>1
    <3> QED
      BY <1>2, <2>3, <3>1, <3>2, <3>3
  <2> QED
    BY <1>3, <2>2, <2>3
<1>10. \A i \in Valued(e)' : (\A j \in Valued(e)' : j <= i) => trail'[e][i].next = View(e, rows'[e])
  BY <1>2, <1>3, <1>4
<1>11. /\ Cardinality(Unread(e)) \in Nat /\ Cardinality(Admins) \in Nat /\ 1 <= Cardinality(Admins)
       /\ IsFiniteSet(Unread(e))
  BY UnreadFinite, Zenon
<1>12. IsFiniteSet(Prevless(e)) /\ Cardinality(Prevless(e)) \in Nat
  BY TrailFinite, FS_CardinalityType
<1>13. Unread(e)' = Unread(e) \ {c}
  BY UnreadAfter
<1>14. Cardinality(Unread(e)') \in Nat /\ Cardinality(Unread(e)') <= Cardinality(Unread(e))
  <2>1. Unread(e)' \subseteq Unread(e)
    BY <1>13
  <2> QED
    BY <1>11, <2>1, FS_Subset, FS_CardinalityType
<1>15. /\ Cardinality(Prevless(e)') \in Nat
       /\ Cardinality(Prevless(e)') + Cardinality(Unread(e)') <= Cardinality(Admins)
  <2>1. CASE prev # None
    <3>1. Prevless(e)' = Prevless(e)
      BY <1>2, <1>3, <1>4, <2>1 DEF Prevless
    <3> QED
      BY <1>11, <1>12, <1>14, <3>1 DEF HistoryKept
  <2>2. CASE prev = None
    <3>1. Prevless(e)' = Prevless(e) \cup {n} /\ n \notin Prevless(e)
      BY <1>2, <1>3, <1>4, <2>2 DEF Prevless
    <3>2. Cardinality(Prevless(e) \cup {n}) = Cardinality(Prevless(e)) + 1
      BY <1>12, <3>1, FS_AddElement
    <3>3. CASE rows[e] = None /\ Unread(e) = {}
      <4>1. Prevless(e) = {}
        BY <3>3 DEF HistoryKept, History, Prevless
      <4>2. Cardinality(Prevless(e)) = 0 /\ Cardinality(Unread(e)) = 0
        BY <3>3, <4>1, FS_EmptySet
      <4> QED
        BY <1>11, <1>12, <1>14, <3>1, <3>2, <4>2
    <3>4. CASE c \in Unread(e)
      <4>1. Cardinality(Unread(e) \ {c}) = Cardinality(Unread(e)) - 1
        BY <1>11, <3>4, FS_RemoveElement
      <4> QED
        BY <1>11, <1>12, <1>13, <1>14, <3>1, <3>2, <4>1 DEF HistoryKept
    <3> QED
      BY <2>2, <3>3, <3>4
  <2> QED
    BY <2>1, <2>2
<1>16. Cardinality(Prevless(e)') <= Cardinality(Admins)
  BY <1>11, <1>14, <1>15
<1>17. rows'[e] = None <=> Valued(e)' = {}
  BY <1>3
<1>18. History(e)'
  BY <1>9, <1>10, <1>16, <1>17 DEF History
<1> QED
  BY <1>15, <1>18 DEF HistoryKept

----
(* What the calls have written, and what they are answered. *)

LEMMA WrittenIs ==
    ASSUME NEW n, NEW p
    PROVE  p \in Written(n) <=>
             \E e \in Entities : \E i \in DOMAIN trail[e] : p = <<e, i>> /\ trail[e][i].call = n
BY DEF Written

LEMMA WrittenIsNext ==
    ASSUME NEW n, NEW p
    PROVE  p \in Written(n)' <=>
             \E e \in Entities : \E i \in DOMAIN trail'[e] : p = <<e, i>> /\ trail'[e][i].call = n
BY DEF Written

LEMMA WrittenGrows ==
    ASSUME NEW e \in Entities, NEW event, NEW id,
           StoreKept, trail' = [trail EXCEPT ![e] = Append(@, event)], event.call = id
    PROVE  /\ \A n : n # id => Written(n)' = Written(n)
           /\ \E p : p \notin Written(id) /\ Written(id)' = Written(id) \cup {p}
<1>0. /\ \A f \in Entities : f # e => trail'[f] = trail[f]
      /\ Len(trail[e]) \in Nat
      /\ DOMAIN trail'[e] = DOMAIN trail[e] \cup {Len(trail[e]) + 1}
      /\ \A i \in DOMAIN trail[e] :
            trail'[e][i] = trail[e][i] /\ i \in Nat /\ i < Len(trail[e]) + 1
      /\ trail'[e][Len(trail[e]) + 1] = event
  BY EventAppended, Zenon
<1> PICK k : k = Len(trail[e]) + 1
  OBVIOUS
<1>1. /\ \A f \in Entities : f # e => trail'[f] = trail[f]
      /\ DOMAIN trail'[e] = DOMAIN trail[e] \cup {k}
      /\ \A i \in DOMAIN trail[e] : trail'[e][i] = trail[e][i] /\ i # k
      /\ trail'[e][k].call = id
  BY <1>0
<1>2. \A n, p : p \in Written(n)' <=> p \in Written(n) \/ (n = id /\ p = <<e, k>>)
  <2> SUFFICES ASSUME NEW n, NEW p
               PROVE  p \in Written(n)' <=> p \in Written(n) \/ (n = id /\ p = <<e, k>>)
    OBVIOUS
  <2>1. (\E f \in Entities : \E i \in DOMAIN trail'[f] : p = <<f, i>> /\ trail'[f][i].call = n)
        <=> \/ \E f \in Entities : \E i \in DOMAIN trail[f] : p = <<f, i>> /\ trail[f][i].call = n
            \/ n = id /\ p = <<e, k>>
    BY <1>1
  <2>2. p \in Written(n) <=>
          \E f \in Entities : \E i \in DOMAIN trail[f] : p = <<f, i>> /\ trail[f][i].call = n
    BY WrittenIs
  <2>3. p \in Written(n)' <=>
          \E f \in Entities : \E i \in DOMAIN trail'[f] : p = <<f, i>> /\ trail'[f][i].call = n
    BY WrittenIsNext
  <2> QED
    BY <2>1, <2>2, <2>3
<1>3. <<e, k>> \notin Written(id)
  BY <1>1, WrittenIs
<1>4. Written(id)' = Written(id) \cup {<<e, k>>}
  BY <1>2
<1>5. ASSUME NEW n, n # id
      PROVE  Written(n)' = Written(n)
  <2>1. \A p : p \in Written(n)' <=> p \in Written(n)
    BY <1>2, <1>5
  <2> QED
    BY <2>1
<1> QED
  BY <1>3, <1>4, <1>5

\* The call k of c goes on, or is answered: nothing is said of any other one.
LEMMA AnswersFrame ==
    ASSUME NEW c \in Admins, NEW call, NEW k \in 1 .. MaxCalls,
           StoreKept, AnswersKept,
           \A d \in Admins : calls'[d] = IF d = c THEN call ELSE calls[d],
           \/ Busy(c) /\ k = calls[c].id /\ made' = made
           \/ ~Busy(c) /\ k = made + 1 /\ made' = made + 1,
           faults' \in {faults, faults + 1},
           \A n \in 1 .. MaxCalls : n # k => answers'[n] = answers[n] /\ Written(n)' = Written(n),
           call.pc # "idle" => call.id = k /\ Unanswered(call)',
           AnswerKept(k)'
    PROVE  AnswersKept'
<1>1. \A d \in Admins : calls'[d] = IF d = c THEN call ELSE calls[d]
  OBVIOUS
<1>2. /\ made \in 0 .. MaxCalls /\ MaxCalls \in Nat /\ faults \in Nat /\ made' \in 0 .. MaxCalls
      /\ made <= made' /\ faults <= faults' /\ made' \in Nat /\ faults' \in Nat
  BY StoreAssumption DEF AnswersKept, StoreKept
<1>3. ASSUME NEW d \in Admins, d # c, Busy(d)
      PROVE  calls[d].id # k /\ calls[d].id \in 1 .. made
  <2>1. calls[d].id \in 1 .. made
    BY <1>3 DEF AnswersKept, Unanswered
  <2> QED
    BY <1>2, <1>3, <2>1 DEF AnswersKept
<1>4. \A d \in Admins : Busy(d)' => (d = c /\ call.pc # "idle") \/ (d # c /\ Busy(d) /\ calls'[d] = calls[d])
  BY <1>1 DEF Busy
<1>5. \A a, b \in Admins : Busy(a)' /\ Busy(b)' /\ calls'[a].id = calls'[b].id => a = b
  BY <1>1, <1>3, <1>4 DEF AnswersKept
<1>6. ASSUME NEW n \in 1 .. MaxCalls, n # k
      PROVE  AnswerKept(n)'
  <2>1. answers'[n] = answers[n] /\ Written(n)' = Written(n) /\ AnswerKept(n)
    BY <1>6 DEF AnswersKept
  <2>2. Cardinality(Written(n)) \in Nat
    BY <2>1, FS_CardinalityType DEF AnswerKept
  <2> QED
    BY <1>2, <2>1, <2>2 DEF AnswerKept
<1>7. ASSUME NEW d \in Admins, Busy(d)'
      PROVE  Unanswered(calls[d])'
  <2>1. CASE d = c
    BY <1>1, <1>4, <1>7, <2>1 DEF Unanswered
  <2>2. CASE d # c
    <3>1. Busy(d) /\ calls'[d] = calls[d]
      BY <1>4, <1>7, <2>2
    <3>2. calls[d].id # k /\ calls[d].id \in 1 .. made
      BY <1>3, <2>2, <3>1
    <3>3. calls[d].id \in 1 .. MaxCalls /\ calls[d].id \in 1 .. made'
      BY <1>2, <3>2
    <3>4. /\ answers'[calls[d].id] = answers[calls[d].id]
          /\ Written(calls[d].id)' = Written(calls[d].id)
      <4> PICK m : m = calls[d].id
        OBVIOUS
      <4>1. answers'[m] = answers[m] /\ Written(m)' = Written(m)
        BY <3>2, <3>3
      <4>2. calls[d]' = calls[d]
        BY <3>1
      <4> QED
        BY <4>1, <4>2 DEF Written
    <3>5. Unanswered(calls[d]) /\ IsFiniteSet(Written(calls[d].id))
      BY <3>1, <3>3 DEF AnswersKept, AnswerKept
    <3>6. Cardinality(Written(calls[d].id)) \in Nat
      BY <3>5, FS_CardinalityType
    <3> QED
      BY <1>2, <3>1, <3>3, <3>4, <3>5, <3>6 DEF Unanswered
  <2> QED
    BY <2>1, <2>2
<1> QED
  BY <1>2, <1>5, <1>6, <1>7 DEF AnswersKept

----
(* The kinds of steps. *)

\* The steps that only follow another one.
Later == {"updateStudent", "updateAdminUser", "adjustCapacity", "upsertSetting", "closeOthers"}
         \cup Activating

\* The body was accepted.
LEMMA Begins ==
    ASSUME NEW c \in Admins, NEW call,
           IInv, world' = world, ~Busy(c), made < world.limit, made' = made + 1,
           calls' = [calls EXCEPT ![c] = call],
           OpKept(call), call.pc \notin Later, call.id = made + 1, call.held = {}, call.accepted = 0,
           UNCHANGED <<rows, trail, answers, faults>>
    PROVE  IInv'
<1> USE DEF IInv
<1>1. \A e \in Entities : RowKept(e)'
  BY DEF StoreKept, RowKept
<1>2. StoreKept'
  BY <1>1, StoreFrame DEF StoreKept
<1>3. ReadKept(call)'
  BY DEF ReadKept, Later, Activating
<1>4. LocksKept'
  BY <1>3, LocksFrame
<1>5. \A e \in Table("semesters") : Active(e)' => Active(e)
  BY DEF Active
<1>6. call.pc # "commitActivation" /\ call.pc # "upsertSetting"
  BY DEF Later, Activating
<1>7. SemestersKept'
  BY <1>5, <1>6, SemestersFrame
<1>8. TrailKept'
  BY <1>6, HistoryStays DEF TrailKept
<1>9. made + 1 \in 1 .. MaxCalls /\ made \in Nat
  BY StoreAssumption DEF StoreKept, AnswersKept
<1>10. \A n : Written(n)' = Written(n)
  BY DEF Written
<1> PICK k : k = made + 1
  OBVIOUS
<1>11. AnswerKept(k) /\ Written(k) = {} /\ answers[k].code = None
  BY <1>9 DEF AnswersKept, AnswerKept
<1>12. AnswerKept(k)'
  BY <1>9, <1>10, <1>11 DEF AnswerKept
<1>13. Unanswered(call)'
  <2>1. Written(call.id)' = {} /\ Cardinality({}) = 0 /\ faults' \in Nat
    BY <1>10, <1>11, FS_EmptySet DEF StoreKept
  <2>2. Cardinality(Written(call.id)') = 0
    BY <2>1
  <2>3. call.id \in 1 .. made' /\ answers'[call.id].code = None
    BY <1>9, <1>11
  <2> QED
    BY <2>1, <2>2, <2>3 DEF Unanswered
<1>14. \A d \in Admins : calls'[d] = IF d = c THEN call ELSE calls[d]
  BY DEF StoreKept
<1>15. AnswersKept'
  BY <1>9, <1>10, <1>12, <1>13, <1>14, AnswersFrame
<1> QED
  BY <1>2, <1>4, <1>7, <1>8, <1>15

\* The body was refused.
LEMMA Refuses400 ==
    ASSUME NEW c \in Admins,
           IInv, world' = world, ~Busy(c), made < world.limit, made' = made + 1,
           answers' = [answers EXCEPT ![made + 1] = [NoAnswer EXCEPT !.code = "400"]],
           UNCHANGED <<calls, rows, trail, faults>>
    PROVE  IInv'
<1> USE DEF IInv
<1>1. StoreKept'
  <2>1. ASSUME NEW d \in Admins
        PROVE  OpKept(calls[d])'
    <3>1. OpKept(calls'[d]) /\ world' = world
      BY DEF StoreKept
    <3> QED
      BY <3>1 DEF OpKept, OpAt
  <2>2. \A e \in Entities : RowKept(e)'
    BY DEF StoreKept, RowKept
  <2> QED
    BY <2>1, <2>2 DEF StoreKept
<1>2. LocksKept'
  BY DEF LocksKept, ReadKept
<1>3. SemestersKept'
  BY DEF SemestersKept, Active, Entity
<1>4. TrailKept'
  <2> SUFFICES ASSUME NEW e \in Entities, HistoryKept(e)
               PROVE  HistoryKept(e)'
    BY DEF TrailKept
  <2>1. Valued(e)' = Valued(e) /\ Prevless(e)' = Prevless(e) /\ Unread(e)' = Unread(e)
    BY DEF Valued, Prevless, Unread, Entity
  <2>2. \A i, j : Follows(e, i, j)' <=> Follows(e, i, j)
    BY <2>1 DEF Follows
  <2> QED
    BY <2>1, <2>2 DEF HistoryKept, History
<1>5. made + 1 \in 1 .. MaxCalls /\ made \in Nat
  BY StoreAssumption DEF StoreKept, AnswersKept
<1>6. \A n : Written(n)' = Written(n)
  BY DEF Written
<1> PICK k : k = made + 1
  OBVIOUS
<1>7. AnswerKept(k) /\ Written(k) = {}
  BY <1>5 DEF AnswersKept, AnswerKept
<1>8. answers'[k].code = "400" /\ \A n \in 1 .. MaxCalls : n # k => answers'[n] = answers[n]
  BY <1>5 DEF StoreKept, NoAnswer
<1>9. AnswerKept(k)'
  BY <1>5, <1>6, <1>7, <1>8 DEF AnswerKept
<1>10. /\ \A d \in Admins : calls'[d] = IF d = c THEN calls[c] ELSE calls[d]
       /\ calls[c].pc = "idle"
  BY DEF Busy
<1>11. AnswersKept'
  BY <1>5, <1>6, <1>8, <1>9, <1>10, AnswersFrame
<1> QED
  BY <1>1, <1>2, <1>3, <1>4, <1>11

\* A statement that locks or reads.
LEMMA Moves ==
    ASSUME NEW c \in Admins, NEW call,
           IInv, world' = world, Busy(c), calls[c].pc # "import",
           calls' = [calls EXCEPT ![c] = call],
           OpKept(call), ReadKept(call), call.id = calls[c].id, call.pc \notin {"idle", "import"},
           \A e \in call.held : Free(c, e),
           call.pc = "upsertSetting" /\ call.before = None => rows[call.op.e] = None,
           UNCHANGED <<rows, trail, answers, made, faults>>
    PROVE  StoreKept' /\ LocksKept' /\ TrailKept' /\ AnswersKept'
<1> USE DEF IInv
<1>1. \A e \in Entities : RowKept(e)'
  BY DEF StoreKept, RowKept
<1>2. StoreKept'
  BY <1>1, StoreFrame DEF StoreKept
<1>3. ReadKept(call)'
  BY DEF ReadKept
<1>4. LocksKept'
  BY <1>3, LocksFrame
<1>5. TrailKept'
  BY HistoryStays DEF TrailKept
<1>6. \A n : Written(n)' = Written(n)
  BY DEF Written
<1>7. Unanswered(calls[c]) /\ made \in 0 .. MaxCalls /\ MaxCalls \in Nat
  BY StoreAssumption DEF AnswersKept
<1> PICK k : k = calls[c].id
  OBVIOUS
<1>8. k \in 1 .. made /\ k \in 1 .. MaxCalls
  BY <1>7 DEF Unanswered
<1>9. AnswerKept(k)'
  <2>1. AnswerKept(k)
    BY <1>8 DEF AnswersKept
  <2> QED
    BY <1>6, <2>1 DEF AnswerKept
<1>10. Unanswered(call)'
  <2>1. call.id \in 1 .. made /\ answers[call.id].code = None /\ Written(call.id) = {}
    BY <1>7 DEF Unanswered
  <2>2. Written(call.id)' = {}
    BY <1>6, <2>1
  <2> QED
    BY <2>1, <2>2 DEF Unanswered
<1>11. \A d \in Admins : calls'[d] = IF d = c THEN call ELSE calls[d]
  BY DEF StoreKept
<1>12. AnswersKept'
  BY <1>6, <1>8, <1>9, <1>10, <1>11, AnswersFrame
<1> QED
  BY <1>2, <1>4, <1>5, <1>12

\* A call ends and has stored nothing, or, if it is an import, has said what it stored.
LEMMA Ends ==
    ASSUME NEW c \in Admins, NEW code,
           IInv, world' = world, Busy(c), Answer(c, code),
           code \notin {"200", "201"},
           code = "202" => calls[c].pc = "import",
           code \in {"400", "404", "409"} => calls[c].pc # "import",
           UNCHANGED <<rows, trail, made>>, faults' \in {faults, faults + 1}
    PROVE  IInv'
<1> USE DEF IInv
<1>1. \A e \in Entities : RowKept(e)'
  BY DEF StoreKept, RowKept
<1>2. calls' = [calls EXCEPT ![c] = Idle] /\ DOMAIN answers' = DOMAIN answers
  BY DEF Answer, StoreKept
<1>3. /\ OpKept(Idle) /\ Idle.held = {} /\ Idle.pc = "idle"
      /\ Idle.pc # "commitActivation" /\ Idle.pc # "upsertSetting"
  BY IdleCall
<1>4. ReadKept(Idle)'
  BY IdleCall DEF ReadKept, Activating
<1>5. StoreKept'
  BY <1>1, <1>2, <1>3, StoreFrame DEF StoreKept
<1>6. LocksKept'
  BY <1>2, <1>3, <1>4, LocksFrame
<1>7. \A e \in Table("semesters") : Active(e)' => Active(e)
  BY DEF Active
<1>8. SemestersKept'
  BY <1>2, <1>3, <1>7, SemestersFrame
<1>9. TrailKept'
  BY <1>2, <1>3, HistoryStays DEF TrailKept
<1>10. \A n : Written(n)' = Written(n)
  BY DEF Written
<1>11. Unanswered(calls[c]) /\ made \in 0 .. MaxCalls /\ MaxCalls \in Nat
  BY StoreAssumption DEF AnswersKept
<1> PICK k : k = calls[c].id
  OBVIOUS
<1>12. k \in 1 .. made /\ k \in 1 .. MaxCalls
  BY <1>11 DEF Unanswered
<1>13. /\ answers'[k].code = code /\ answers'[k].accepted = calls[c].accepted
       /\ \A n \in 1 .. MaxCalls : n # k => answers'[n] = answers[n]
  BY <1>12 DEF Answer, StoreKept
<1>14. AnswerKept(k)'
  <2>1. AnswerKept(k) /\ IsFiniteSet(Written(k))
    BY <1>12 DEF AnswersKept, AnswerKept
  <2>2. Cardinality(Written(k)) \in Nat
    BY <2>1, FS_CardinalityType
  <2>3. calls[c].pc # "import" => Written(k) = {}
    BY <1>11 DEF Unanswered
  <2>4. calls[c].pc = "import" => /\ calls[c].accepted \in Nat
                                  /\ calls[c].accepted <= Cardinality(Written(k))
                                  /\ Cardinality(Written(k)) <= calls[c].accepted + faults
    BY <1>11 DEF Unanswered
  <2>5. ~(k > made) /\ made' = made /\ faults \in Nat
    BY <1>11, <1>12 DEF StoreKept
  <2>6. code = "202" => /\ calls[c].accepted \in Nat
                        /\ calls[c].accepted <= Cardinality(Written(k))
                        /\ Cardinality(Written(k)) <= calls[c].accepted + faults'
    BY <2>2, <2>4, <2>5
  <2> QED
    BY <1>10, <1>13, <2>1, <2>3, <2>5, <2>6 DEF AnswerKept
<1>15. \A d \in Admins : calls'[d] = IF d = c THEN Idle ELSE calls[d]
  BY <1>2 DEF StoreKept
<1>16. AnswersKept'
  BY <1>3, <1>10, <1>12, <1>13, <1>14, <1>15, AnswersFrame
<1> QED
  BY <1>5, <1>6, <1>8, <1>9, <1>16

\* A call stores a change and its event, and ends.
LEMMA Writes ==
    ASSUME NEW c \in Admins, NEW e \in Entities, NEW prev, NEW next, NEW code,
           IInv, world' = world, Busy(c), calls[c].pc # "import",
           Write(c, e, prev, next), Answer(c, code), code \in {"200", "201", "500"},
           UNCHANGED made, faults' \in {faults, faults + 1},
           DOMAIN rows' = Entities, \A f \in Entities : RowKept(f)',
           \A f \in Entities : rows[f] # None => /\ rows'[f] # None
                                                 /\ rows'[f] = rows[f] \/ Free(c, f),
           \A f \in Entities : f # e /\ Info[f].table \in Audited => rows'[f] = rows[f],
           Info[e].table \in Audited => HistoryKept(e)',
           SemestersKept'
    PROVE  IInv'
<1> USE DEF IInv
<1>1. calls' = [calls EXCEPT ![c] = Idle] /\ DOMAIN answers' = DOMAIN answers
  BY DEF Answer, StoreKept
<1>2. /\ OpKept(Idle) /\ Idle.held = {} /\ Idle.pc = "idle"
      /\ Idle.pc # "commitActivation" /\ Idle.pc # "upsertSetting"
  BY IdleCall
<1>3. ReadKept(Idle)'
  BY IdleCall DEF ReadKept, Activating
<1> PICK k : k = calls[c].id
  OBVIOUS
<1>4. trail' = [trail EXCEPT ![e] = Append(@, Event(prev, next, k))]
  BY DEF Write
<1>5. /\ DOMAIN trail' = Entities
      /\ \A f \in Entities : f # e => trail'[f] = trail[f]
      /\ \A f \in Entities : trail'[f] \in Seq(Range(trail'[f]))
  BY <1>4, EventAppended
<1>6. StoreKept'
  BY <1>1, <1>2, <1>5, StoreFrame
<1>7. LocksKept'
  BY <1>1, <1>2, <1>3, LocksFrame
<1>8. \A f \in Entities : f # e /\ Info[f].table \in Audited => HistoryKept(f)'
  BY <1>1, <1>2, <1>5, HistoryStays DEF TrailKept
<1>9. TrailKept'
  BY <1>8 DEF TrailKept
<1>10. /\ \A n : n # k => Written(n)' = Written(n)
       /\ \E p : p \notin Written(k) /\ Written(k)' = Written(k) \cup {p}
  <2>1. StoreKept
    OBVIOUS
  <2>2. PICK event : event = Event(prev, next, k)
    OBVIOUS
  <2>3. trail' = [trail EXCEPT ![e] = Append(@, event)] /\ event.call = k
    BY <1>4, <2>2 DEF Event
  <2> QED
    BY <2>1, <2>3, WrittenGrows, Zenon
<1>11. Unanswered(calls[c]) /\ made \in 0 .. MaxCalls /\ MaxCalls \in Nat
  BY StoreAssumption DEF AnswersKept
<1>12. k \in 1 .. made /\ k \in 1 .. MaxCalls /\ ~(k > made)
  BY <1>11 DEF Unanswered
<1>13. /\ answers'[k].code = code
       /\ \A n \in 1 .. MaxCalls : n # k => answers'[n] = answers[n]
  BY <1>12 DEF Answer, StoreKept
<1>14. IsFiniteSet(Written(k)') /\ Cardinality(Written(k)') = 1
  <2>1. Written(k) = {}
    BY <1>11 DEF Unanswered
  <2>2. PICK p : Written(k)' = {p}
    BY <1>10, <2>1
  <2> QED
    BY <2>2, FS_Singleton
<1>15. AnswerKept(k)'
  BY <1>12, <1>13, <1>14 DEF AnswerKept
<1>16. \A d \in Admins : calls'[d] = IF d = c THEN Idle ELSE calls[d]
  BY <1>1 DEF StoreKept
<1>17. AnswersKept'
  BY <1>2, <1>10, <1>12, <1>13, <1>15, <1>16, AnswersFrame
<1> QED
  BY <1>6, <1>7, <1>9, <1>17

\* The rows that may be stored as e.
RowOf(e, row) ==
    \/ Info[e].table = "semesters" /\ row \in SemesterRow
    \/ /\ Info[e].table # "semesters" /\ row \in Row
       /\ Info[e].table \in {"global_settings", "offering_groups"} => row.a \in Values

LEMMA RowIsThere ==
    ASSUME NEW e, NEW row, RowOf(e, row)
    PROVE  row # None /\ (Info[e].table \in Audited => View(e, row) # None)
<1>1. row # None
  BY StoreAssumption DEF RowOf
<1>2. CASE Info[e].table \in {"students", "admin_users"}
  BY <1>1, <1>2 DEF View
<1>3. CASE Info[e].table \in {"global_settings", "offering_groups"}
  <2>1. row.a # None
    BY <1>3, StoreAssumption DEF RowOf
  <2>2. View(e, row) = row.a
    BY <1>3 DEF View
  <2> QED
    BY <1>1, <2>1, <2>2
<1> QED
  BY <1>1, <1>2, <1>3 DEF Audited

LEMMA RowStored ==
    ASSUME NEW e \in Entities, NEW row,
           StoreKept, RowOf(e, row), rows' = [rows EXCEPT ![e] = row]
    PROVE  /\ DOMAIN rows' = Entities /\ \A f \in Entities : RowKept(f)'
           /\ \A f \in Entities : f # e => rows'[f] = rows[f]
           /\ rows'[e] = row /\ row # None
<1>1. /\ DOMAIN rows' = Entities /\ rows'[e] = row
      /\ \A f \in Entities : f # e => rows'[f] = rows[f]
  BY DEF StoreKept
<1>2. \A f \in Entities : f # e => RowKept(f)'
  BY <1>1 DEF RowKept, StoreKept
<1>3. RowKept(e)'
  BY <1>1 DEF RowKept, RowOf
<1> QED
  BY <1>1, <1>2, <1>3, RowIsThere

LEMMA NewRowOf ==
    ASSUME NEW e
    PROVE  RowOf(e, NewRow(e))
BY StoreAssumption DEF RowOf, NewRow, Row, SemesterRow, Cells, Statuses

LEMMA StoredRowOf ==
    ASSUME NEW e \in Entities, StoreKept, rows[e] # None
    PROVE  RowOf(e, rows[e])
BY DEF RowOf, StoreKept, RowKept

LEMMA NothingUnread ==
    ASSUME NEW e, StoreKept, Info[e].table # "global_settings"
    PROVE  Unread(e) = {}
BY DEF Unread, Entity, StoreKept, OpKept, OpAt, OnSettings

\* A key that is taken by the row itself: what the unique constraint lets in is new.
LEMMA NewMeansAbsent ==
    ASSUME NEW e \in Entities, ~Conflict(e)
    PROVE  rows[e] = None
<1>1. Clash(e, e)
  BY StoreAssumption DEF Clash
<1> QED
  BY <1>1 DEF Conflict

----
(* The rows of an import. *)

LEMMA NextRowIs ==
    ASSUME NEW call, NEW stored \in BOOLEAN, OpKept(call), call.pc = "import", call.op.list # << >>
    PROVE  /\ OpKept(NextRow(call, stored))
           /\ NextRow(call, stored).pc = "import" /\ NextRow(call, stored).id = call.id
           /\ NextRow(call, stored).held = call.held
           /\ NextRow(call, stored).accepted = IF stored THEN call.accepted + 1 ELSE call.accepted
           /\ Head(call.op.list).e \in Entities
           /\ Info[Head(call.op.list).e].table = "students"
<1> DEFINE next == NextRow(call, stored)
<1>1. DOMAIN call = {"pc", "id", "op", "held", "before", "closing", "accepted", "rejected"}
  BY DEF OpKept, OpAt, Idle
<1>2. /\ DOMAIN next = DOMAIN call
      /\ next.pc = "import" /\ next.id = call.id /\ next.held = call.held
      /\ next.accepted = IF stored THEN call.accepted + 1 ELSE call.accepted
      /\ next.op = [list |-> Tail(call.op.list)]
  BY <1>1 DEF NextRow
<1>3. /\ call.op.list \in Seq([e : Entities, valid : BOOLEAN])
      /\ \A i \in DOMAIN call.op.list : Info[call.op.list[i].e].table = "students"
  BY DEF OpKept, OpAt
<1> PICK list : list = call.op.list
  OBVIOUS
<1>4. list \in Seq([e : Entities, valid : BOOLEAN]) /\ list # << >>
  BY <1>3
<1>5. Len(list) \in Nat /\ 1 \in DOMAIN list /\ Head(list) = list[1] /\ DOMAIN list = 1 .. Len(list)
  BY <1>4
<1>6. list[1].e \in Entities /\ Info[list[1].e].table = "students"
  <2>1. list[1] \in [e : Entities, valid : BOOLEAN]
    <3>1. PICK R : R = [e : Entities, valid : BOOLEAN]
      OBVIOUS
    <3>2. list \in Seq(R)
      BY <1>4, <3>1
    <3>3. list[1] \in R
      BY <1>5, <3>2
    <3> QED
      BY <3>1, <3>3
  <2>2. Info[list[1].e].table = "students"
    BY <1>3, <1>5
  <2> QED
    BY <2>1, <2>2
<1>7. /\ Tail(list) \in Seq([e : Entities, valid : BOOLEAN])
      /\ \A i \in DOMAIN Tail(list) : i + 1 \in DOMAIN list /\ Tail(list)[i] = list[i + 1]
  BY <1>4, HeadTailProperties
<1>8. \A i \in DOMAIN Tail(list) : Info[Tail(list)[i].e].table = "students"
  BY <1>3, <1>7
<1>9. next.op.list = Tail(list)
  BY <1>2
<1> HIDE DEF next
<1>10. OpKept(next)
  BY <1>1, <1>2, <1>7, <1>8, <1>9
     DEF OpKept, OpAt, OnSemesters, OnAccounts, OnGroups, OnSettings, OnOthers, Activating
<1> QED
  BY <1>2, <1>5, <1>6, <1>10 DEF next

\* A row of an import, stored and counted, stored and lost, or not stored.
LEMMA Imports1 ==
    ASSUME NEW c \in Admins, NEW e, NEW counted \in BOOLEAN,
           IInv, world' = world, calls[c].pc = "import", calls[c].op.list # << >>,
           e = Head(calls[c].op.list).e,
           calls' = [calls EXCEPT ![c] = NextRow(calls[c], counted)],
           \/ UNCHANGED <<rows, trail>> /\ ~counted /\ faults' \in {faults, faults + 1}
           \/ /\ ~Conflict(e)
              /\ rows' = [rows EXCEPT ![e] = NewRow(e)]
              /\ Write(c, e, None, View(e, NewRow(e)))
              /\ faults' = IF counted THEN faults ELSE faults + 1,
           UNCHANGED <<answers, made>>
    PROVE  IInv'
<1> USE DEF IInv
<1> PICK call : call = NextRow(calls[c], counted)
  OBVIOUS
<1>1. OpKept(calls[c]) /\ Busy(c)
  BY DEF StoreKept, Busy
<1>2. /\ OpKept(call)
      /\ call.pc = "import" /\ call.id = calls[c].id /\ call.held = calls[c].held
      /\ call.accepted = IF counted THEN calls[c].accepted + 1 ELSE calls[c].accepted
      /\ e \in Entities /\ Info[e].table = "students"
  BY <1>1, NextRowIs
<1>3. calls' = [calls EXCEPT ![c] = call]
  OBVIOUS
<1>4. call.pc # "commitActivation" /\ call.pc # "upsertSetting"
  BY <1>2
<1>5. faults' \in {faults, faults + 1} /\ faults \in Nat
  BY DEF StoreKept
<1> PICK k : k = calls[c].id
  OBVIOUS
<1>6. Unanswered(calls[c]) /\ made \in 0 .. MaxCalls /\ MaxCalls \in Nat
  BY <1>1, StoreAssumption DEF AnswersKept
<1>7. /\ k \in 1 .. made /\ k \in 1 .. MaxCalls /\ ~(k > made) /\ answers[k].code = None
      /\ calls[c].accepted \in Nat
      /\ calls[c].accepted <= Cardinality(Written(k))
      /\ Cardinality(Written(k)) <= calls[c].accepted + faults
  BY <1>6 DEF Unanswered
<1>8. IsFiniteSet(Written(k)) /\ Cardinality(Written(k)) \in Nat
  BY <1>7, FS_CardinalityType DEF AnswersKept, AnswerKept
<1>9. \A f \in call.held : Free(c, f) /\ f \in Entities /\ rows[f] # None
  BY <1>2 DEF LocksKept, ReadKept, Free
<1>10. \A d \in Admins : calls'[d] = IF d = c THEN call ELSE calls[d]
  BY <1>3 DEF StoreKept
<1>11. /\ DOMAIN rows' = Entities /\ \A f \in Entities : RowKept(f)'
       /\ \A f \in Entities : rows[f] # None => rows'[f] = rows[f]
       /\ \A f \in Entities : f # e => rows'[f] = rows[f]
       /\ DOMAIN trail' = Entities
       /\ \A f \in Entities : f # e => trail'[f] = trail[f]
       /\ \A f \in Entities : trail'[f] \in Seq(Range(trail'[f]))
       /\ HistoryKept(e)'
       /\ \A n : n # k => Written(n)' = Written(n)
       /\ IsFiniteSet(Written(k)') /\ Cardinality(Written(k)') \in Nat
       /\ call.accepted \in Nat /\ call.accepted <= Cardinality(Written(k)')
       /\ Cardinality(Written(k)') <= call.accepted + faults'
  <2>1. CASE UNCHANGED <<rows, trail>> /\ ~counted
    <3>1. \A f \in Entities : RowKept(f)'
      BY <2>1 DEF StoreKept, RowKept
    <3>2. HistoryKept(e)
      BY <1>2 DEF TrailKept, Audited
    <3>3. HistoryKept(e)'
      BY <1>2, <1>3, <1>4, <2>1, <3>2, HistoryStays
    <3>4. \A n : Written(n)' = Written(n)
      BY <2>1 DEF Written
    <3> QED
      BY <1>2, <1>5, <1>7, <1>8, <2>1, <3>1, <3>3, <3>4 DEF StoreKept
  <2>2. CASE /\ ~Conflict(e)
             /\ rows' = [rows EXCEPT ![e] = NewRow(e)]
             /\ Write(c, e, None, View(e, NewRow(e)))
             /\ faults' = IF counted THEN faults ELSE faults + 1
    <3>1. rows[e] = None
      BY <1>2, <2>2, NewMeansAbsent
    <3>2. RowOf(e, NewRow(e)) /\ View(e, NewRow(e)) # None
      BY <1>2, NewRowOf, RowIsThere DEF Audited
    <3>3. /\ DOMAIN rows' = Entities /\ \A f \in Entities : RowKept(f)'
          /\ \A f \in Entities : f # e => rows'[f] = rows[f]
          /\ rows'[e] = NewRow(e) /\ NewRow(e) # None
      <4>1. rows' = [rows EXCEPT ![e] = NewRow(e)]
        BY <2>2
      <4> QED
        BY <1>2, <3>2, <4>1, RowStored
    <3>4. trail' = [trail EXCEPT ![e] = Append(@, Event(None, View(e, NewRow(e)), k))]
      BY <2>2 DEF Write
    <3>5. PICK event : event = Event(None, View(e, NewRow(e)), k)
      OBVIOUS
    <3>6. trail' = [trail EXCEPT ![e] = Append(@, event)] /\ event.call = k /\ StoreKept
      BY <3>4, <3>5 DEF Event
    <3>7. /\ DOMAIN trail' = Entities
          /\ \A f \in Entities : f # e => trail'[f] = trail[f]
          /\ \A f \in Entities : trail'[f] \in Seq(Range(trail'[f]))
      BY <1>2, <3>6, EventAppended, Zenon
    <3>8. HistoryKept(e) /\ Unread(e) = {}
      BY <1>2, NothingUnread DEF TrailKept, Audited
    <3>9. HistoryKept(e)'
      BY <1>2, <1>3, <1>4, <3>1, <3>2, <3>3, <3>4, <3>8, HistoryGrows
    <3>10. /\ \A n : n # k => Written(n)' = Written(n)
           /\ \E p : p \notin Written(k) /\ Written(k)' = Written(k) \cup {p}
      <4>1. e \in Entities
        BY <1>2
      <4> QED
        BY <3>6, <4>1, WrittenGrows, Zenon
    <3>11. PICK p : p \notin Written(k) /\ Written(k)' = Written(k) \cup {p}
      BY <3>10
    <3>12. IsFiniteSet(Written(k)') /\ Cardinality(Written(k)') = Cardinality(Written(k)) + 1
      BY <1>8, <3>11, FS_AddElement
    <3>13. /\ Cardinality(Written(k)') \in Nat
           /\ call.accepted \in Nat /\ call.accepted <= Cardinality(Written(k)')
           /\ Cardinality(Written(k)') <= call.accepted + faults'
      BY <1>2, <1>5, <1>7, <1>8, <2>2, <3>12
    <3> QED
      BY <3>1, <3>3, <3>7, <3>9, <3>10, <3>12, <3>13
  <2> QED
    BY <2>1, <2>2
<1>12. StoreKept'
  BY <1>2, <1>3, <1>5, <1>11, StoreFrame
<1>13. ReadKept(call)'
  BY <1>2, <1>9, <1>11 DEF ReadKept, Activating
<1>14. LocksKept'
  BY <1>3, <1>9, <1>11, <1>13, LocksFrame
<1>15. \A f \in Table("semesters") : Active(f)' => Active(f)
  BY <1>2, <1>11, StoreAssumption DEF Active, StoreKept
<1>16. SemestersKept'
  BY <1>3, <1>4, <1>15, SemestersFrame
<1>17. \A f \in Entities : f # e /\ Info[f].table \in Audited => HistoryKept(f)'
  <2> SUFFICES ASSUME NEW f \in Entities, f # e, Info[f].table \in Audited
               PROVE  HistoryKept(f)'
    OBVIOUS
  <2>1. HistoryKept(f)
    BY DEF TrailKept
  <2>2. trail'[f] = trail[f] /\ rows'[f] = rows[f]
    BY <1>11
  <2> QED
    BY <1>3, <1>4, <2>1, <2>2, HistoryStays
<1>18. TrailKept'
  BY <1>11, <1>17 DEF TrailKept
<1>19. AnswerKept(k)'
  BY <1>7, <1>11, StoreAssumption DEF AnswerKept, Codes
<1>20. Unanswered(call)'
  <2>1. call.id = k
    BY <1>2
  <2>2. /\ Cardinality(Written(call.id)') \in Nat
        /\ call.accepted <= Cardinality(Written(call.id)')
        /\ Cardinality(Written(call.id)') <= call.accepted + faults'
    BY <1>11, <2>1
  <2> QED
    BY <1>2, <1>7, <1>11, <2>1, <2>2 DEF Unanswered
<1>21. AnswersKept'
  BY <1>1, <1>5, <1>7, <1>10, <1>11, <1>19, <1>20, <1>2, AnswersFrame
<1> QED
  BY <1>12, <1>14, <1>16, <1>18, <1>21

----
(* The operations of the store. *)

Creating == {"createSemester", "createStudent", "createRecord", "createAdminUser",
             "createElective", "createPrerequisite", "createOffering", "createOfferingPrereq",
             "createGroup", "createWindow"}

LEMMA Receives ==
    ASSUME NEW c \in Admins, NEW pc, NEW op, NEW valid,
           IInv, world' = world, Receive(c, pc, op, valid),
           OpAt(pc, op), pc \notin Later
    PROVE  IInv'
<1> PICK call : call = [Idle EXCEPT !.pc = pc, !.id = made + 1, !.op = op]
  OBVIOUS
<1>1. /\ DOMAIN call = DOMAIN Idle /\ call.pc = pc /\ call.op = op /\ call.id = made + 1
      /\ call.held = {} /\ call.accepted = 0
  BY DEF Idle
<1>2. OpKept(call)
  BY <1>1 DEF OpKept
<1>3. /\ ~Busy(c) /\ made < world.limit /\ made' = made + 1
      /\ rows' = rows /\ trail' = trail /\ faults' = faults
  BY DEF Receive, Busy
<1>4. CASE valid
  <2>1. calls' = [calls EXCEPT ![c] = call] /\ answers' = answers
    BY <1>4 DEF Receive
  <2> QED
    BY <1>1, <1>2, <1>3, <2>1, Begins
<1>5. CASE ~valid
  <2>1. /\ answers' = [answers EXCEPT ![made + 1] = [NoAnswer EXCEPT !.code = "400"]]
        /\ calls' = calls
    BY <1>5 DEF Receive
  <2> QED
    BY <1>3, <2>1, Refuses400
<1> QED
  BY <1>4, <1>5

LEMMA Refuses ==
    ASSUME NEW c \in Admins, NEW code,
           IInv, world' = world, Busy(c), Refuse(c, code),
           code \in {"404", "409", "500"}, calls[c].pc # "import"
    PROVE  IInv'
<1>1. /\ Answer(c, code) /\ code \notin {"200", "201"} /\ code # "202"
      /\ UNCHANGED <<rows, trail, made>> /\ faults' \in {faults, faults + 1}
  BY DEF Refuse
<1> QED
  BY <1>1, Ends

LEMMA Fails ==
    ASSUME NEW c \in Admins, IInv, world' = world, Fail(c)
    PROVE  IInv'
<1>1. PICK code \in {"500", "lost"} : Answer(c, code)
  BY DEF Fail
<1>2. /\ code \notin {"200", "201"} /\ code # "202" /\ code \notin {"400", "404", "409"}
      /\ UNCHANGED <<rows, trail, made>> /\ faults' \in {faults, faults + 1} /\ Busy(c)
  BY DEF Fail, Fault, Busy
<1> QED
  BY <1>1, <1>2, Ends

\* A change of one row that is not a semester becoming ACTIVE, its event and the answer.
LEMMA WritesOne ==
    ASSUME NEW c \in Admins, NEW e \in Entities, NEW row, NEW prev, NEW next, NEW code,
           IInv, world' = world, Busy(c), calls[c].pc # "import",
           rows' = [rows EXCEPT ![e] = row], Write(c, e, prev, next), Done(c, code),
           code \in {"200", "201"},
           RowOf(e, row), rows[e] = None \/ Free(c, e),
           Info[e].table = "semesters" => row.a # "ACTIVE",
           Info[e].table \in Audited => HistoryKept(e)'
    PROVE  IInv'
<1>1. StoreKept /\ SemestersKept
  BY DEF IInv
<1>2. /\ DOMAIN rows' = Entities /\ \A f \in Entities : RowKept(f)'
      /\ \A f \in Entities : f # e => rows'[f] = rows[f]
      /\ rows'[e] = row /\ row # None
  BY <1>1, RowStored
<1>3. \A f \in Entities : rows[f] # None => /\ rows'[f] # None
                                            /\ rows'[f] = rows[f] \/ Free(c, f)
  BY <1>2
<1>4. PICK code2 \in {"200", "201", "500"} : Answer(c, code2)
  BY DEF Done
<1>5. made' = made /\ faults' \in {faults, faults + 1}
  BY DEF Done, Fault
<1>6. calls' = [calls EXCEPT ![c] = Idle]
  BY <1>4 DEF Answer
<1>7. \A f \in Table("semesters") : Active(f)' => Active(f)
  BY <1>1, <1>2, StoreAssumption DEF Active, StoreKept
<1>8. Idle.pc # "commitActivation"
  BY IdleCall
<1>9. SemestersKept'
  BY <1>1, <1>6, <1>7, <1>8, SemestersFrame
<1> QED
  BY <1>2, <1>3, <1>4, <1>5, <1>9, Writes

LEMMA EntityOf ==
    ASSUME NEW c \in Admins, StoreKept, calls[c].pc \notin {"idle", "import"}
    PROVE  Entity(c) \in Entities /\ Entity(c) \in world.scope /\ OpAt(calls[c].pc, calls[c].op)
BY StoreAssumption DEF StoreKept, OpKept, OpAt, Entity

LEMMA Inserts ==
    ASSUME NEW c \in Admins, NEW conflict \in {"404", "409", "500"},
           NEW dangling \in {"404", "409", "500"},
           IInv, world' = world, calls[c].pc \in Creating, Insert(c, conflict, dangling)
    PROVE  IInv'
<1> PICK e : e = Entity(c)
  OBVIOUS
<1>1. StoreKept /\ TrailKept /\ Busy(c) /\ calls[c].pc \notin {"idle", "import"}
  BY DEF IInv, Busy, Creating
<1>2. e \in Entities /\ Info[e].table # "global_settings"
  BY <1>1, EntityOf
     DEF OpAt, Creating, OnSemesters, OnAccounts, OnGroups, OnOthers, Entity, Audited
<1>3. CASE Refuse(c, conflict) \/ Refuse(c, dangling)
  BY <1>1, <1>3, Refuses
<1>4. CASE /\ ~Conflict(e)
           /\ rows' = [rows EXCEPT ![e] = NewRow(e)]
           /\ Write(c, e, None, View(e, NewRow(e)))
           /\ Done(c, "201")
  <2>1. rows[e] = None /\ RowOf(e, NewRow(e)) /\ Unread(e) = {}
    BY <1>1, <1>2, <1>4, NewMeansAbsent, NewRowOf, NothingUnread
  <2>2. /\ NewRow(e) # None /\ rows'[e] = NewRow(e)
        /\ Info[e].table \in Audited => View(e, NewRow(e)) # None
    BY <1>1, <1>2, <1>4, <2>1, RowIsThere DEF StoreKept
  <2>3. Info[e].table = "semesters" => NewRow(e).a # "ACTIVE"
    BY DEF NewRow
  <2>4. calls' = [calls EXCEPT ![c] = Idle] /\ Idle.pc # "upsertSetting"
    BY <1>4, IdleCall DEF Done, Answer
  <2>5. trail' = [trail EXCEPT ![e] = Append(@, Event(None, View(e, NewRow(e)), calls[c].id))]
    BY <1>4 DEF Write
  <2>6. PICK id, next : id = calls[c].id /\ next = View(e, NewRow(e))
    OBVIOUS
  <2>7. trail' = [trail EXCEPT ![e] = Append(@, Event(None, next, id))] /\ next = View(e, rows'[e])
    BY <2>2, <2>5, <2>6
  <2>8. Info[e].table \in Audited => HistoryKept(e)'
    BY <1>1, <1>2, <2>1, <2>2, <2>4, <2>6, <2>7, HistoryGrows DEF TrailKept
  <2> QED
    BY <1>1, <1>2, <1>4, <2>1, <2>3, <2>8, WritesOne
<1> QED
  BY <1>3, <1>4 DEF Insert

LEMMA Locks ==
    ASSUME NEW c \in Admins, NEW pc, NEW missing \in {"404", "500"},
           IInv, world' = world, LockRow(c, pc, missing),
           calls[c].pc \notin {"idle", "import"},
           pc \in {"updateStudent", "updateAdminUser", "adjustCapacity"},
           OpAt(pc, calls[c].op)
    PROVE  IInv'
<1> PICK e : e = Entity(c)
  OBVIOUS
<1>1. StoreKept /\ SemestersKept /\ Busy(c) /\ e \in Entities /\ Free(c, e)
  BY EntityOf DEF IInv, Busy, LockRow
<1>2. CASE Refuse(c, missing)
  BY <1>1, <1>2, Refuses
<1>3. CASE /\ rows[e] # None
           /\ Step(c, pc, [calls[c] EXCEPT !.before = rows[Entity(c)], !.held = {Entity(c)}])
           /\ UNCHANGED <<rows, trail, answers, made, faults>>
  <2>1. DOMAIN calls[c] = {"pc", "id", "op", "held", "before", "closing", "accepted", "rejected"}
    BY <1>1 DEF StoreKept, OpKept, Idle
  <2>2. PICK call : call = [[calls[c] EXCEPT !.before = rows[e], !.held = {e}] EXCEPT !.pc = pc]
    OBVIOUS
  <2>3. /\ DOMAIN call = DOMAIN calls[c] /\ call.pc = pc /\ call.op = calls[c].op
        /\ call.held = {e} /\ call.before = rows[e] /\ call.id = calls[c].id
    BY <2>1, <2>2
  <2>4. calls' = [calls EXCEPT ![c] = call]
    BY <1>3, <2>2 DEF Step
  <2>5. OpKept(call)
    BY <1>1, <2>3 DEF OpKept, StoreKept
  <2>6. ReadKept(call)
    BY <1>1, <1>3, <2>3 DEF ReadKept, Activating, Entity
  <2>7. call.pc \notin {"idle", "import"} /\ call.pc # "upsertSetting" /\ call.pc # "commitActivation"
    BY <2>3
  <2>8. \A f \in Table("semesters") : Active(f)' => Active(f)
    BY <1>3 DEF Active
  <2>9. StoreKept' /\ LocksKept' /\ TrailKept' /\ AnswersKept'
    BY <1>1, <1>3, <2>3, <2>4, <2>5, <2>6, <2>7, Moves
  <2>10. SemestersKept'
    BY <1>1, <2>4, <2>7, <2>8, SemestersFrame
  <2> QED
    BY <2>9, <2>10 DEF IInv
<1> QED
  BY <1>2, <1>3 DEF LockRow

\* A row that was locked and read is written, with what was read as the previous value.
LEMMA WritesBack ==
    ASSUME NEW c \in Admins, NEW after,
           IInv, world' = world, WriteBack(c, after),
           calls[c].pc \in {"updateStudent", "updateAdminUser", "adjustCapacity"},
           RowOf(Entity(c), after)
    PROVE  IInv'
<1> PICK e : e = Entity(c)
  OBVIOUS
<1>1. StoreKept /\ TrailKept /\ Busy(c) /\ calls[c].pc # "import" /\ e \in Entities
  BY EntityOf DEF IInv, Busy
<1>2. Info[e].table \in Audited /\ Info[e].table # "semesters"
  BY EntityOf DEF IInv, OpAt, OnAccounts, OnGroups, Audited, Entity
<1>3. rows[e] # None /\ calls[c].before = rows[e]
  BY DEF IInv, LocksKept, ReadKept, Entity
<1>4. RowOf(e, rows[e])
  BY <1>1, <1>3, StoredRowOf
<1>5. PICK prev, next : prev = View(e, rows[e]) /\ next = View(e, after)
  OBVIOUS
<1>6. prev # None /\ next # None /\ after # None
  BY <1>2, <1>4, <1>5, RowIsThere
<1>7. /\ Free(c, e) /\ rows' = [rows EXCEPT ![e] = after]
      /\ Write(c, e, prev, next) /\ Done(c, "200")
  BY <1>3, <1>5 DEF WriteBack
<1>8. PICK id : id = calls[c].id
  OBVIOUS
<1>9. trail' = [trail EXCEPT ![e] = Append(@, Event(prev, next, id))]
  BY <1>7, <1>8 DEF Write
<1>10. calls' = [calls EXCEPT ![c] = Idle] /\ Idle.pc # "upsertSetting"
  BY <1>7, IdleCall DEF Done, Answer
<1>11. rows'[e] = after
  BY <1>1, <1>7 DEF StoreKept
<1>12. HistoryKept(e)
  BY <1>1, <1>2 DEF TrailKept
<1>13. HistoryKept(e)'
  BY <1>1, <1>3, <1>5, <1>6, <1>9, <1>10, <1>11, <1>12, HistoryGrows
<1> QED
  BY <1>1, <1>2, <1>7, <1>13, WritesOne

LEMMA PatchedRow ==
    ASSUME NEW row \in Row, NEW p \in Row
    PROVE  Patched(row, p) \in Row
BY DEF Patched, Row

\* A row that was not read is updated; of a group that is not its capacity.
LEMMA UpdatesInPlace ==
    ASSUME NEW c \in Admins, NEW check \in BOOLEAN,
           IInv, world' = world, UpdateInPlace(c, calls[c].op.patch, check),
           calls[c].pc \in {"updateElective", "updateWindow", "updateGroup"}
    PROVE  IInv'
<1> PICK e : e = Entity(c)
  OBVIOUS
<1> PICK p : p = calls[c].op.patch
  OBVIOUS
<1>1. StoreKept /\ TrailKept /\ Busy(c) /\ calls[c].pc # "import" /\ e \in Entities
  BY EntityOf DEF IInv, Busy
<1>2. /\ p \in Row /\ Info[e].table # "semesters"
      /\ Info[e].table \in Audited => Info[e].table = "offering_groups" /\ p.a = None
  BY EntityOf DEF IInv, OpAt, OnOthers, OnGroups, Audited, Entity
<1>3. CASE Refuse(c, "404") \/ Refuse(c, "500")
  BY <1>1, <1>3, Refuses
<1>4. CASE /\ rows[e] # None /\ Free(c, e)
           /\ rows' = [rows EXCEPT ![e] = Patched(rows[e], p)]
           /\ Write(c, e, None, None)
           /\ Done(c, "200")
  <2>1. RowOf(e, rows[e])
    BY <1>1, <1>4, StoredRowOf
  <2>2. Patched(rows[e], p) \in Row
    BY <1>2, <2>1, PatchedRow DEF RowOf
  <2>3. p.a = None => Patched(rows[e], p).a = rows[e].a
    BY DEF Patched
  <2>4. Info[e].table # "global_settings"
    BY <1>2 DEF Audited
  <2>5. RowOf(e, Patched(rows[e], p))
    BY <1>2, <2>1, <2>2, <2>3, <2>4 DEF RowOf, Audited
  <2>6. PICK row : row = Patched(rows[e], p)
    OBVIOUS
  <2>7. rows' = [rows EXCEPT ![e] = row] /\ rows'[e] = row /\ row # None
    BY <1>1, <1>4, <2>5, <2>6, RowIsThere DEF StoreKept
  <2>8. Info[e].table \in Audited => View(e, rows'[e]) = View(e, rows[e])
    BY <1>2, <2>3, <2>6, <2>7 DEF View
  <2>9. PICK id : id = calls[c].id
    OBVIOUS
  <2>10. trail' = [trail EXCEPT ![e] = Append(@, Event(None, None, id))]
    BY <1>4, <2>9 DEF Write
  <2>11. calls' = [calls EXCEPT ![c] = Idle] /\ Idle.pc # "upsertSetting"
    BY <1>4, IdleCall DEF Done, Answer
  <2>12. Info[e].table \in Audited => HistoryKept(e)'
    BY <1>1, <1>4, <2>7, <2>8, <2>10, <2>11, HistorySilent DEF TrailKept
  <2> QED
    BY <1>1, <1>2, <1>4, <2>5, <2>6, <2>7, <2>12, WritesOne
<1> QED
  BY <1>3, <1>4 DEF UpdateInPlace

----
(* Settings: the row that is read may not be there yet. *)

LEMMA ReadsSetting ==
    ASSUME NEW c \in Admins, IInv, world' = world, ReadSetting(c)
    PROVE  IInv'
<1> PICK e : e = Entity(c)
  OBVIOUS
<1>1. /\ StoreKept /\ SemestersKept /\ Busy(c) /\ calls[c].pc = "readSetting" /\ e \in Entities
      /\ Free(c, e) /\ OpAt("readSetting", calls[c].op)
  BY EntityOf DEF IInv, Busy, ReadSetting
<1>2. DOMAIN calls[c] = {"pc", "id", "op", "held", "before", "closing", "accepted", "rejected"}
  BY <1>1 DEF StoreKept, OpKept, Idle
<1>3. PICK held : held = IF rows[e] = None THEN {} ELSE {e}
  OBVIOUS
<1>4. PICK call : call = [[calls[c] EXCEPT !.before = rows[e], !.held = held]
                             EXCEPT !.pc = "upsertSetting"]
  OBVIOUS
<1>5. /\ DOMAIN call = DOMAIN calls[c] /\ call.pc = "upsertSetting" /\ call.op = calls[c].op
      /\ call.held = held /\ call.before = rows[e] /\ call.id = calls[c].id
  BY <1>2, <1>4
<1>6. /\ calls' = [calls EXCEPT ![c] = call]
      /\ UNCHANGED <<rows, trail, answers, made, faults>>
  BY <1>3, <1>4 DEF ReadSetting, Step
<1>7. OpAt("upsertSetting", calls[c].op)
  BY <1>1 DEF OpAt, OnSettings, OnSemesters, OnAccounts, OnGroups, OnOthers, Activating
<1>8. OpKept(call)
  BY <1>1, <1>5, <1>7 DEF OpKept, StoreKept
<1>9. ReadKept(call)
  BY <1>1, <1>3, <1>5 DEF ReadKept, Activating, Entity
<1>10. call.pc \notin {"idle", "import"} /\ call.pc # "commitActivation"
  BY <1>5
<1>11. call.before = None => rows[call.op.e] = None
  BY <1>5 DEF Entity
<1>12. \A f \in call.held : Free(c, f)
  BY <1>1, <1>3, <1>5
<1>13. \A f \in Table("semesters") : Active(f)' => Active(f)
  BY <1>6 DEF Active
<1>14. StoreKept' /\ LocksKept' /\ TrailKept' /\ AnswersKept'
  BY <1>1, <1>5, <1>6, <1>8, <1>9, <1>10, <1>11, <1>12, Moves
<1>15. SemestersKept'
  BY <1>1, <1>6, <1>10, <1>13, SemestersFrame
<1> QED
  BY <1>14, <1>15 DEF IInv

LEMMA Upserts ==
    ASSUME NEW c \in Admins, IInv, world' = world, Upsert(c)
    PROVE  IInv'
<1> PICK e : e = Entity(c)
  OBVIOUS
<1> PICK after : after = [a |-> calls[c].op.value, b |-> 1]
  OBVIOUS
<1> PICK prev : prev = IF calls[c].before = None THEN None ELSE View(e, calls[c].before)
  OBVIOUS
<1>1. /\ StoreKept /\ TrailKept /\ Busy(c) /\ calls[c].pc = "upsertSetting" /\ e \in Entities
      /\ OpAt("upsertSetting", calls[c].op)
  BY EntityOf DEF IInv, Busy, Upsert
<1>2. Info[e].table = "global_settings" /\ Info[e].table \in Audited /\ calls[c].op.value \in Values
  BY <1>1 DEF OpAt, OnSettings, Audited, Entity
<1>3. RowOf(e, after)
  BY <1>2, StoreAssumption DEF RowOf, Row, Cells
<1>4. PICK next : next = View(e, after)
  OBVIOUS
<1>5. next # None /\ after # None
  BY <1>2, <1>3, <1>4, RowIsThere
<1>6. /\ Free(c, e) /\ rows' = [rows EXCEPT ![e] = after]
      /\ Write(c, e, prev, next) /\ Done(c, "200")
  BY <1>4 DEF Upsert
<1>7. PICK id : id = calls[c].id
  OBVIOUS
<1>8. trail' = [trail EXCEPT ![e] = Append(@, Event(prev, next, id))]
  BY <1>6, <1>7 DEF Write
<1>9. calls' = [calls EXCEPT ![c] = Idle] /\ Idle.pc # "upsertSetting"
  BY <1>6, IdleCall DEF Done, Answer
<1>10. rows'[e] = after
  BY <1>1, <1>6 DEF StoreKept
<1>11. HistoryKept(e)
  BY <1>1, <1>2 DEF TrailKept
<1>12. CASE calls[c].before = None
  <2>1. prev = None /\ c \in Unread(e)
    BY <1>1, <1>12 DEF Unread
  <2>2. HistoryKept(e)'
    BY <1>1, <1>2, <1>4, <1>5, <1>8, <1>9, <1>10, <1>11, <2>1, HistoryGrows
  <2> QED
    BY <1>1, <1>2, <1>3, <1>6, <2>2, WritesOne
<1>13. CASE calls[c].before # None
  <2>1. rows[e] # None /\ calls[c].before = rows[e]
    BY <1>1, <1>13 DEF IInv, LocksKept, ReadKept, Entity
  <2>2. prev = View(e, rows[e]) /\ prev # None
    BY <1>1, <1>2, <1>13, <2>1, StoredRowOf, RowIsThere
  <2>3. HistoryKept(e)'
    BY <1>1, <1>4, <1>5, <1>8, <1>9, <1>10, <1>11, <2>1, <2>2, HistoryGrows
  <2> QED
    BY <1>1, <1>2, <1>3, <1>6, <2>3, WritesOne
<1> QED
  BY <1>12, <1>13

----
(* Semesters. *)

OnSteps == {"activate", "closeOthers"} \cup Activating

\* What a call of Activate is about, and the call that follows from the next statement.
LEMMA ActivationCall ==
    ASSUME NEW c \in Admins, NEW call,
           IInv, calls[c].pc \in OnSteps, call.pc \in OnSteps,
           DOMAIN call = DOMAIN calls[c], call.op = calls[c].op
    PROVE  /\ OpKept(call) /\ Busy(c) /\ calls[c].pc # "import"
           /\ Entity(c) \in Entities /\ Entity(c) \in Table("semesters")
<1>1. StoreKept /\ calls[c].pc \notin {"idle", "import"} /\ Busy(c)
  BY DEF IInv, Busy, OnSteps, Activating
<1>2. Entity(c) \in Entities /\ Entity(c) \in world.scope /\ OpAt(calls[c].pc, calls[c].op)
  BY <1>1, EntityOf
<1>3. Info[Entity(c)].table = "semesters"
  BY <1>2 DEF OpAt, OnSteps, OnSemesters, Activating, Entity
<1>4. OpAt(call.pc, call.op)
  BY <1>2, <1>3
     DEF OpAt, OnSteps, OnSemesters, OnSettings, OnAccounts, OnGroups, OnOthers, Activating, Entity
<1>5. OpKept(call)
  BY <1>1, <1>4 DEF OpKept, StoreKept
<1> QED
  BY <1>1, <1>2, <1>3, <1>5

LEMMA Fields ==
    ASSUME NEW c \in Admins, IInv
    PROVE  DOMAIN calls[c] = {"pc", "id", "op", "held", "before", "closing", "accepted", "rejected"}
BY DEF IInv, StoreKept, OpKept, Idle

\* A statement of an activation that has not reached the index.
LEMMA ActivationMoves ==
    ASSUME NEW c \in Admins, NEW call,
           IInv, world' = world, Busy(c), calls[c].pc # "import",
           calls' = [calls EXCEPT ![c] = call],
           OpKept(call), ReadKept(call), call.id = calls[c].id,
           call.pc \in {"closeOthers", "activateThis", "indexEntry"},
           \A e \in call.held : Free(c, e),
           UNCHANGED <<rows, trail, answers, made, faults>>
    PROVE  IInv'
<1>1. /\ call.pc \notin {"idle", "import"} /\ call.pc # "upsertSetting"
      /\ call.pc # "commitActivation" /\ StoreKept /\ SemestersKept
  BY DEF IInv
<1>2. StoreKept' /\ LocksKept' /\ TrailKept' /\ AnswersKept'
  BY <1>1, Moves
<1>3. \A f \in Table("semesters") : Active(f)' => Active(f)
  BY DEF Active
<1>4. SemestersKept'
  BY <1>1, <1>3, SemestersFrame
<1> QED
  BY <1>2, <1>4 DEF IInv

LEMMA OwnRowsFree ==
    ASSUME NEW c \in Admins, NEW e, LocksKept, e \in calls[c].held
    PROVE  Free(c, e)
BY DEF LocksKept, Free

LEMMA Snapshots ==
    ASSUME NEW c \in Admins, IInv, world' = world, ActivateSnapshot(c)
    PROVE  IInv'
<1> PICK closing : closing = {e \in Table("semesters") \ {Entity(c)} : Active(e)}
  OBVIOUS
<1> PICK call : call = [[calls[c] EXCEPT !.closing = closing] EXCEPT !.pc = "closeOthers"]
  OBVIOUS
<1>1. calls[c].pc = "activate" /\ calls[c].pc \in OnSteps /\ "closeOthers" \in OnSteps
  BY DEF ActivateSnapshot, OnSteps
<1>2. /\ DOMAIN call = DOMAIN calls[c] /\ call.pc = "closeOthers"
      /\ call.op = calls[c].op /\ call.id = calls[c].id
      /\ call.closing = closing /\ call.held = calls[c].held
  BY Fields
<1>3. OpKept(call) /\ Busy(c)
  BY <1>1, <1>2, ActivationCall
<1>4. calls' = [calls EXCEPT ![c] = call] /\ UNCHANGED <<rows, trail, answers, made, faults>>
  BY DEF ActivateSnapshot, Step
<1>5. ReadKept(calls[c]) /\ LocksKept
  BY DEF IInv, LocksKept
<1>6. ReadKept(call)
  BY <1>2, <1>5 DEF ReadKept, Activating
<1>7. \A e \in call.held : Free(c, e)
  BY <1>2, <1>5, OwnRowsFree
<1> QED
  BY <1>1, <1>2, <1>3, <1>4, <1>6, <1>7, ActivationMoves

LEMMA ClosesOthers ==
    ASSUME NEW c \in Admins, IInv, world' = world, CloseOthers(c)
    PROVE  IInv'
<1> PICK still : still = {e \in calls[c].closing : Active(e)}
  OBVIOUS
<1> PICK call : call = [[calls[c] EXCEPT !.closing = still, !.held = still]
                          EXCEPT !.pc = "activateThis"]
  OBVIOUS
<1>1. calls[c].pc = "closeOthers" /\ calls[c].pc \in OnSteps /\ "activateThis" \in OnSteps
  BY DEF CloseOthers, OnSteps, Activating
<1>2. /\ DOMAIN call = DOMAIN calls[c] /\ call.pc = "activateThis"
      /\ call.op = calls[c].op /\ call.id = calls[c].id
      /\ call.closing = still /\ call.held = still
  BY Fields
<1>3. calls' = [calls EXCEPT ![c] = call] /\ UNCHANGED <<rows, trail, answers, made, faults>>
  BY DEF CloseOthers, Step
<1>4. ReadKept(calls[c]) /\ world.scope \subseteq Entities
  BY StoreAssumption DEF IInv, LocksKept, StoreKept
<1>5. still \subseteq Table("semesters") /\ \A e \in still : e \in Entities /\ rows[e] # None
  BY <1>1, <1>4 DEF ReadKept, Active
<1>6. ReadKept(call)
  BY <1>2, <1>5 DEF ReadKept, Activating
<1>7. \A e \in call.held : Free(c, e)
  BY <1>2 DEF CloseOthers
<1>8. OpKept(call) /\ Busy(c)
  BY <1>1, <1>2, ActivationCall
<1> QED
  BY <1>1, <1>2, <1>3, <1>6, <1>7, <1>8, ActivationMoves

LEMMA LocksThis ==
    ASSUME NEW c \in Admins, IInv, world' = world, ActivateThis(c)
    PROVE  IInv'
<1>1. calls[c].pc = "activateThis" /\ calls[c].pc \in OnSteps /\ "indexEntry" \in OnSteps
  BY DEF ActivateThis, OnSteps, Activating
<1>2. CASE Refuse(c, "404")
  <2>1. Busy(c) /\ calls[c].pc # "import"
    BY <1>1 DEF Busy
  <2> QED
    BY <1>2, <2>1, Refuses
<1>3. CASE /\ rows[Entity(c)] # None /\ Free(c, Entity(c))
           /\ Step(c, "indexEntry", [calls[c] EXCEPT !.held = @ \cup {Entity(c)}])
           /\ UNCHANGED <<rows, trail, answers, made, faults>>
  <2> PICK held : held = calls[c].held \cup {Entity(c)}
    OBVIOUS
  <2> PICK call : call = [[calls[c] EXCEPT !.held = held] EXCEPT !.pc = "indexEntry"]
    OBVIOUS
  <2>1. /\ DOMAIN call = DOMAIN calls[c] /\ call.pc = "indexEntry"
        /\ call.op = calls[c].op /\ call.id = calls[c].id
        /\ call.closing = calls[c].closing /\ call.held = held
    BY Fields
  <2>2. OpKept(call) /\ Busy(c) /\ Entity(c) \in Entities
    BY <1>1, <2>1, ActivationCall
  <2>3. calls' = [calls EXCEPT ![c] = call] /\ UNCHANGED <<rows, trail, answers, made, faults>>
    BY <1>3 DEF Step
  <2>4. ReadKept(calls[c]) /\ LocksKept
    BY DEF IInv, LocksKept
  <2>5. ReadKept(call)
    BY <1>1, <1>3, <2>1, <2>2, <2>4 DEF ReadKept, Activating, Entity
  <2>6. \A e \in call.held : Free(c, e)
    BY <1>3, <2>1, <2>4, OwnRowsFree
  <2> QED
    BY <1>1, <2>1, <2>2, <2>3, <2>5, <2>6, ActivationMoves
<1> QED
  BY <1>2, <1>3 DEF ActivateThis

\* No other activation is past the index while this one enters it: its semester, or the
\* active one, would be an entry that is waited for.
LEMMA EntersIndex ==
    ASSUME NEW c \in Admins, IInv, calls[c].pc = "indexEntry",
           Active(Entity(c)) \/ Others(c) = {}
    PROVE  /\ \A d \in Admins : calls[d].pc # "commitActivation"
           /\ \A e \in Table("semesters") \ {Entity(c)} : Active(e) => e \in calls[c].closing
<1>1. /\ Entity(c) \in Table("semesters") /\ Entity(c) \in calls[c].held
      /\ calls[c].closing \subseteq calls[c].held
  <2>1. ReadKept(calls[c])
    BY DEF IInv, LocksKept
  <2>2. Entity(c) \in Table("semesters")
    BY ActivationCall DEF OnSteps, Activating
  <2> QED
    BY <2>1, <2>2 DEF ReadKept, Activating, Entity
<1>2. ASSUME NEW d \in Admins, calls[d].pc = "commitActivation"
      PROVE  FALSE
  <2>1. /\ Entity(d) \in Table("semesters") /\ Entity(d) \in calls[d].held
        /\ calls[d].closing \subseteq calls[d].held
    <3>1. ReadKept(calls[d])
      BY DEF IInv, LocksKept
    <3>2. Entity(d) \in Table("semesters")
      BY <1>2, ActivationCall DEF OnSteps, Activating
    <3> QED
      BY <1>2, <3>1, <3>2 DEF ReadKept, Activating, Entity
  <2>2. d # c /\ calls[c].held \cap calls[d].held = {}
    BY <1>2 DEF IInv, LocksKept
  <2>3. Entity(d) # Entity(c) /\ Entity(d) \notin calls[c].closing
    BY <1>1, <2>1, <2>2
  <2>4. CASE Active(Entity(c))
    <3>1. Entity(c) \in calls[d].closing
      BY <1>1, <1>2, <2>3, <2>4 DEF IInv, SemestersKept
    <3> QED
      BY <1>1, <2>1, <2>2, <3>1
  <2>5. CASE Others(c) = {}
    BY <1>2, <2>1, <2>3, <2>5 DEF Others
  <2> QED
    BY <2>4, <2>5
<1>3. \A e \in Table("semesters") \ {Entity(c)} : Active(e) => e \in calls[c].closing
  <2>1. CASE Active(Entity(c))
    BY <1>1, <2>1 DEF IInv, SemestersKept
  <2>2. CASE Others(c) = {}
    BY <2>2 DEF Others
  <2> QED
    BY <2>1, <2>2
<1> QED
  BY <1>2, <1>3

LEMMA Indexes ==
    ASSUME NEW c \in Admins, IInv, world' = world, IndexEntry(c)
    PROVE  IInv'
<1>1. calls[c].pc = "indexEntry" /\ calls[c].pc \in OnSteps /\ "commitActivation" \in OnSteps
  BY DEF IndexEntry, OnSteps, Activating
<1>2. CASE Refuse(c, "500")
  <2>1. Busy(c) /\ calls[c].pc # "import"
    BY <1>1 DEF Busy
  <2> QED
    BY <1>2, <2>1, Refuses
<1>3. CASE /\ Active(Entity(c)) \/ Others(c) = {}
           /\ Step(c, "commitActivation", calls[c])
           /\ UNCHANGED <<rows, trail, answers, made, faults>>
  <2> PICK call : call = [calls[c] EXCEPT !.pc = "commitActivation"]
    OBVIOUS
  <2>1. /\ DOMAIN call = DOMAIN calls[c] /\ call.pc = "commitActivation"
        /\ call.op = calls[c].op /\ call.id = calls[c].id
        /\ call.closing = calls[c].closing /\ call.held = calls[c].held
    BY Fields
  <2>2. OpKept(call) /\ Busy(c) /\ Entity(c) \in Entities
    BY <1>1, <2>1, ActivationCall
  <2>3. calls' = [calls EXCEPT ![c] = call] /\ UNCHANGED <<rows, trail, answers, made, faults>>
    BY <1>3 DEF Step
  <2>4. ReadKept(calls[c]) /\ LocksKept /\ StoreKept /\ SemestersKept
    BY DEF IInv, LocksKept
  <2>5. ReadKept(call)
    BY <1>1, <2>1, <2>4 DEF ReadKept, Activating, Entity
  <2>6. \A e \in call.held : Free(c, e)
    BY <2>1, <2>4, OwnRowsFree
  <2>7. StoreKept' /\ LocksKept' /\ TrailKept' /\ AnswersKept'
    BY <1>1, <2>1, <2>2, <2>3, <2>5, <2>6, Moves
  <2>8. /\ \A d \in Admins : calls[d].pc # "commitActivation"
        /\ \A e \in Table("semesters") \ {Entity(c)} : Active(e) => e \in calls[c].closing
    BY <1>1, <1>3, EntersIndex
  <2>9. \A d \in Admins : calls'[d] = IF d = c THEN call ELSE calls[d]
    BY <2>3, <2>4 DEF StoreKept
  <2>10. \A d \in Admins : calls'[d].pc = "commitActivation" => d = c
    BY <2>8, <2>9
  <2>11. \A e : Active(e)' <=> Active(e)
    BY <2>3 DEF Active
  <2>12. Entity(c)' = Entity(c) /\ calls'[c].closing = calls[c].closing
    BY <2>1, <2>9 DEF Entity
  <2>13. SemestersKept'
    BY <2>4, <2>8, <2>10, <2>11, <2>12 DEF SemestersKept
  <2> QED
    BY <2>7, <2>13 DEF IInv
<1> QED
  BY <1>2, <1>3 DEF IndexEntry

LEMMA Activates ==
    ASSUME NEW c \in Admins, IInv, world' = world, CommitActivation(c)
    PROVE  IInv'
<1> PICK x : x = Entity(c)
  OBVIOUS
<1> PICK closing : closing = calls[c].closing
  OBVIOUS
<1>1. calls[c].pc = "commitActivation" /\ calls[c].pc \in OnSteps
  BY DEF CommitActivation, OnSteps, Activating
<1>2. StoreKept /\ LocksKept /\ SemestersKept /\ ReadKept(calls[c])
  BY DEF IInv, LocksKept
<1>3. /\ x \in Table("semesters") /\ x \in Entities /\ Busy(c) /\ calls[c].pc # "import"
  BY <1>1, ActivationCall
<1>4. /\ x \in calls[c].held /\ closing \subseteq calls[c].held
      /\ closing \subseteq Table("semesters") /\ closing \subseteq Entities
      /\ rows[x] # None /\ \A e \in closing : rows[e] # None
  BY <1>1, <1>2 DEF ReadKept, Activating, Entity
<1>5. DOMAIN rows' = Entities
  BY DEF CommitActivation
<1>6. rows'[x] = [rows[x] EXCEPT !.a = "ACTIVE"]
  BY <1>3 DEF CommitActivation
<1>7. \A e \in Entities : e # x => rows'[e] = IF e \in closing THEN [rows[e] EXCEPT !.a = "CLOSED"]
                                              ELSE rows[e]
  BY DEF CommitActivation
<1>8. \A e \in {x} \cup closing : rows[e] \in SemesterRow /\ Info[e].table = "semesters"
  BY <1>2, <1>3, <1>4 DEF StoreKept, RowKept
<1>9. \A row \in SemesterRow : \A status \in Statuses :
         [row EXCEPT !.a = status] \in SemesterRow /\ [row EXCEPT !.a = status].a = status
  BY DEF SemesterRow
<1>10. /\ rows'[x] \in SemesterRow /\ rows'[x].a = "ACTIVE" /\ rows'[x] # None
       /\ \A e \in closing : e # x => /\ rows'[e] \in SemesterRow /\ rows'[e].a = "CLOSED"
                                      /\ rows'[e] # None
  <2>1. "ACTIVE" \in Statuses /\ "CLOSED" \in Statuses /\ None \notin SemesterRow
    BY StoreAssumption DEF Statuses
  <2>2. rows'[x] \in SemesterRow /\ rows'[x].a = "ACTIVE"
    BY <1>6, <1>8, <1>9, <2>1
  <2>3. ASSUME NEW e \in closing, e # x
        PROVE  rows'[e] \in SemesterRow /\ rows'[e].a = "CLOSED"
    <3>1. rows'[e] = [rows[e] EXCEPT !.a = "CLOSED"] /\ rows[e] \in SemesterRow
      BY <1>4, <1>7, <1>8, <2>3
    <3> QED
      BY <1>9, <2>1, <3>1
  <2> QED
    BY <2>1, <2>2, <2>3
<1>11. \A e \in Entities : e \notin {x} \cup closing => rows'[e] = rows[e]
  BY <1>7
<1>12. \A e \in Entities : RowKept(e)'
  <2> SUFFICES ASSUME NEW e \in Entities
               PROVE  RowKept(e)'
    OBVIOUS
  <2>1. CASE e \in {x} \cup closing
    BY <1>8, <1>10, <2>1 DEF RowKept
  <2>2. CASE e \notin {x} \cup closing
    <3>1. rows'[e] = rows[e] /\ RowKept(e)
      BY <1>2, <1>11, <2>2 DEF StoreKept
    <3> QED
      BY <3>1 DEF RowKept
  <2> QED
    BY <2>1, <2>2
<1>13. \A e \in {x} \cup closing : Free(c, e)
  BY <1>2, <1>4, OwnRowsFree
<1>14. \A e \in Entities : rows[e] # None => rows'[e] # None /\ (rows'[e] = rows[e] \/ Free(c, e))
  BY <1>10, <1>11, <1>13
<1>15. Write(c, x, None, None) /\ Done(c, "200")
  BY DEF CommitActivation
<1>16. PICK code \in {"200", "201", "500"} : Answer(c, code)
  BY <1>15 DEF Done
<1>17. made' = made /\ faults' \in {faults, faults + 1}
  BY <1>15 DEF Done, Fault
<1>18. Info[x].table \notin Audited
       /\ \A e \in Entities : e # x /\ Info[e].table \in Audited => rows'[e] = rows[e]
  BY <1>3, <1>4, <1>11 DEF Audited
<1>19. SemestersKept'
  <2>1. \A d \in Admins : calls'[d].pc # "commitActivation"
    <3>1. \A d \in Admins : calls'[d] = IF d = c THEN Idle ELSE calls[d]
      BY <1>2, <1>16 DEF Answer, StoreKept
    <3> QED
      BY <1>1, <1>2, <3>1, IdleCall DEF SemestersKept
  <2>2. \A e \in Table("semesters") : Active(e)' => e = x
    <3> SUFFICES ASSUME NEW e \in Table("semesters"), e # x, Active(e)'
                 PROVE  FALSE
      OBVIOUS
    <3>1. e \in Entities
      BY StoreAssumption, <1>2 DEF StoreKept
    <3>2. CASE e \in closing
      BY <1>10, <3>2 DEF Active
    <3>3. CASE e \notin closing
      <4>1. Active(e)
        BY <1>11, <3>1, <3>3 DEF Active
      <4> QED
        BY <1>1, <1>2, <3>3, <4>1 DEF SemestersKept
    <3> QED
      BY <3>2, <3>3
  <2> QED
    BY <2>1, <2>2 DEF SemestersKept
<1> QED
  BY <1>3, <1>5, <1>12, <1>14, <1>15, <1>16, <1>17, <1>18, <1>19, Writes

LEMMA Closes ==
    ASSUME NEW c \in Admins, IInv, world' = world, CloseSemester(c)
    PROVE  IInv'
<1> PICK e : e = Entity(c)
  OBVIOUS
<1>1. /\ StoreKept /\ Busy(c) /\ calls[c].pc = "closeSemester" /\ e \in Entities
      /\ Info[e].table = "semesters"
  BY EntityOf DEF IInv, Busy, CloseSemester, OpAt, OnSemesters, Entity
<1>2. CASE Refuse(c, "404")
  BY <1>1, <1>2, Refuses
<1>3. CASE /\ rows[e] # None /\ Free(c, e)
           /\ rows' = [rows EXCEPT ![e].a = "CLOSED"]
           /\ Write(c, e, None, None)
           /\ Done(c, "200")
  <2>1. rows[e] \in SemesterRow
    BY <1>1, <1>3 DEF StoreKept, RowKept
  <2>2. PICK row : row = [rows[e] EXCEPT !.a = "CLOSED"]
    OBVIOUS
  <2>3. row \in SemesterRow /\ row.a = "CLOSED"
    BY <2>1, <2>2 DEF SemesterRow, Statuses
  <2>4. RowOf(e, row) /\ Info[e].table \notin Audited /\ row.a # "ACTIVE"
    BY <1>1, <2>3 DEF RowOf, Audited
  <2>5. rows' = [rows EXCEPT ![e] = row]
    BY <1>3, <2>2
  <2> QED
    BY <1>1, <1>3, <2>4, <2>5, WritesOne
<1> QED
  BY <1>2, <1>3 DEF CloseSemester

----
(* The requests that are received. *)

LEMMA SemesterPostsKeep ==
    ASSUME NEW c \in Admins, IInv, world' = world, SemesterPosts(c)
    PROVE  IInv'
<1> USE DEF Later, OnSemesters, OnAccounts, OnGroups, OnSettings, OnOthers, Activating, Audited
<1>0. Patches \subseteq Row
  BY StoreAssumption
<1>1. CASE PostSemester(c)
  <2>1. PICK e \in Table("semesters"), valid \in BOOLEAN :
           Receive(c, "createSemester", [e |-> e], valid)
    BY <1>1 DEF PostSemester
  <2>2. OpAt("createSemester", [e |-> e])
    BY <1>0, <2>1 DEF OpAt
  <2> QED
    BY <2>1, <2>2, Receives
<1>2. CASE PostActivate(c)
  <2>1. PICK e \in Table("semesters") :
           Receive(c, "activate", [e |-> e], TRUE)
    BY <1>2 DEF PostActivate
  <2>2. OpAt("activate", [e |-> e])
    BY <1>0, <2>1 DEF OpAt
  <2> QED
    BY <2>1, <2>2, Receives
<1>3. CASE PostClose(c)
  <2>1. PICK e \in Table("semesters"), valid \in BOOLEAN :
           Receive(c, "closeSemester", [e |-> e], valid)
    BY <1>3 DEF PostClose
  <2>2. OpAt("closeSemester", [e |-> e])
    BY <1>0, <2>1 DEF OpAt
  <2> QED
    BY <2>1, <2>2, Receives
<1> QED
  BY <1>1, <1>2, <1>3 DEF SemesterPosts

LEMMA DirectoryPostsKeep ==
    ASSUME NEW c \in Admins, IInv, world' = world, DirectoryPosts(c)
    PROVE  IInv'
<1> USE DEF Later, OnSemesters, OnAccounts, OnGroups, OnSettings, OnOthers, Activating, Audited
<1>0. Patches \subseteq Row
  BY StoreAssumption
<1>1. CASE PostStudent(c)
  <2>1. PICK e \in Table("students"), valid \in BOOLEAN :
           Receive(c, "createStudent", [e |-> e], valid)
    BY <1>1 DEF PostStudent
  <2>2. OpAt("createStudent", [e |-> e])
    BY <1>0, <2>1 DEF OpAt
  <2> QED
    BY <2>1, <2>2, Receives
<1>2. CASE PatchStudent(c)
  <2>1. PICK e \in Table("students"), p \in Patches :
           Receive(c, "lockStudent", [e |-> e, patch |-> p], ValidPatch(p))
    BY <1>2 DEF PatchStudent
  <2>2. OpAt("lockStudent", [e |-> e, patch |-> p])
    BY <1>0, <2>1 DEF OpAt
  <2> QED
    BY <2>1, <2>2, Receives
<1>3. CASE PostRecord(c)
  <2>1. PICK e \in Table("student_academic_records"), valid \in BOOLEAN :
           Receive(c, "createRecord", [e |-> e], valid)
    BY <1>3 DEF PostRecord
  <2>2. OpAt("createRecord", [e |-> e])
    BY <1>0, <2>1 DEF OpAt
  <2> QED
    BY <2>1, <2>2, Receives
<1>4. CASE PostAdminUser(c)
  <2>1. PICK e \in Table("admin_users"), valid \in BOOLEAN :
           Receive(c, "createAdminUser", [e |-> e], valid)
    BY <1>4 DEF PostAdminUser
  <2>2. OpAt("createAdminUser", [e |-> e])
    BY <1>0, <2>1 DEF OpAt
  <2> QED
    BY <2>1, <2>2, Receives
<1>5. CASE PatchAdminUser(c)
  <2>1. PICK e \in Table("admin_users"), p \in Patches :
           Receive(c, "lockAdminUser", [e |-> e, patch |-> p], ValidPatch(p))
    BY <1>5 DEF PatchAdminUser
  <2>2. OpAt("lockAdminUser", [e |-> e, patch |-> p])
    BY <1>0, <2>1 DEF OpAt
  <2> QED
    BY <2>1, <2>2, Receives
<1>6. CASE PutSetting(c)
  <2>1. PICK e \in Table("global_settings"), v \in Values, valid \in BOOLEAN :
           Receive(c, "readSetting", [e |-> e, value |-> v], valid)
    BY <1>6 DEF PutSetting
  <2>2. OpAt("readSetting", [e |-> e, value |-> v])
    BY <1>0, <2>1 DEF OpAt
  <2> QED
    BY <2>1, <2>2, Receives
<1>7. CASE PostImport(c)
  <2>1. PICK list \in Imports, valid \in BOOLEAN : Receive(c, "import", [list |-> list], valid)
    BY <1>7 DEF PostImport
  <2>2. OpAt("import", [list |-> list])
    BY <2>1, ImportsAssumption DEF OpAt
  <2> QED
    BY <2>1, <2>2, Receives
<1> QED
  BY <1>1, <1>2, <1>3, <1>4, <1>5, <1>6, <1>7 DEF DirectoryPosts

LEMMA CatalogPostsKeep ==
    ASSUME NEW c \in Admins, IInv, world' = world, CatalogPosts(c)
    PROVE  IInv'
<1> USE DEF Later, OnSemesters, OnAccounts, OnGroups, OnSettings, OnOthers, Activating, Audited
<1>0. Patches \subseteq Row
  BY StoreAssumption
<1>1. CASE PostElective(c)
  <2>1. PICK e \in Table("electives"), valid \in BOOLEAN :
           Receive(c, "createElective", [e |-> e], valid)
    BY <1>1 DEF PostElective
  <2>2. OpAt("createElective", [e |-> e])
    BY <1>0, <2>1 DEF OpAt
  <2> QED
    BY <2>1, <2>2, Receives
<1>2. CASE PatchElective(c)
  <2>1. PICK e \in Table("electives"), p \in Patches, valid \in BOOLEAN :
           Receive(c, "updateElective", [e |-> e, patch |-> p], valid)
    BY <1>2 DEF PatchElective
  <2>2. OpAt("updateElective", [e |-> e, patch |-> p])
    BY <1>0, <2>1 DEF OpAt
  <2> QED
    BY <2>1, <2>2, Receives
<1>3. CASE PostPrerequisite(c)
  <2>1. PICK e \in Table("prerequisites"), valid \in BOOLEAN :
           Receive(c, "createPrerequisite", [e |-> e], valid)
    BY <1>3 DEF PostPrerequisite, PostCatalog
  <2>2. OpAt("createPrerequisite", [e |-> e])
    BY <1>0, <2>1 DEF OpAt
  <2> QED
    BY <2>1, <2>2, Receives
<1>4. CASE PostOffering(c)
  <2>1. PICK e \in Table("elective_offerings"), valid \in BOOLEAN :
           Receive(c, "createOffering", [e |-> e], valid)
    BY <1>4 DEF PostOffering, PostCatalog
  <2>2. OpAt("createOffering", [e |-> e])
    BY <1>0, <2>1 DEF OpAt
  <2> QED
    BY <2>1, <2>2, Receives
<1>5. CASE PostOfferingPrereq(c)
  <2>1. PICK e \in Table("offering_prerequisites"), valid \in BOOLEAN :
           Receive(c, "createOfferingPrereq", [e |-> e], valid)
    BY <1>5 DEF PostOfferingPrereq, PostCatalog
  <2>2. OpAt("createOfferingPrereq", [e |-> e])
    BY <1>0, <2>1 DEF OpAt
  <2> QED
    BY <2>1, <2>2, Receives
<1>6. CASE PostGroup(c)
  <2>1. PICK e \in Table("offering_groups"), valid \in BOOLEAN :
           Receive(c, "createGroup", [e |-> e], valid)
    BY <1>6 DEF PostGroup, PostCatalog
  <2>2. OpAt("createGroup", [e |-> e])
    BY <1>0, <2>1 DEF OpAt
  <2> QED
    BY <2>1, <2>2, Receives
<1>7. CASE PatchGroup(c)
  <2>1. PICK e \in Table("offering_groups"), p \in Patches, valid \in BOOLEAN :
           Receive(c, "updateGroup", [e |-> e, patch |-> p], valid) /\ p.a = None
    BY <1>7 DEF PatchGroup
  <2>2. OpAt("updateGroup", [e |-> e, patch |-> p])
    BY <1>0, <2>1 DEF OpAt
  <2> QED
    BY <2>1, <2>2, Receives
<1>8. CASE PostCapacity(c)
  <2>1. PICK e \in Table("offering_groups"), v \in Values, valid \in BOOLEAN, blank \in BOOLEAN :
           Receive(c, "lockGroup", [e |-> e, value |-> v, blank |-> blank], valid)
    BY <1>8 DEF PostCapacity
  <2>2. OpAt("lockGroup", [e |-> e, value |-> v, blank |-> blank])
    BY <1>0, <2>1 DEF OpAt
  <2> QED
    BY <2>1, <2>2, Receives
<1>9. CASE PostWindow(c)
  <2>1. PICK e \in Table("enrollment_windows"), valid \in BOOLEAN :
           Receive(c, "createWindow", [e |-> e], valid)
    BY <1>9 DEF PostWindow
  <2>2. OpAt("createWindow", [e |-> e])
    BY <1>0, <2>1 DEF OpAt
  <2> QED
    BY <2>1, <2>2, Receives
<1>10. CASE PatchWindow(c)
  <2>1. PICK e \in Table("enrollment_windows"), p \in Patches, valid \in BOOLEAN :
           Receive(c, "updateWindow", [e |-> e, patch |-> Parsed(p)], valid)
    BY <1>10 DEF PatchWindow
  <2>2. OpAt("updateWindow", [e |-> e, patch |-> Parsed(p)])
    BY <1>0, <2>1 DEF OpAt, Parsed, Row, Cells
  <2> QED
    BY <2>1, <2>2, Receives
<1> QED
  BY <1>1, <1>2, <1>3, <1>4, <1>5, <1>6, <1>7, <1>8, <1>9, <1>10 DEF CatalogPosts

----
(* The steps of the calls. *)

LEMMA SemesterStepsKeep ==
    ASSUME NEW c \in Admins, IInv, world' = world, SemesterStep(c)
    PROVE  IInv'
<1>1. CASE CreateSemester(c)
  BY <1>1, Inserts DEF CreateSemester, Creating
<1>2. CASE CloseSemester(c)
  BY <1>2, Closes
<1>3. CASE ActivateSnapshot(c)
  BY <1>3, Snapshots
<1>4. CASE CloseOthers(c)
  BY <1>4, ClosesOthers
<1>5. CASE ActivateThis(c)
  BY <1>5, LocksThis
<1>6. CASE IndexEntry(c)
  BY <1>6, Indexes
<1>7. CASE CommitActivation(c)
  BY <1>7, Activates
<1>8. CASE DeadlockDetected(c)
  <2>1. Busy(c) /\ calls[c].pc # "import" /\ Refuse(c, "500")
    BY <1>8 DEF DeadlockDetected, Busy
  <2> QED
    BY <2>1, Refuses
<1> QED
  BY <1>1, <1>2, <1>3, <1>4, <1>5, <1>6, <1>7, <1>8 DEF SemesterStep

LEMMA ImportStepsKeep ==
    ASSUME NEW c \in Admins, IInv, world' = world,
           ImportRow(c) \/ ImportDone(c) \/ ImportRowFails(c) \/ ImportDies(c)
    PROVE  IInv'
<1> PICK row : row = Head(calls[c].op.list)
  OBVIOUS
<1> PICK stored \in BOOLEAN : stored <=> (row.valid /\ ~Conflict(row.e))
  OBVIOUS
<1> PICK e : e = row.e
  OBVIOUS
<1>0. calls[c].pc = "import" /\ Busy(c)
  BY DEF ImportRow, ImportDone, ImportRowFails, ImportDies, Busy
<1>1. CASE ImportRow(c)
  <2>1. /\ calls[c].op.list # << >> /\ e = Head(calls[c].op.list).e
        /\ UNCHANGED <<answers, made>> /\ faults' = faults
        /\ calls' = [calls EXCEPT ![c] = NextRow(calls[c], stored)]
    BY <1>1 DEF ImportRow, NextRow
  <2>2. CASE stored
    <3>1. /\ ~Conflict(e) /\ rows' = [rows EXCEPT ![e] = NewRow(e)]
          /\ Write(c, e, None, View(e, NewRow(e)))
      BY <1>1, <2>2 DEF ImportRow
    <3> QED
      BY <1>0, <2>1, <2>2, <3>1, Imports1
  <2>3. CASE ~stored
    <3>1. UNCHANGED <<rows, trail>>
      BY <1>1, <2>3 DEF ImportRow
    <3> QED
      BY <1>0, <2>1, <2>3, <3>1, Imports1
  <2> QED
    BY <2>2, <2>3
<1>2. CASE ImportRowFails(c)
  <2>1. /\ calls[c].op.list # << >> /\ e = Head(calls[c].op.list).e
        /\ UNCHANGED <<answers, made>> /\ faults' = faults + 1
        /\ calls' = [calls EXCEPT ![c] = NextRow(calls[c], FALSE)]
    BY <1>2 DEF ImportRowFails, Fault
  <2>2. \/ UNCHANGED <<rows, trail>>
        \/ /\ ~Conflict(e) /\ rows' = [rows EXCEPT ![e] = NewRow(e)]
           /\ Write(c, e, None, View(e, NewRow(e)))
    BY <1>2 DEF ImportRowFails
  <2> QED
    BY <1>0, <2>1, <2>2, Imports1
<1>3. CASE ImportDone(c)
  <2>1. /\ Answer(c, "202") /\ UNCHANGED <<rows, trail, made>> /\ faults' \in {faults, faults + 1}
    BY <1>3 DEF ImportDone, Refuse
  <2> QED
    BY <1>0, <2>1, Ends
<1>4. CASE ImportDies(c)
  <2>1. /\ Answer(c, "lost") /\ UNCHANGED <<rows, trail, made>> /\ faults' \in {faults, faults + 1}
    BY <1>4 DEF ImportDies, Fault
  <2> QED
    BY <1>0, <2>1, Ends
<1> QED
  BY <1>1, <1>2, <1>3, <1>4

\* The next step of a call that has its row locked is about that row.
LEMMA LockedOp ==
    ASSUME NEW c \in Admins, StoreKept
    PROVE  /\ calls[c].pc = "lockStudent" => OpAt("updateStudent", calls[c].op)
           /\ calls[c].pc = "lockAdminUser" => OpAt("updateAdminUser", calls[c].op)
           /\ calls[c].pc = "lockGroup" => OpAt("adjustCapacity", calls[c].op)
<1>1. OpAt(calls[c].pc, calls[c].op)
  BY DEF StoreKept, OpKept
<1> QED
  BY <1>1 DEF OpAt, OnSemesters, OnAccounts, OnGroups, OnSettings, OnOthers, Activating

\* What the updates of an account and of a capacity write.
LEMMA AccountRow ==
    ASSUME NEW c \in Admins, IInv, calls[c].pc \in {"updateStudent", "updateAdminUser"}
    PROVE  RowOf(Entity(c), Patched(rows[Entity(c)], calls[c].op.patch))
<1>1. StoreKept /\ ReadKept(calls[c]) /\ Entity(c) \in Entities /\ OpAt(calls[c].pc, calls[c].op)
  BY EntityOf DEF IInv, LocksKept
<1>2. /\ Info[Entity(c)].table \in {"students", "admin_users"} /\ calls[c].op.patch \in Row
      /\ rows[Entity(c)] # None
  BY <1>1 DEF OpAt, OnAccounts, Entity, ReadKept
<1>3. RowOf(Entity(c), rows[Entity(c)])
  BY <1>1, <1>2, StoredRowOf
<1>4. Patched(rows[Entity(c)], calls[c].op.patch) \in Row
  BY <1>2, <1>3, PatchedRow DEF RowOf
<1> QED
  BY <1>2, <1>4 DEF RowOf

LEMMA CapacityRow ==
    ASSUME NEW c \in Admins, IInv, calls[c].pc = "adjustCapacity"
    PROVE  RowOf(Entity(c), [rows[Entity(c)] EXCEPT !.a = calls[c].op.value])
<1>1. StoreKept /\ ReadKept(calls[c]) /\ Entity(c) \in Entities /\ OpAt(calls[c].pc, calls[c].op)
  BY EntityOf DEF IInv, LocksKept
<1>2. /\ Info[Entity(c)].table = "offering_groups" /\ calls[c].op.value \in Values
      /\ rows[Entity(c)] # None
  BY <1>1 DEF OpAt, OnGroups, Entity, ReadKept
<1>3. RowOf(Entity(c), rows[Entity(c)])
  BY <1>1, <1>2, StoredRowOf
<1>4. PICK row, v : row = rows[Entity(c)] /\ v = calls[c].op.value
  OBVIOUS
<1>5. row \in Row /\ v \in Values
  BY <1>2, <1>3, <1>4 DEF RowOf
<1>6. [row EXCEPT !.a = v] \in Row /\ [row EXCEPT !.a = v].a \in Values
  BY <1>5 DEF Row, Cells
<1> QED
  BY <1>2, <1>4, <1>6 DEF RowOf

LEMMA DirectoryStepsKeep ==
    ASSUME NEW c \in Admins, IInv, world' = world, DirectoryStep(c)
    PROVE  IInv'
<1>0. StoreKept
  BY DEF IInv
<1>1. CASE CreateStudent(c)
  BY <1>1, Inserts DEF CreateStudent, Creating
<1>2. CASE LockStudent(c)
  BY <1>0, <1>2, Locks, LockedOp DEF LockStudent
<1>3. CASE UpdateStudent(c)
  BY <1>3, WritesBack, AccountRow DEF UpdateStudent
<1>4. CASE CreateAcademicRecord(c)
  BY <1>4, Inserts DEF CreateAcademicRecord, Creating
<1>5. CASE ImportRow(c) \/ ImportDone(c)
  BY <1>5, ImportStepsKeep
<1>6. CASE CreateAdminUser(c)
  BY <1>6, Inserts DEF CreateAdminUser, Creating
<1>7. CASE LockAdminUser(c)
  BY <1>0, <1>7, Locks, LockedOp DEF LockAdminUser
<1>8. CASE UpdateAdminUser(c)
  BY <1>8, WritesBack, AccountRow DEF UpdateAdminUser
<1>9. CASE ReadSetting(c)
  BY <1>9, ReadsSetting
<1>10. CASE Upsert(c)
  BY <1>10, Upserts
<1> QED
  BY <1>1, <1>2, <1>3, <1>4, <1>5, <1>6, <1>7, <1>8, <1>9, <1>10 DEF DirectoryStep

LEMMA CatalogStepsKeep ==
    ASSUME NEW c \in Admins, IInv, world' = world, CatalogStep(c)
    PROVE  IInv'
<1>0. StoreKept
  BY DEF IInv
<1>1. CASE CreateElective(c) \/ CreatePrerequisite(c) \/ CreateOffering(c)
           \/ CreateOfferingPrereq(c) \/ CreateGroup(c) \/ CreateWindow(c)
  BY <1>1, Inserts
     DEF CreateElective, CreatePrerequisite, CreateOffering, CreateOfferingPrereq, CreateGroup,
         CreateWindow, Creating
<1>2. CASE UpdateElective(c)
  BY <1>2, UpdatesInPlace DEF UpdateElective
<1>3. CASE UpdateGroup(c)
  BY <1>3, UpdatesInPlace DEF UpdateGroup
<1>4. CASE UpdateWindow(c)
  BY <1>4, UpdatesInPlace DEF UpdateWindow
<1>5. CASE LockGroup(c)
  BY <1>0, <1>5, Locks, LockedOp DEF LockGroup
<1>6. CASE AdjustCapacity(c)
  <2>1. calls[c].pc = "adjustCapacity" /\ Busy(c) /\ calls[c].pc # "import"
    BY <1>6 DEF AdjustCapacity, Busy
  <2>2. CASE Refuse(c, "500")
    BY <2>1, <2>2, Refuses
  <2>3. CASE WriteBack(c, [rows[Entity(c)] EXCEPT !.a = calls[c].op.value])
    BY <2>1, <2>3, WritesBack, CapacityRow
  <2> QED
    BY <1>6, <2>2, <2>3 DEF AdjustCapacity
<1> QED
  BY <1>1, <1>2, <1>3, <1>4, <1>5, <1>6 DEF CatalogStep

----
(* The invariant, and what follows from it. *)

LEMMA OneEvent ==
    ASSUME NEW x
    PROVE  /\ <<x>> \in Seq(Range(<<x>>)) /\ DOMAIN <<x>> = {1} /\ <<x>>[1] = x
<1>1. <<x>> \in Seq({x}) /\ Len(<<x>>) = 1 /\ <<x>>[1] = x
  OBVIOUS
<1>2. DOMAIN <<x>> = 1 .. 1
  OBVIOUS
<1>3. <<x>> \in Seq(Range(<<x>>))
  BY <1>1, OwnElements, Zenon
<1> QED
  BY <1>1, <1>2, <1>3

LEMMA NoEvent == << >> \in Seq(Range(<< >>)) /\ DOMAIN << >> = {}
<1>1. << >> \in Seq({})
  OBVIOUS
<1>2. << >> \in Seq(Range(<< >>))
  BY <1>1, OwnElements, Zenon
<1> QED
  BY <1>2

LEMMA Starts ==
    ASSUME Init
    PROVE  IInv
<1>1. PICK w \in Worlds,
           active \in {None} \cup {e \in Entities : Info[e].table = "semesters"} :
        /\ world = w
        /\ rows = [e \in Entities |-> IF e \in w.exist THEN InitialRow(e, active) ELSE None]
        /\ trail = [e \in Entities |->
                      IF e \in w.exist THEN <<Event(None, View(e, InitialRow(e, active)), 0)>>
                      ELSE << >>]
        /\ calls = [c \in Admins |-> Idle]
        /\ answers = [n \in 1 .. MaxCalls |-> NoAnswer]
        /\ made = 0 /\ faults = 0
  BY StoreAssumption DEF Init
<1>2. \A e \in Entities : RowOf(e, InitialRow(e, active))
  BY StoreAssumption DEF RowOf, InitialRow, Row, SemesterRow, Cells, Statuses
<1>3. \A e \in Entities : rows[e] # None <=> e \in w.exist
  BY <1>1, <1>2, RowIsThere
<1>4. \A e \in w.exist : e \in Entities
  BY StoreAssumption
<1>5. \A e \in Entities : e \in w.exist => rows[e] = InitialRow(e, active)
  BY <1>1
<1>6. \A e \in Entities : e \notin w.exist => rows[e] = None /\ trail[e] = << >>
  BY <1>1
<1>7. \A e \in Entities : e \in w.exist =>
         /\ trail[e] \in Seq(Range(trail[e])) /\ DOMAIN trail[e] = {1}
         /\ trail[e][1].prev = None /\ trail[e][1].next = View(e, rows[e]) /\ trail[e][1].call = 0
  <2> SUFFICES ASSUME NEW e \in Entities, e \in w.exist
               PROVE  /\ trail[e] \in Seq(Range(trail[e])) /\ DOMAIN trail[e] = {1}
                      /\ trail[e][1].prev = None /\ trail[e][1].next = View(e, rows[e])
                      /\ trail[e][1].call = 0
    OBVIOUS
  <2>1. PICK event : event = Event(None, View(e, rows[e]), 0)
    OBVIOUS
  <2>2. trail[e] = <<event>>
    BY <1>1, <1>5, <2>1
  <2>3. /\ <<event>> \in Seq(Range(<<event>>)) /\ DOMAIN <<event>> = {1} /\ <<event>>[1] = event
    BY OneEvent
  <2>4. event.prev = None /\ event.next = View(e, rows[e]) /\ event.call = 0
    BY <2>1 DEF Event
  <2> QED
    BY <2>2, <2>3, <2>4
<1>8. \A e \in Entities : e \notin w.exist => trail[e] \in Seq(Range(trail[e])) /\ DOMAIN trail[e] = {}
  BY <1>6, NoEvent
<1>9. \A c \in Admins : calls[c] = Idle
  BY <1>1
<1>10. StoreKept
  <2>1. \A e \in Entities : RowKept(e)
    BY <1>2, <1>5, <1>6 DEF RowKept, RowOf
  <2>2. \A c \in Admins : OpKept(calls[c])
    BY <1>9, IdleCall
  <2>3. \A e \in Entities : trail[e] \in Seq(Range(trail[e]))
    BY <1>7, <1>8
  <2> QED
    BY <1>1, <2>1, <2>2, <2>3 DEF StoreKept
<1>11. LocksKept
  BY <1>9, IdleCall DEF LocksKept
<1>12. SemestersKept
  <2>1. \A e \in Table("semesters") : Active(e) => e = active
    BY <1>1, <1>5, <1>6, StoreAssumption DEF Active, InitialRow
  <2> QED
    BY <1>9, <2>1, IdleCall DEF SemestersKept
<1>13. ASSUME NEW e \in Entities, Info[e].table \in Audited
       PROVE  HistoryKept(e)
  <2>1. Unread(e) = {}
    BY <1>9, IdleCall DEF Unread
  <2>2. /\ Cardinality({}) = 0 /\ Cardinality({1}) = 1
        /\ Cardinality(Admins) \in Nat /\ 1 <= Cardinality(Admins)
    BY FS_EmptySet, FS_Singleton, UnreadFinite
  <2>3. CASE e \in w.exist
    <3>1. rows[e] # None /\ View(e, rows[e]) # None
      BY <1>2, <1>3, <1>5, <1>13, <2>3, RowIsThere
    <3>2. Valued(e) = {1} /\ Prevless(e) = {1} /\ trail[e][1].next = View(e, rows[e])
      BY <1>7, <2>3, <3>1 DEF Valued, Prevless, Event
    <3>3. ~Follows(e, 1, 1)
      BY DEF Follows
    <3> QED
      BY <2>1, <2>2, <3>1, <3>2, <3>3 DEF HistoryKept, History
  <2>4. CASE e \notin w.exist
    <3>1. rows[e] = None /\ Valued(e) = {} /\ Prevless(e) = {}
      BY <1>6, <1>8, <2>4 DEF Valued, Prevless
    <3> QED
      BY <2>1, <2>2, <3>1 DEF HistoryKept, History
  <2> QED
    BY <2>3, <2>4
<1>14. TrailKept
  BY <1>13 DEF TrailKept
<1>15. ASSUME NEW n \in 1 .. MaxCalls
       PROVE  AnswerKept(n)
  <2>1. \A p : p \notin Written(n)
    <3>1. \A e \in Entities : \A i \in DOMAIN trail[e] : trail[e][i].call = 0
      BY <1>7, <1>8 DEF Event
    <3>2. n # 0
      BY StoreAssumption
    <3> QED
      BY <3>1, <3>2, WrittenIs
  <2>2. Written(n) = {}
    BY <2>1
  <2>3. IsFiniteSet(Written(n))
    BY <2>2, FS_EmptySet
  <2>4. answers[n].code = None /\ None \notin Codes
    BY <1>1, StoreAssumption DEF NoAnswer
  <2> QED
    BY <2>2, <2>3, <2>4 DEF AnswerKept, Codes
<1>16. AnswersKept
  BY <1>1, <1>9, <1>15, IdleCall, StoreAssumption DEF AnswersKept, Busy
<1> QED
  BY <1>10, <1>11, <1>12, <1>14, <1>16 DEF IInv

\* The locks, the rows that were read under them, the one activation past the index, the
\* counts of the upserts and the events of each call stay together, whatever calls run
\* at once and whatever fails (the transactions of the administrative repositories).
THEOREM BackofficeInvariant == Spec => []IInv
<1>1. Init => IInv
  BY Starts
<1>2. IInv /\ [Next]_vars => IInv'
  <2> SUFFICES ASSUME IInv, [Next]_vars
               PROVE  IInv'
    OBVIOUS
  <2>1. ASSUME NEW c \in Admins, world' = world, Posts(c) \/ Steps(c) \/ Faults(c)
        PROVE  IInv'
    <3>1. CASE Posts(c)
      BY <2>1, <3>1, SemesterPostsKeep, DirectoryPostsKeep, CatalogPostsKeep DEF Posts
    <3>2. CASE Steps(c)
      BY <2>1, <3>2, SemesterStepsKeep, DirectoryStepsKeep, CatalogStepsKeep DEF Steps
    <3>3. CASE Fail(c)
      BY <2>1, <3>3, Fails
    <3>4. CASE DirectoryFaults(c)
      BY <2>1, <3>4, ImportStepsKeep DEF DirectoryFaults
    <3> QED
      BY <2>1, <3>1, <3>2, <3>3, <3>4 DEF Faults
  <2>2. CASE UNCHANGED vars
    <3> USE <2>2 DEF vars, IInv
    <3>1. StoreKept'
      <4>1. ASSUME NEW d \in Admins
            PROVE  OpKept(calls[d])'
        <5>1. OpKept(calls'[d]) /\ world' = world
          BY DEF StoreKept
        <5> QED
          BY <5>1 DEF OpKept, OpAt
      <4>2. \A e \in Entities : RowKept(e)'
        BY DEF StoreKept, RowKept
      <4> QED
        BY <4>1, <4>2 DEF StoreKept
    <3>2. LocksKept'
      BY DEF LocksKept, ReadKept
    <3>3. SemestersKept'
      BY DEF SemestersKept, Active, Entity
    <3>4. TrailKept'
      <4> SUFFICES ASSUME NEW e \in Entities, HistoryKept(e)
                   PROVE  HistoryKept(e)'
        BY DEF TrailKept
      <4>1. Valued(e)' = Valued(e) /\ Prevless(e)' = Prevless(e) /\ Unread(e)' = Unread(e)
        BY DEF Valued, Prevless, Unread, Entity
      <4>2. \A i, j : Follows(e, i, j)' <=> Follows(e, i, j)
        BY <4>1 DEF Follows
      <4> QED
        BY <4>1, <4>2 DEF HistoryKept, History
    <3>5. AnswersKept'
      <4>1. \A n : Written(n)' = Written(n)
        BY DEF Written
      <4>2. \A n \in 1 .. MaxCalls : AnswerKept(n)'
        BY <4>1 DEF AnswersKept, AnswerKept
      <4>3. ASSUME NEW c \in Admins, Busy(c)'
            PROVE  Unanswered(calls[c])'
        <5>1. Unanswered(calls[c])
          BY <4>3 DEF AnswersKept, Busy
        <5> QED
          BY <5>1 DEF Unanswered, Written
      <4> QED
        BY <4>2, <4>3 DEF AnswersKept, Busy
    <3> QED
      BY <3>1, <3>2, <3>3, <3>4, <3>5
  <2> QED
    BY <2>1, <2>2 DEF Next
<1> QED
  BY <1>1, <1>2, PTL DEF Spec

\* There is never more than one ACTIVE semester, with any number of activations at once
\* (Activate and uq_one_active_semester).
THEOREM OneActiveSemesterHolds == Spec => []OneActiveSemester
<1>1. IInv => OneActiveSemester
  <2> SUFFICES ASSUME IInv
               PROVE  OneActiveSemester
    OBVIOUS
  <2> DEFINE S == {e \in Table("semesters") : Active(e)}
  <2>1. \A e, f \in S : e = f
    BY DEF IInv, SemestersKept
  <2>2. CASE S = {}
    BY <2>2, FS_EmptySet DEF OneActiveSemester
  <2>3. CASE S # {}
    <3>1. PICK e : S = {e}
      BY <2>1, <2>3
    <3>2. Cardinality(S) = 1
      BY <3>1, FS_Singleton
    <3> QED
      BY <3>2 DEF OneActiveSemester
  <2> QED
    BY <2>2, <2>3
<1> QED
  BY <1>1, BackofficeInvariant, PTL

\* The audit trail of every row tells its history (audit.Write in Update, Upsert and
\* AdjustCapacity).
THEOREM AuditTrailHolds == Spec => []AuditTrail
<1>1. IInv => AuditTrail
  BY DEF IInv, TrailKept, HistoryKept, AuditTrail
<1> QED
  BY <1>1, BackofficeInvariant, PTL

\* A call that is answered 200 or 201 has left exactly one event, one that is answered 400,
\* 404 or 409 none (the handlers, after the commit or the rollback).
THEOREM AnsweredMeansDoneHolds == Spec => []AnsweredMeansDone
<1>1. IInv => AnsweredMeansDone
  BY DEF IInv, AnswersKept, AnswerKept, AnsweredMeansDone
<1> QED
  BY <1>1, BackofficeInvariant, PTL

\* The counts of an import are what it created, but for commits whose reply was lost
\* (Service.Import).
THEOREM ImportReportHolds == Spec => []ImportReport
<1>1. IInv => ImportReport
  BY DEF IInv, AnswersKept, AnswerKept, ImportReport
<1> QED
  BY <1>1, BackofficeInvariant, PTL

----
(* No step but the closing of a semester leaves the program without an active one. *)

ActiveStays == \A f \in Table("semesters") : Active(f) => Active(f)'

\* Receiving, refusing, locking and failing change no row.
LEMMA NoRowChanges ==
    ASSUME NEW c \in Admins,
           \/ Posts(c) \/ Fail(c) \/ ImportDies(c) \/ ImportDone(c)
           \/ ActivateSnapshot(c) \/ CloseOthers(c) \/ ActivateThis(c) \/ IndexEntry(c)
           \/ DeadlockDetected(c) \/ ReadSetting(c)
           \/ LockStudent(c) \/ LockAdminUser(c) \/ LockGroup(c)
    PROVE  ActiveStays
<1>1. ASSUME NEW pc, NEW op, NEW valid, Receive(c, pc, op, valid)
      PROVE  rows' = rows
  BY <1>1 DEF Receive
<1>2. ASSUME SemesterPosts(c)
      PROVE  rows' = rows
  BY <1>1, <1>2 DEF SemesterPosts, PostSemester, PostActivate, PostClose
<1>3. ASSUME DirectoryPosts(c)
      PROVE  rows' = rows
  BY <1>1, <1>3 DEF DirectoryPosts, PostStudent, PatchStudent, PostRecord, PostImport,
                    PostAdminUser, PatchAdminUser, PutSetting
<1>4. ASSUME CatalogPosts(c)
      PROVE  rows' = rows
  BY <1>1, <1>4 DEF CatalogPosts, PostCatalog, PostElective, PatchElective, PostPrerequisite,
                    PostOffering, PostOfferingPrereq, PostGroup, PatchGroup, PostCapacity,
                    PostWindow, PatchWindow
<1>5. ASSUME Fail(c) \/ ImportDies(c) \/ ImportDone(c) \/ DeadlockDetected(c) \/ ReadSetting(c)
      PROVE  rows' = rows
  BY <1>5 DEF Fail, ImportDies, ImportDone, DeadlockDetected, ReadSetting, Refuse
<1>6. ASSUME ActivateSnapshot(c) \/ CloseOthers(c) \/ ActivateThis(c) \/ IndexEntry(c)
      PROVE  rows' = rows
  BY <1>6 DEF ActivateSnapshot, CloseOthers, ActivateThis, IndexEntry, Refuse
<1>7. ASSUME LockStudent(c) \/ LockAdminUser(c) \/ LockGroup(c)
      PROVE  rows' = rows
  BY <1>7 DEF LockStudent, LockAdminUser, LockGroup, LockRow, Refuse
<1>8. rows' = rows
  BY <1>2, <1>3, <1>4, <1>5, <1>6, <1>7 DEF Posts
<1> QED
  BY <1>8 DEF ActiveStays, Active

LEMMA OneRowChanges ==
    ASSUME NEW e, NEW row, IInv, rows' = [rows EXCEPT ![e] = row],
           rows[e] = None \/ Info[e].table # "semesters"
    PROVE  ActiveStays
<1>1. \A f \in Table("semesters") : f \in Entities
  BY StoreAssumption DEF IInv, StoreKept
<1>2. \A f \in Entities : f # e => rows'[f] = rows[f]
  BY DEF IInv, StoreKept
<1> QED
  BY <1>1, <1>2 DEF ActiveStays, Active

LEMMA InsertsKeepActive ==
    ASSUME NEW c \in Admins, NEW conflict, NEW dangling,
           IInv, calls[c].pc \in Creating, Insert(c, conflict, dangling)
    PROVE  ActiveStays
<1>1. Entity(c) \in Entities
  BY EntityOf DEF IInv, Creating
<1>2. CASE rows' = rows
  BY <1>2 DEF ActiveStays, Active
<1>3. CASE ~Conflict(Entity(c)) /\ rows' = [rows EXCEPT ![Entity(c)] = NewRow(Entity(c))]
  <2>1. rows[Entity(c)] = None
    BY <1>1, <1>3, NewMeansAbsent
  <2> QED
    BY <1>3, <2>1, OneRowChanges
<1> QED
  BY <1>2, <1>3 DEF Insert, Refuse

LEMMA UpdatesKeepActive ==
    ASSUME NEW c \in Admins, IInv,
           \/ UpdateStudent(c) \/ UpdateAdminUser(c) \/ Upsert(c) \/ AdjustCapacity(c)
           \/ UpdateElective(c) \/ UpdateGroup(c) \/ UpdateWindow(c)
    PROVE  ActiveStays
<1>1. Info[Entity(c)].table # "semesters"
  <2>1. calls[c].pc \in {"updateStudent", "updateAdminUser", "upsertSetting", "adjustCapacity",
                         "updateElective", "updateGroup", "updateWindow"}
    BY DEF UpdateStudent, UpdateAdminUser, Upsert, AdjustCapacity, UpdateElective, UpdateGroup,
           UpdateWindow
  <2>2. OpAt(calls[c].pc, calls[c].op)
    BY <2>1, EntityOf DEF IInv
  <2> QED
    BY <2>1, <2>2 DEF OpAt, OnAccounts, OnSettings, OnGroups, OnOthers, Entity
<1>2. CASE rows' = rows
  BY <1>2 DEF ActiveStays, Active
<1>3. CASE \E row : rows' = [rows EXCEPT ![Entity(c)] = row]
  BY <1>1, <1>3, OneRowChanges
<1> QED
  BY <1>2, <1>3 DEF UpdateStudent, UpdateAdminUser, Upsert, AdjustCapacity, UpdateElective,
                    UpdateGroup, UpdateWindow, WriteBack, UpdateInPlace, Refuse

LEMMA ImportsKeepActive ==
    ASSUME NEW c \in Admins, IInv, ImportRow(c) \/ ImportRowFails(c)
    PROVE  ActiveStays
<1> PICK e : e = Head(calls[c].op.list).e
  OBVIOUS
<1>1. calls[c].pc = "import" /\ calls[c].op.list # << >>
  BY DEF ImportRow, ImportRowFails
<1>2. Info[e].table = "students"
  BY <1>1, NextRowIs DEF IInv, StoreKept
<1>3. CASE rows' = rows
  BY <1>3 DEF ActiveStays, Active
<1>4. CASE rows' = [rows EXCEPT ![e] = NewRow(e)]
  BY <1>2, <1>4, OneRowChanges
<1> QED
  BY <1>3, <1>4 DEF ImportRow, ImportRowFails

\* Only Close leaves the program without an active semester: an activation that fails,
\* or names a semester that does not exist, has closed nothing (the rollback of Activate).
THEOREM ActivationKeepsOneHolds == Spec => ActivationKeepsOne
<1> DEFINE Kept == (\E e \in Table("semesters") : Active(e)) =>
                     \/ \E e \in Table("semesters") : Active(e)'
                     \/ \E c \in Admins : calls[c].pc = "closeSemester" /\ calls'[c].pc = "idle"
<1>1. IInv /\ [Next]_vars => [Kept]_vars
  <2> SUFFICES ASSUME IInv, Next
               PROVE  Kept
    OBVIOUS
  <2>1. PICK c \in Admins : Posts(c) \/ Steps(c) \/ Faults(c)
    BY DEF Next
  <2>2. CASE ActiveStays
    BY <2>2 DEF ActiveStays
  <2>3. CASE CommitActivation(c)
    <3>1. Entity(c) \in Table("semesters") /\ Entity(c) \in Entities /\ calls[c].pc = "commitActivation"
      BY <2>3, ActivationCall DEF CommitActivation, OnSteps, Activating
    <3>2. rows[Entity(c)] \in SemesterRow
      <4>1. ReadKept(calls[c]) /\ RowKept(Entity(c))
        BY <3>1 DEF IInv, LocksKept, StoreKept
      <4> QED
        BY <3>1, <4>1 DEF ReadKept, RowKept, Entity
    <3>3. rows'[Entity(c)] = [rows[Entity(c)] EXCEPT !.a = "ACTIVE"]
      BY <2>3, <3>1 DEF CommitActivation
    <3>4. PICK x : x = Entity(c)
      OBVIOUS
    <3>5. rows'[x] # None /\ rows'[x].a = "ACTIVE"
      BY <3>2, <3>3, <3>4, StoreAssumption DEF SemesterRow, Statuses
    <3>6. x \in Table("semesters") /\ Active(x)'
      BY <3>1, <3>4, <3>5 DEF Active
    <3> QED
      BY <3>6
  <2>4. CASE CloseSemester(c)
    <3>1. calls[c].pc = "closeSemester" /\ calls' = [calls EXCEPT ![c] = Idle]
      BY <2>4 DEF CloseSemester, Refuse, Done, Answer
    <3>2. calls'[c].pc = "idle"
      BY <3>1, IdleCall DEF IInv, StoreKept
    <3> QED
      BY <3>1, <3>2
  <2>5. CASE SemesterStep(c)
    <3>1. CASE CreateSemester(c)
      BY <2>2, <3>1, InsertsKeepActive DEF CreateSemester, Creating
    <3> QED
      BY <2>2, <2>3, <2>4, <2>5, <3>1, NoRowChanges DEF SemesterStep
  <2>6. CASE DirectoryStep(c)
    <3>1. CASE CreateStudent(c) \/ CreateAcademicRecord(c) \/ CreateAdminUser(c)
      BY <2>2, <3>1, InsertsKeepActive DEF CreateStudent, CreateAcademicRecord, CreateAdminUser, Creating
    <3> QED
      BY <2>2, <2>6, <3>1, NoRowChanges, UpdatesKeepActive, ImportsKeepActive DEF DirectoryStep
  <2>7. CASE CatalogStep(c)
    <3>1. CASE \/ CreateElective(c) \/ CreatePrerequisite(c) \/ CreateOffering(c)
               \/ CreateOfferingPrereq(c) \/ CreateGroup(c) \/ CreateWindow(c)
      BY <2>2, <3>1, InsertsKeepActive
         DEF CreateElective, CreatePrerequisite, CreateOffering, CreateOfferingPrereq, CreateGroup,
             CreateWindow, Creating
    <3> QED
      BY <2>2, <2>7, <3>1, NoRowChanges, UpdatesKeepActive DEF CatalogStep
  <2>8. CASE Posts(c) \/ Faults(c)
    BY <2>2, <2>8, NoRowChanges, ImportsKeepActive DEF Faults, DirectoryFaults
  <2> QED
    BY <2>1, <2>5, <2>6, <2>7, <2>8 DEF Steps
<1> QED
  BY <1>1, BackofficeInvariant, PTL DEF Spec, ActivationKeepsOne

====
