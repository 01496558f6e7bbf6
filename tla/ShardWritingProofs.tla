------------------------- MODULE ShardWritingProofs -------------------------
(***************************************************************************)
(* Writing and the streams to the followers preserve the invariant of       *)
(* ShardReplication.                                                        *)
(***************************************************************************)
EXTENDS ShardAttachmentProofs

-----------------------------------------------------------------------------
(* Writing *)

\* An entry that continues a contiguous log.
LEMMA AppendFacts ==
    ASSUME NEW S, S \subseteq Entry, NEW s \in Seq(S), Contiguous(s), NEW e \in S,
           s = <<>> \/ e.off = LastOff(s) + 1
    PROVE  /\ Append(s, e) \in Seq(S) /\ Contiguous(Append(s, e))
           /\ LastOff(Append(s, e)) = e.off
  <1> DEFINE a == Append(s, e)
  <1>1. s \in Seq(Entry) /\ Len(s) \in Nat /\ DOMAIN s = 1 .. Len(s)
    BY SeqGrows, LenProperties
  <1>2. /\ a \in Seq(S) /\ Len(a) = Len(s) + 1 /\ a[Len(s) + 1] = e
        /\ \A i \in 1 .. Len(s) : a[i] = s[i]
    BY AppendProperties
  <1> HIDE DEF a
  <1>3. DOMAIN a = 1 .. Len(s) + 1
    BY <1>2, LenProperties
  <1>4. LastOff(a) = e.off
    <2>1. a # <<>>
      BY <1>1, <1>2, EmptySeq
    <2> QED BY <1>2, <2>1 DEF LastOff
  <1>5. CASE s = <<>>
    <2>1. Len(s) = 0
      BY <1>5
    <2>2. a[1].off = a[1].off + 1 - 1
      <3>1. a[1] \in Entry
        BY <1>2, <2>1
      <3>2. a[1].off \in Nat
        BY <3>1 DEF Entry
      <3> QED BY <3>2
    <2>3. Contiguous(a)
      BY <1>3, <2>1, <2>2 DEF Contiguous
    <2> QED BY <1>2, <1>4, <2>3 DEF a
  <1>6. CASE s # <<>>
    <2>1. Len(s) \in Nat \ {0} /\ a[1] = s[1]
      BY <1>1, <1>2, <1>6, EmptySeq
    <2>2. e.off = s[1].off + Len(s) - 1 + 1
      BY <1>1, <1>6, LastOffType
    <2>3. s[1].off \in Nat
      <3>1. s[1] \in Entry
        BY <1>1, <2>1, ElementOfSeq
      <3> QED BY <3>1 DEF Entry
    <2>4. \A i \in 1 .. Len(s) + 1 : a[i].off = a[1].off + i - 1
      <3> SUFFICES ASSUME NEW i \in 1 .. Len(s) + 1 PROVE a[i].off = a[1].off + i - 1
        OBVIOUS
      <3>1. CASE i \in 1 .. Len(s)
        BY <1>1, <1>2, <2>1, <3>1 DEF Contiguous
      <3>2. CASE i = Len(s) + 1
        BY <1>1, <1>2, <2>1, <2>2, <2>3, <3>2
      <3> QED BY <1>1, <3>1, <3>2
    <2>5. Contiguous(a)
      BY <1>3, <2>4 DEF Contiguous
    <2> QED BY <1>2, <1>4, <2>5 DEF a
  <1> QED BY <1>5, <1>6

\* A leader takes the next offset, whether or not its WAL takes the entry.
LEMMA NextOffsetStep ==
    ASSUME TypeOK, LeadInv, ConnInv, UNCHANGED <<role, conn, status>>,
           NEW l \in Node, status[l] = "LEADER", NEW o \in Nat,
           lead' = [lead EXCEPT ![l].next = o]
    PROVE  lead' \in [Node -> Lead] /\ LeadInv' /\ ConnInv'
  <1> DEFINE v == [lead[l] EXCEPT !.next = o]
  <1>1. lead' = [lead EXCEPT ![l] = v]
    BY DEF TypeOK
  <1>2. v \in Lead /\ v.phase = lead[l].phase /\ v.cur = lead[l].cur
    BY LeadType DEF Lead
  <1> HIDE DEF v
  <1>3. /\ UNCHANGED <<role, conn>> /\ v.phase # "none"
        /\ \A g \in Node : lead[l].cur[g] # None => v.cur[g] # None
    BY <1>2 DEF LeadInv
  <1>4. \A n \in Node : status'[n] = "LEADER" <=> status[n] = "LEADER"
    OBVIOUS
  <1> QED BY <1>1, <1>2, <1>3, <1>4, UpdateLead, Zenon

\* The entry is beyond all that was written in the leader's term.
LEMMA WriteStreamStep ==
    ASSUME IInv, NEW l \in Node, WriteStream(l)
    PROVE  IInv'
  <1> USE DEF IInv, coordVars
  <1> DEFINE o == lead[l].next + 1
             e == [off |-> o, term |-> term[l], val |-> Cardinality(written) + 1]
  <1>1. /\ status[l] = "LEADER" /\ Cardinality(written) < MaxWrites
        /\ lead' = [lead EXCEPT ![l].next = o]
        /\ \/ /\ log[l] = <<>> \/ o = Last(l) + 1
              /\ log' = [log EXCEPT ![l] = Append(@, e)] /\ written' = written \cup {e}
           \/ UNCHANGED <<log, written>>
        /\ UNCHANGED <<term, status, role, synced, db, flushed, wiped, lastApp, adv, applied,
                       conn, coordVars, answered, crashes>>
    BY DEF WriteStream
  <1>2. Last(l) \in Nat /\ Cardinality(written) \in Nat /\ o \in Nat \ {0}
    <2>1. Last(l) \in Nat
      BY LastOffType DEF TypeOK, Last
    <2>2. Cardinality(written) \in Nat
      BY FS_CardinalityType DEF LogInv
    <2>3. lead[l].next \in Nat
      BY LeadType
    <2> QED BY <2>1, <2>2, <2>3
  <1>3. e \in Entry /\ e.off = o /\ e.term = term[l]
    <2>1. Cardinality(written) + 1 \in 1 .. MaxWrites
      <3>1. Cardinality(written) < MaxWrites
        BY <1>1
      <3> QED BY <1>2, <3>1, BoundAssumption
    <2>2. term[l] \in Term
      BY DEF TypeOK
    <2> HIDE DEF o
    <2> QED BY <1>2, <2>1, <2>2 DEF Entry
  <1> HIDE DEF e, o
  <1>4. lead' \in [Node -> Lead] /\ LeadInv' /\ ConnInv'
    <2>1. UNCHANGED <<role, conn, status>> /\ o \in Nat
      BY <1>1, <1>2
    <2> QED BY <1>1, <2>1, NextOffsetStep, Zenon
  <1>5. CASE UNCHANGED <<log, written>>
    <2>1. TypeOK'
      BY <1>1, <1>4, <1>5 DEF TypeOK
    <2>2. LogInv' /\ ElectInv' /\ WriteInv'
      BY <1>1, <1>5, QuietLog, QuietElect
    <2> QED BY <1>4, <2>1, <2>2
  <1>6. CASE /\ log[l] = <<>> \/ o = Last(l) + 1
             /\ log' = [log EXCEPT ![l] = Append(@, e)] /\ written' = written \cup {e}
    <2>1. IsFiniteSet(written')
      BY <1>6, FS_AddElement DEF LogInv
    <2>2. written' \subseteq Entry /\ written \subseteq written'
      BY <1>3, <1>6 DEF TypeOK
    <2>3. \A n \in Node : log[n] \in Seq(written') /\ db[n] \in Seq(written')
      BY <2>2, SeqGrows DEF LogInv
    <2>4. /\ Append(log[l], e) \in Seq(written') /\ Contiguous(Append(log[l], e))
          /\ LastOff(Append(log[l], e)) = e.off
      <3>1. e \in written' /\ Contiguous(log[l]) /\ (log[l] = <<>> \/ e.off = LastOff(log[l]) + 1)
        BY <1>3, <1>6 DEF LogInv, Last
      <3> QED BY <2>2, <2>3, <3>1, AppendFacts
    <2>5. /\ log' \in [Node -> Seq(written')] /\ db' \in [Node -> Seq(written')]
          /\ log'[l] = Append(log[l], e) /\ \A n \in Node \ {l} : log'[n] = log[n]
      BY <1>1, <1>6, <2>3, <2>4 DEF TypeOK
    <2>6. LogInv'
      BY <2>1, <2>4, <2>5 DEF LogInv
    <2>7. TypeOK'
      <3>1. db' \in [Node -> Seq(Entry)] /\ log' \in [Node -> Seq(Entry)]
        BY <2>2, <2>5, StoreType
      <3> QED BY <1>1, <1>4, <2>2, <3>1 DEF TypeOK
    <2>8. /\ term[l] >= 0 /\ chosen[term[l]] = l /\ l # None
          /\ \A d \in written : d.term = term[l] => d.off <= Last(l)
      BY <1>1, NoneAssumption DEF ElectInv
    <2>9. Last(l) < o
      <3>1. log[l] = <<>> => Last(l) = 0
        BY DEF Last, LastOff
      <3> QED BY <1>2, <1>6, <3>1
    <2>10. \A d \in written : d.term = term[l] => d.off < o
      <3>1. \A d \in written : d.off \in Nat
        BY DEF TypeOK, Entry
      <3> QED BY <1>2, <2>8, <2>9, <3>1
    <2>11. ElectInv'
      <3>1. \A r \in becoming : r.term # term[l]
        BY <1>1 DEF ElectInv
      <3>2. \A m \in Node : status[m] = "LEADER" =>
                \A d \in written' : d.term = term[m] => d.off <= Last(m)'
        <4> SUFFICES ASSUME NEW m \in Node, status[m] = "LEADER", NEW d \in written',
                            d.term = term[m]
                     PROVE  d.off <= Last(m)'
          OBVIOUS
        <4>1. CASE m = l
          <5>1. Last(m)' = o
            BY <1>3, <2>4, <2>5, <4>1 DEF Last
          <5>2. d.off \in Nat /\ (d = e \/ d.off < o)
            BY <1>6, <2>2, <2>10, <4>1 DEF Entry
          <5> QED BY <1>2, <1>3, <5>1, <5>2
        <4>2. CASE m # l
          <5>1. term[m] # term[l]
            BY <1>1, <4>2, ChoiceIsOne DEF OneLeaderPerTerm
          <5>2. d \in written /\ Last(m)' = Last(m)
            BY <1>3, <1>6, <2>5, <4>2, <5>1 DEF Last
          <5> QED BY <5>2 DEF ElectInv
        <4> QED BY <4>1, <4>2
      <3>3. \A d \in written' : d.term >= 0 /\ chosen[d.term] # None
        BY <1>3, <1>6, <2>8 DEF ElectInv
      <3>4. \A r \in becoming : \A d \in written' : d.term # r.term
        BY <1>3, <1>6, <3>1 DEF ElectInv
      <3> QED BY <1>1, <3>2, <3>3, <3>4 DEF ElectInv
    <2>12. WriteInv'
      <3>1. \A d \in written : d.term = e.term => d.off # e.off
        <4>1. ~(o < o)
          BY <1>2
        <4> QED BY <1>3, <2>10, <4>1, Zenon
      <3> QED BY <1>6, <3>1 DEF WriteInv
    <2> QED BY <1>4, <2>6, <2>7, <2>11, <2>12
  <1> QED BY <1>1, <1>5, <1>6

\* A leader that syncs may have committed the entries already.
LEMMA SyncLeaderStep ==
    ASSUME IInv, NEW l \in Node, SyncLeader(l)
    PROVE  IInv'
  <1> USE DEF IInv, coordVars
  <1> DEFINE ready == Ready(l, Last(l), lead[l].commit)
             d == DoneAfter(l, ready)
             v == [lead[l] EXCEPT !.done = d]
  <1>1. /\ lead[l].phase # "none"
        /\ synced' = [synced EXCEPT ![l] = Last(l)]
        /\ Answer(l, ready)
        /\ lead' = [lead EXCEPT ![l].done = d]
        /\ UNCHANGED <<term, status, role, log, flushed, wiped, lastApp, adv, applied, conn,
                       coordVars, written, crashes>>
    BY Zenon DEF SyncLeader
  <1>2. Last(l) \in Nat
    BY LastOffType DEF TypeOK, Last
  <1>3. db' \in [Node -> Seq(written)] /\ answered' \subseteq written /\ d \in Nat
    BY <1>1, AnswerFacts, Zenon
  <1> HIDE DEF ready, d
  <1>4. lead' = [lead EXCEPT ![l] = v]
    BY <1>1 DEF TypeOK
  <1>5. v \in Lead /\ v.phase = lead[l].phase /\ v.cur = lead[l].cur
    BY <1>3, LeadType DEF Lead
  <1> HIDE DEF v
  <1>6. lead' \in [Node -> Lead] /\ LeadInv' /\ ConnInv'
    <2>1. status[l] = "LEADER"
      BY <1>1, ActingLeader
    <2>2. /\ UNCHANGED <<role, conn>> /\ v.phase # "none"
          /\ \A g \in Node : lead[l].cur[g] # None => v.cur[g] # None
      BY <1>1, <1>5
    <2>3. \A n \in Node : status'[n] = "LEADER" <=> status[n] = "LEADER"
      BY <1>1
    <2> QED BY <1>4, <1>5, <2>1, <2>2, <2>3, UpdateLead, Zenon
  <1>7. TypeOK'
    <2>1. db' \in [Node -> Seq(Entry)]
      BY <1>3, StoreType DEF TypeOK
    <2> QED BY <1>1, <1>2, <1>3, <1>6, <2>1 DEF TypeOK
  <1>8. LogInv'
    BY <1>1, <1>3 DEF LogInv
  <1>9. ElectInv' /\ WriteInv'
    BY <1>1, QuietElect
  <1> QED BY <1>6, <1>7, <1>8, <1>9

\* A node that once led the shard syncs its WAL, and panics.
LEMMA SyncFencedLeaderStep ==
    ASSUME IInv, NEW l \in Node, SyncFencedLeader(l)
    PROVE  IInv'
  <1> USE DEF IInv, coordVars, histVars
  <1>1. /\ synced' = [synced EXCEPT ![l] = Last(l)]
        /\ UNCHANGED <<term, log, db, flushed, wiped, lastApp, adv, applied, conn, lead,
                       coordVars, histVars>>
        /\ role[l] = "leader" /\ lead[l].phase = "none"
        /\ role' = [role EXCEPT ![l] = "none"]
        /\ status' = [status EXCEPT ![l] = "NOT_MEMBER"]
    BY DEF SyncFencedLeader
  <1>2. Last(l) \in Nat
    BY LastOffType DEF TypeOK, Last
  <1>3. TypeOK'
    BY <1>1, <1>2 DEF TypeOK
  <1>4. LogInv'
    BY <1>1, QuietLog
  <1>5. LeadInv'
    BY <1>1 DEF LeadInv, TypeOK
  <1>6. ConnInv'
    BY <1>1 DEF ConnInv, TypeOK
  <1>7. \A n \in Node : status'[n] = "LEADER" => status[n] = "LEADER"
    BY <1>1 DEF TypeOK
  <1>8. ElectInv' /\ WriteInv'
    BY <1>1, <1>7, QuietElect
  <1> QED BY <1>3, <1>4, <1>5, <1>6, <1>8

-----------------------------------------------------------------------------
(* Replication *)

\* A stream is opened by a cursor to a follower.
LEMMA OpenStreamStep ==
    ASSUME IInv, NEW l \in Node, NEW f \in Node, OpenStream(l, f)
    PROVE  IInv'
  <1> USE DEF IInv, coordVars, histVars
  <1>1. /\ lead[l].cur[f] # None /\ role[f] = "follower"
        /\ conn' = [conn EXCEPT ![f] = l]
        /\ UNCHANGED <<term, status, role, log, synced, db, flushed, wiped, lastApp, adv, applied, lead,
                       coordVars, histVars>>
    BY DEF OpenStream
  <1>2. TypeOK'
    BY <1>1 DEF TypeOK
  <1>3. LogInv' /\ ElectInv' /\ WriteInv'
    BY <1>1, QuietLog, QuietElect
  <1>4. LeadInv' /\ ConnInv'
    BY <1>1 DEF LeadInv, ConnInv, TypeOK
  <1> QED BY <1>2, <1>3, <1>4

\* A stream runs from an acting leader to a node that does not lead.
LEMMA StreamEnds ==
    ASSUME IInv, NEW l \in Node, NEW f \in Node, conn[f] = l
    PROVE  /\ role[f] \in {"follower", "hung"} /\ status[f] # "LEADER"
           /\ lead[l].cur[f] # None /\ lead[l].cur[f] \in Cursor
           /\ status[l] = "LEADER" /\ l # f
  <1>1. role[f] \in {"follower", "hung"} /\ lead[l].cur[f] # None
    BY NoneAssumption DEF IInv, ConnInv
  <1>2. status[l] = "LEADER" /\ role[l] = "leader"
    BY <1>1, ActingLeader DEF IInv
  <1>3. status[f] # "LEADER"
    BY <1>1 DEF IInv, LeadInv
  <1>4. lead[l].cur[f] \in Cursor
    BY <1>1, LeadType DEF IInv
  <1> QED BY <1>1, <1>2, <1>3, <1>4

\* A follower appends an entry that its leader has.
LEMMA FollowerAppendStep ==
    ASSUME IInv, NEW l \in Node, NEW f \in Node, FollowerAppend(l, f)
    PROVE  IInv'
  <1> USE DEF IInv, coordVars, histVars
  <1> DEFINE o == lead[l].cur[f].pos + 1
             e == At(l, o)
             x == [lead[l].cur[f] EXCEPT !.pos = o]
  <1>1. /\ conn[f] = l /\ InWal(l, o)
        /\ log[f] = <<>> \/ o = Last(f) + 1
        /\ status' = [status EXCEPT ![f] = "FOLLOWER"]
        /\ log' = [log EXCEPT ![f] = Append(@, e)]
        /\ adv' = [adv EXCEPT ![f] = lead[l].commit]
        /\ lastApp' = [lastApp EXCEPT ![f] = o]
        /\ lead' = [lead EXCEPT ![l].cur[f].pos = o]
        /\ UNCHANGED <<term, role, synced, db, flushed, wiped, applied, conn, coordVars, histVars>>
    BY Zenon DEF FollowerAppend
  <1>2. /\ status[f] # "LEADER" /\ l # f
        /\ lead[l].cur[f] # None /\ lead[l].cur[f] \in Cursor
    BY <1>1, StreamEnds
  <1>3. o \in Nat /\ x \in Cursor
    BY <1>2 DEF Cursor
  <1>4. lead' = [lead EXCEPT ![l].cur[f] = x]
    BY <1>1, LeadType DEF TypeOK
  <1> HIDE DEF o, x
  <1>5. e \in written /\ e.off = o
    BY <1>1, <1>3, AtType
  <1> HIDE DEF e
  <1>6. Append(log[f], e) \in Seq(written) /\ Contiguous(Append(log[f], e))
    <2>1. /\ log[f] \in Seq(written) /\ Contiguous(log[f]) /\ written \subseteq Entry
          /\ log[f] = <<>> \/ e.off = LastOff(log[f]) + 1
      BY <1>1, <1>5 DEF LogInv, TypeOK, Last
    <2> QED BY <1>5, <2>1, AppendFacts
  <1>7. /\ log' \in [Node -> Seq(written)] /\ \A n \in Node : Contiguous(log'[n])
        /\ \A n \in Node \ {f} : log'[n] = log[n]
    BY <1>1, <1>6 DEF LogInv, TypeOK
  <1>8. \A n \in Node : status'[n] = "LEADER" <=> status[n] = "LEADER"
    BY <1>1, <1>2 DEF TypeOK
  <1>9. lead' \in [Node -> Lead] /\ LeadInv' /\ ConnInv'
    <2>1. UNCHANGED <<role, conn>>
      BY <1>1
    <2> QED BY <1>2, <1>3, <1>4, <1>8, <2>1, UpdateCursor, Zenon
  <1>10. TypeOK'
    <2>1. log' \in [Node -> Seq(Entry)] /\ lead[l].commit \in Nat
      BY <1>7, StoreType, LeadType DEF TypeOK
    <2> QED BY <1>1, <1>3, <1>9, <2>1 DEF TypeOK
  <1>11. LogInv'
    BY <1>1, <1>7 DEF LogInv
  <1>12. ElectInv' /\ WriteInv'
    BY <1>1, <1>2, <1>7, <1>8, QuietElect
  <1> QED BY <1>9, <1>10, <1>11, <1>12

\* A follower acknowledges an entry it takes for a duplicate.
LEMMA FollowerDuplicateStep ==
    ASSUME IInv, NEW l \in Node, NEW f \in Node, FollowerDuplicate(l, f)
    PROVE  IInv'
  <1> USE DEF IInv, coordVars, histVars
  <1> DEFINE c == lead[l].cur[f]
             o == c.pos + 1
             x == [ack |-> c.ack, pos |-> o, sent |-> IF c.sent < o THEN o ELSE c.sent]
  <1>1. /\ conn[f] = l
        /\ status' = [status EXCEPT ![f] = "FOLLOWER"]
        /\ lead' = [lead EXCEPT ![l].cur[f] = x]
        /\ UNCHANGED <<term, role, log, synced, db, flushed, wiped, lastApp, adv, applied, conn,
                       coordVars, histVars>>
    BY Zenon DEF FollowerDuplicate
  <1>2. /\ status[f] # "LEADER" /\ l # f
        /\ lead[l].cur[f] # None /\ c \in Cursor
    BY <1>1, StreamEnds
  <1>3. x \in Cursor
    <2>1. c.ack \in Nat /\ c.sent \in Nat /\ o \in Nat
      BY <1>2 DEF Cursor
    <2> HIDE DEF c, o
    <2> QED BY <2>1 DEF Cursor
  <1> HIDE DEF c, o, x
  <1>4. \A n \in Node : status'[n] = "LEADER" <=> status[n] = "LEADER"
    BY <1>1, <1>2 DEF TypeOK
  <1>5. lead' \in [Node -> Lead] /\ LeadInv' /\ ConnInv'
    <2>1. UNCHANGED <<role, conn>>
      BY <1>1
    <2> QED BY <1>1, <1>2, <1>3, <1>4, <2>1, UpdateCursor, Zenon
  <1>6. TypeOK'
    BY <1>1, <1>5 DEF TypeOK
  <1>7. LogInv' /\ ElectInv' /\ WriteInv'
    BY <1>1, <1>4, QuietLog, QuietElect
  <1> QED BY <1>5, <1>6, <1>7

\* A stream ends at its follower.
LEMMA StreamEndStep ==
    ASSUME IInv, NEW f \in Node, (\E l \in Node : FollowerRefuses(l, f)) \/ BreakStream(f)
    PROVE  IInv'
  <1> USE DEF IInv, coordVars, histVars
  <1> DEFINE c == [conn EXCEPT ![f] = None]
  <1>1. /\ conn[f] # None /\ Cut(c)
        /\ status' = status \/ status' = [status EXCEPT ![f] = "FOLLOWER"]
        /\ UNCHANGED <<term, role, log, synced, db, flushed, wiped, lastApp, adv, applied,
                       coordVars, histVars>>
    BY NoneAssumption DEF FollowerRefuses, BreakStream
  <1>2. c \in [Node -> Node \cup {None}] /\ \A g \in Node : c[g] \in {conn[g], None}
    BY DEF TypeOK
  <1> HIDE DEF c
  <1>3. status[f] # "LEADER"
    BY <1>1 DEF ConnInv, LeadInv
  <1>4. /\ \A n \in Node : status'[n] = "LEADER" <=> status[n] = "LEADER"
        /\ status' \in [Node -> {"NOT_MEMBER", "FENCED", "FOLLOWER", "LEADER"}]
    BY <1>1, <1>3 DEF TypeOK
  <1>5. /\ LeadInv' /\ ConnInv'
        /\ conn' \in [Node -> Node \cup {None}] /\ lead' \in [Node -> Lead]
    BY <1>1, <1>2, <1>4, CutLead
  <1>6. TypeOK'
    BY <1>1, <1>4, <1>5 DEF TypeOK
  <1>7. LogInv' /\ ElectInv' /\ WriteInv'
    BY <1>1, <1>4, QuietLog, QuietElect
  <1> QED BY <1>5, <1>6, <1>7

\* A follower syncs its log.
LEMMA SyncFollowerStep ==
    ASSUME IInv, NEW f \in Node, SyncFollower(f)
    PROVE  IInv'
  <1> USE DEF IInv, coordVars, histVars
  <1>1. /\ synced' = [synced EXCEPT ![f] = Last(f)]
        /\ lead' = IF conn[f] = None THEN lead
                   ELSE [lead EXCEPT ![conn[f]].cur[f].sent = Last(f)]
        /\ UNCHANGED <<term, status, role, log, db, flushed, wiped, lastApp, adv, applied, conn,
                       coordVars, histVars>>
    BY DEF SyncFollower
  <1>2. Last(f) \in Nat
    BY LastOffType DEF TypeOK, Last
  <1>3. lead' \in [Node -> Lead] /\ LeadInv' /\ ConnInv'
    <2>1. CASE conn[f] = None
      BY <1>1, <2>1 DEF TypeOK, LeadInv, ConnInv
    <2>2. CASE conn[f] # None
      <3> DEFINE l == conn[f]
                 x == [lead[l].cur[f] EXCEPT !.sent = Last(f)]
      <3>1. l \in Node /\ lead[l].cur[f] # None /\ lead[l].cur[f] \in Cursor
        BY <2>2, StreamEnds DEF TypeOK
      <3>2. x \in Cursor
        BY <1>2, <3>1 DEF Cursor
      <3>3. lead' = [lead EXCEPT ![l].cur[f] = x]
        BY <1>1, <2>2, <3>1, LeadType DEF TypeOK
      <3> HIDE DEF l, x
      <3>4. /\ UNCHANGED <<role, conn>>
            /\ \A n \in Node : status'[n] = "LEADER" <=> status[n] = "LEADER"
        BY <1>1
      <3> QED BY <3>1, <3>2, <3>3, <3>4, UpdateCursor, Zenon
    <2> QED BY <2>1, <2>2
  <1>4. TypeOK'
    BY <1>1, <1>2, <1>3 DEF TypeOK
  <1>5. LogInv' /\ ElectInv' /\ WriteInv'
    BY <1>1, QuietLog, QuietElect
  <1> QED BY <1>3, <1>4, <1>5
=============================================================================
