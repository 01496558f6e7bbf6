---------------------- MODULE ShardReplicationInvariant ----------------------
(***************************************************************************)
(* The inductive invariant of ShardReplication, and lemmas about the        *)
(* operators the module is built from.                                      *)
(*                                                                          *)
(* One leader per term rests on the coordinator, which uses a term for one  *)
(* selection (ElectInv: a request that is on its way, a node that leads and *)
(* an entry that was written each bear witness to the one choice of their   *)
(* term).  It is needed itself to see that the shards director never closes *)
(* the controller of an acting leader in favour of a follower (LeadInv).    *)
(* Entries are unique because an acting leader only appends to its log, and *)
(* the log reaches beyond all that was written in its term.                 *)
(***************************************************************************)
EXTENDS ShardReplication, SequenceTheorems, FiniteSetTheorems, WellFoundedInduction, TLAPS

\* Offsets are contiguous.
Contiguous(s) == \A i \in DOMAIN s : s[i].off = s[1].off + i - 1

\* Logs and databases only hold what a leader has written.
LogInv ==
    /\ IsFiniteSet(written)
    /\ \A n \in Node : /\ log[n] \in Seq(written) /\ db[n] \in Seq(written)
                       /\ Contiguous(log[n])

\* Who leads has a leader controller, and nobody else has cursors.
LeadInv ==
    \A n \in Node : IF status[n] = "LEADER"
                    THEN role[n] = "leader" /\ lead[n].phase # "none"
                    ELSE lead[n] = NoLead

\* A stream runs from a cursor to a follower controller.
ConnInv ==
    \A f \in Node : conn[f] # None =>
        role[f] \in {"follower", "hung"} /\ lead[conn[f]].cur[f] # None

\* Requests, leaders and entries agree with the choice the coordinator made.
ElectInv ==
    /\ phase # "idle" => cterm >= 0
    /\ phase \in {"becoming", "steady"} => leader # None
    /\ \A t \in 0 .. MaxTerm : chosen[t] # None =>
          t <= cterm /\ (t = cterm => phase \in {"becoming", "steady"})
    /\ \A r \in becoming :
          /\ chosen[r.term] = r.node
          /\ \A n \in Node : status[n] = "LEADER" => term[n] # r.term
          /\ \A e \in written : e.term # r.term
          /\ \A q \in becoming : q.term = r.term => q = r
    /\ \A n \in Node : status[n] = "LEADER" =>
          /\ term[n] >= 0 /\ chosen[term[n]] = n
          /\ \A e \in written : e.term = term[n] => e.off <= Last(n)
    /\ \A e \in written : e.term >= 0 /\ chosen[e.term] # None

WriteInv == \A d, e \in written : d.term = e.term /\ d.off = e.off => d = e

IInv == TypeOK /\ LogInv /\ LeadInv /\ ConnInv /\ ElectInv /\ WriteInv

-----------------------------------------------------------------------------
(* Sequences of entries *)

\* A sequence over a set is one over every larger set.
LEMMA SeqGrows ==
    ASSUME NEW A, NEW B, A \subseteq B, NEW s \in Seq(A)
    PROVE  s \in Seq(B)
  OBVIOUS

\* Count counts positions of the sequence.
LEMMA CountType ==
    ASSUME NEW S, NEW s \in Seq(S), NEW o
    PROVE  Count(s, o) \in Nat /\ Count(s, o) <= Len(s)
  <1> DEFINE I == {i \in DOMAIN s : s[i].off <= o}
  <1>1. Len(s) \in Nat /\ I \subseteq 1 .. Len(s)
    BY LenProperties
  <1>2. IsFiniteSet(1 .. Len(s)) /\ Cardinality(1 .. Len(s)) = Len(s)
    <2>1. 1 \in Int /\ Len(s) \in Int
      BY <1>1
    <2>2. /\ IsFiniteSet(1 .. Len(s))
          /\ Cardinality(1 .. Len(s)) = IF 1 > Len(s) THEN 0 ELSE Len(s) - 1 + 1
      BY <2>1, FS_Interval, Zenon
    <2> QED BY <1>1, <2>2
  <1>3. IsFiniteSet(I) /\ Cardinality(I) <= Cardinality(1 .. Len(s))
    BY <1>1, <1>2, FS_Subset
  <1>4. Cardinality(I) \in Nat
    BY <1>3, FS_CardinalityType
  <1> QED BY <1>2, <1>3, <1>4 DEF Count

\* A prefix of a contiguous sequence is contiguous.
LEMMA PrefixType ==
    ASSUME NEW S, NEW s \in Seq(S), NEW k \in Nat, k <= Len(s)
    PROVE  /\ SubSeq(s, 1, k) \in Seq(S)
           /\ Contiguous(s) => Contiguous(SubSeq(s, 1, k))
  <1> DEFINE p == SubSeq(s, 1, k)
  <1>1. p \in Seq(S) /\ Len(p) = k /\ \A i \in 1 .. k : p[i] = s[i]
    BY LenProperties
  <1> HIDE DEF p
  <1>2. DOMAIN p = 1 .. k /\ DOMAIN s = 1 .. Len(s) /\ Len(s) \in Nat
    BY <1>1, LenProperties
  <1>3. Contiguous(s) => Contiguous(p)
    BY <1>1, <1>2 DEF Contiguous
  <1> QED BY <1>1, <1>3 DEF p

\* The entries up to an offset.
LEMMA UpToType ==
    ASSUME NEW S, NEW s \in Seq(S), NEW o
    PROVE  UpTo(s, o) \in Seq(S) /\ (Contiguous(s) => Contiguous(UpTo(s, o)))
  BY CountType, PrefixType DEF UpTo

\* The entries after an offset.
LEMMA AfterType ==
    ASSUME NEW S, NEW s \in Seq(S), NEW o
    PROVE  After(s, o) \in Seq(S)
  <1>1. Count(s, o) + 1 \in Nat \ {0} /\ Len(s) \in Nat
    BY CountType, LenProperties
  <1>2. \A i \in Count(s, o) + 1 .. Len(s) : s[i] \in S
    BY <1>1, LenProperties
  <1>3. Count(s, o) + 1 \in Int /\ Len(s) \in Int
    BY <1>1
  <1> QED BY <1>2, <1>3, SubSeqProperties, Zenon DEF After

\* The last offset, of a contiguous sequence in terms of the first one.
LEMMA LastOffType ==
    ASSUME NEW s \in Seq(Entry)
    PROVE  /\ LastOff(s) \in Nat
           /\ Contiguous(s) /\ s # <<>> => LastOff(s) = s[1].off + Len(s) - 1
  <1>1. CASE s = <<>>
    BY <1>1 DEF LastOff
  <1>2. CASE s # <<>>
    <2>1. Len(s) \in Nat \ {0} /\ DOMAIN s = 1 .. Len(s)
      BY <1>2, EmptySeq, LenProperties
    <2>2. s[Len(s)] \in Entry
      BY <2>1, ElementOfSeq
    <2>3. s[Len(s)].off \in Nat
      BY <2>2 DEF Entry
    <2>4. Contiguous(s) => s[Len(s)].off = s[1].off + Len(s) - 1
      BY <2>1 DEF Contiguous
    <2>5. LastOff(s) = s[Len(s)].off
      BY <1>2 DEF LastOff
    <2> QED BY <2>3, <2>4, <2>5
  <1> QED BY <1>1, <1>2

\* A set of positions that is not empty has a last one.
LEMMA LastPosition ==
    ASSUME NEW n \in Nat, NEW I, I \subseteq 1 .. n, I # {}
    PROVE  \E m \in I : \A i \in I : i <= m
  <1> DEFINE R == OpToRel(<, Nat)
             K == {k \in 0 .. n : n - k \in I}
  <1>0. K \subseteq Nat
    OBVIOUS
  <1>1. K # {}
    <2>1. PICK a \in I : a \in 1 .. n
      OBVIOUS
    <2>2. n - a \in K
      BY <2>1
    <2> HIDE DEF K
    <2> QED BY <2>2
  <1>2. PICK k \in K : \A j \in K : ~(<<j, k>> \in R)
    <2> HIDE DEF K
    <2> QED BY <1>0, <1>1, NatLessThanWellFounded, WFMin
  <1>3. \A i, j \in Nat : i < j => <<i, j>> \in R
    BY DEF OpToRel
  <1> HIDE DEF R
  <1>4. ASSUME NEW i \in I PROVE i <= n - k
    <2>1. i \in 1 .. n /\ n - i \in K /\ n - i \in Nat /\ k \in Nat
      OBVIOUS
    <2>2. ~(n - i < k)
      BY <2>1, <1>2, <1>3, Zenon
    <2> QED BY <2>1, <2>2
  <1> QED BY <1>4, <1>2

-----------------------------------------------------------------------------
(* Parts of the state *)

\* What the WAL holds at an offset it covers is a written entry of that offset.
LEMMA AtType ==
    ASSUME TypeOK, LogInv, NEW n \in Node, NEW o \in Nat, InWal(n, o)
    PROVE  At(n, o) \in written /\ At(n, o) \in Entry /\ At(n, o).off = o
  <1> DEFINE s == log[n]
             i == o - s[1].off + 1
  <1>1. s \in Seq(Entry) /\ s \in Seq(written) /\ s # <<>> /\ Contiguous(s)
    BY DEF TypeOK, LogInv, InWal
  <1>2. Len(s) \in Nat \ {0} /\ DOMAIN s = 1 .. Len(s)
    BY <1>1, EmptySeq, LenProperties
  <1>3. s[1] \in Entry
    BY <1>1, <1>2, ElementOfSeq
  <1>4. s[1].off \in Nat
    BY <1>3 DEF Entry
  <1>5. s[1].off <= o /\ o <= s[1].off + Len(s) - 1
    BY <1>1, LastOffType DEF InWal, Last
  <1> HIDE DEF s
  <1>6. i \in 1 .. Len(s)
    BY <1>2, <1>4, <1>5
  <1>7. s[i] \in written /\ s[i] \in Entry
    BY <1>1, <1>6, ElementOfSeq
  <1>8. s[i].off = s[1].off + i - 1
    BY <1>1, <1>2, <1>6 DEF Contiguous
  <1>9. s[i].off = o
    BY <1>4, <1>8
  <1> QED BY <1>7, <1>9 DEF At, s

\* What a node answers to NewTerm.
LEMMA HeadEntryType ==
    ASSUME TypeOK, LogInv, NEW n \in Node
    PROVE  HeadEntry(n) \in EntryId
  <1>1. synced[n] \in Nat
    BY DEF TypeOK
  <1>2. ASSUME InWal(n, synced[n]) PROVE At(n, synced[n]).term \in Term
    BY <1>1, <1>2, AtType DEF Entry
  <1> QED BY <1>1, <1>2, BoundAssumption DEF HeadEntry, EntryId, InvalidEntryId, Term

\* Where a leader has a follower truncate.
LEMMA HighestEntryType ==
    ASSUME TypeOK, NEW n \in Node, NEW t
    PROVE  HighestEntryOfTerm(n, t) \in EntryId
  <1> DEFINE I == {i \in DOMAIN log[n] : log[n][i].off <= synced[n] /\ log[n][i].term <= t}
             m == CHOOSE m \in I : \A i \in I : i <= m
  <1>1. log[n] \in Seq(Entry) /\ Len(log[n]) \in Nat /\ DOMAIN log[n] = 1 .. Len(log[n])
    BY LenProperties DEF TypeOK
  <1>2. CASE I = {}
    <2>1. HighestEntryOfTerm(n, t) = InvalidEntryId
      BY <1>2, Zenon DEF HighestEntryOfTerm
    <2> QED BY <2>1, BoundAssumption DEF EntryId, InvalidEntryId, Term
  <1>3. CASE I # {}
    <2>1. I \subseteq 1 .. Len(log[n])
      BY <1>1
    <2>2. \E k \in I : \A i \in I : i <= k
      BY <1>1, <1>3, <2>1, LastPosition
    <2>3. m \in I
      BY <2>2
    <2>4. log[n][m] \in Entry
      BY <1>1, <2>1, <2>3, ElementOfSeq
    <2>5. [term |-> log[n][m].term, off |-> log[n][m].off] \in EntryId
      BY <2>4 DEF Entry, EntryId
    <2> QED BY <1>3, <2>5 DEF HighestEntryOfTerm
  <1> QED BY <1>2, <1>3

\* A new cursor.
LEMMA NewCursorType ==
    ASSUME NEW a \in Nat
    PROVE  NewCursor(a) \in Cursor /\ NewCursor(a) # None
  BY NoneAssumption DEF NewCursor, Cursor

\* A node that does not lead.
LEMMA NoLeadType ==
    /\ NoLead \in Lead /\ NoLead.phase = "none"
    /\ NoLead.todo \in [Node -> EntryId \cup {None}]
    /\ \A f \in Node : NoLead.cur[f] = None /\ NoLead.todo[f] = None
  <1>1. InvalidEntryId \in EntryId
    BY BoundAssumption DEF InvalidEntryId, EntryId, Term
  <1> QED BY <1>1 DEF NoLead, Lead, LeadPhase

\* Only an acting leader has cursors or followers to attach.
LEMMA ActingLeader ==
    ASSUME LeadInv, NEW l \in Node,
           \/ lead[l].phase # "none"
           \/ \E f \in Node : lead[l].cur[f] # None \/ lead[l].todo[f] # None
    PROVE  status[l] = "LEADER" /\ role[l] = "leader" /\ lead[l].phase # "none"
  BY NoLeadType, Zenon DEF LeadInv

\* The choice of a term is one node.
LEMMA ChoiceIsOne ==
    ASSUME ElectInv
    PROVE  OneLeaderPerTerm
  <1> SUFFICES ASSUME NEW n \in Node, NEW m \in Node,
                      status[n] = "LEADER", status[m] = "LEADER", term[n] = term[m]
               PROVE  n = m
    BY DEF OneLeaderPerTerm
  <1>1. chosen[term[n]] = n /\ chosen[term[m]] = m
    BY DEF ElectInv
  <1> QED BY <1>1

\* The cursors of leader l when only the streams of c are left.
LEMMA RewindType ==
    ASSUME TypeOK, NEW l \in Node, NEW c
    PROVE  /\ [lead[l] EXCEPT !.cur = Rewind(l, c)] \in Lead
           /\ \A f \in Node : Rewind(l, c)[f] = None <=> lead[l].cur[f] = None
  <1> DEFINE cur == lead[l].cur
  <1>1. lead[l] \in Lead /\ cur \in [Node -> Cursor \cup {None}]
    BY DEF TypeOK, Lead
  <1> HIDE DEF cur
  <1>2. \A f \in Node : cur[f] # None => NewCursor(cur[f].ack) \in Cursor
                                         /\ NewCursor(cur[f].ack) # None
    BY <1>1, NewCursorType DEF Cursor
  <1>3. Rewind(l, c) = [f \in Node |-> IF cur[f] # None /\ c[f] # l
                                       THEN NewCursor(cur[f].ack) ELSE cur[f]]
    BY DEF Rewind, cur
  <1>4. \A f \in Node : Rewind(l, c)[f] = None <=> cur[f] = None
    BY <1>2, <1>3, Zenon
  <1>5. Rewind(l, c) \in [Node -> Cursor \cup {None}]
    BY <1>1, <1>2, <1>3
  <1>6. [lead[l] EXCEPT !.cur = Rewind(l, c)] \in Lead
    BY <1>1, <1>5 DEF Lead
  <1> QED BY <1>4, <1>6 DEF cur

\* A node that does not lead has no cursor to rewind.
LEMMA RewindNoLead ==
    ASSUME NEW l \in Node, NEW c, lead[l] = NoLead
    PROVE  [lead[l] EXCEPT !.cur = Rewind(l, c)] = NoLead
  <1>1. Rewind(l, c) = NoLead.cur
    BY DEF Rewind, NoLead
  <1> QED BY <1>1 DEF NoLead

\* Streams that end change positions of cursors and nothing else.
LEMMA CutFacts ==
    ASSUME TypeOK, NEW c \in [Node -> Node \cup {None}], Cut(c)
    PROVE  /\ conn' \in [Node -> Node \cup {None}] /\ lead' \in [Node -> Lead]
           /\ \A l \in Node : /\ lead'[l].phase = lead[l].phase
                              /\ lead[l] = NoLead => lead'[l] = NoLead
                              /\ \A f \in Node : lead[l].cur[f] # None => lead'[l].cur[f] # None
  <1>1. conn' = c /\ lead' = [l \in Node |-> [lead[l] EXCEPT !.cur = Rewind(l, c)]]
    BY Zenon DEF Cut
  <1>2. \A l \in Node : lead[l] \in Lead
    BY DEF TypeOK
  <1>3. \A l \in Node : lead'[l] = [lead[l] EXCEPT !.cur = Rewind(l, c)] /\ lead'[l] \in Lead
    BY <1>1, RewindType
  <1>4. ASSUME NEW l \in Node
       PROVE  lead'[l].phase = lead[l].phase /\ lead'[l].cur = Rewind(l, c)
    <2>1. lead[l] \in Lead /\ lead'[l] = [lead[l] EXCEPT !.cur = Rewind(l, c)]
      BY <1>2, <1>3
    <2> QED BY <2>1 DEF Lead
  <1>5. \A l \in Node : \A f \in Node : lead[l].cur[f] # None => lead'[l].cur[f] # None
    <2>1. \A l \in Node : \A f \in Node : Rewind(l, c)[f] = None <=> lead[l].cur[f] = None
      BY RewindType, Zenon
    <2> QED BY <1>4, <2>1, Zenon
  <1>6. \A l \in Node : lead[l] = NoLead => lead'[l] = NoLead
    BY <1>3, RewindNoLead
  <1>7. lead' \in [Node -> Lead]
    BY <1>1, <1>3
  <1> QED BY <1>1, <1>4, <1>5, <1>6, <1>7

\* A node that gives up leading loses its cursors, and no other one does.
LEMMA CutOffFacts ==
    ASSUME TypeOK, NEW n \in Node, CutOff(n)
    PROVE  /\ conn' = Without(n)
           /\ conn' \in [Node -> Node \cup {None}] /\ lead' \in [Node -> Lead]
           /\ lead'[n] = NoLead
           /\ \A l \in Node \ {n} :
                 /\ lead'[l].phase = lead[l].phase
                 /\ lead[l] = NoLead => lead'[l] = NoLead
                 /\ \A f \in Node : lead[l].cur[f] # None => lead'[l].cur[f] # None
  <1> DEFINE c == Without(n)
  <1>1. /\ conn' = c
        /\ lead' = [l \in Node |-> IF l = n THEN NoLead
                                   ELSE [lead[l] EXCEPT !.cur = Rewind(l, c)]]
    BY Zenon DEF CutOff
  <1>2. c \in [Node -> Node \cup {None}]
    BY DEF Without, TypeOK
  <1>3. \A l \in Node : lead[l] \in Lead
    BY DEF TypeOK
  <1> HIDE DEF c
  <1>4. \A l \in Node \ {n} : lead'[l] = [lead[l] EXCEPT !.cur = Rewind(l, c)] /\ lead'[l] \in Lead
    BY <1>1, RewindType
  <1>5. ASSUME NEW l \in Node \ {n}
       PROVE  lead'[l].phase = lead[l].phase /\ lead'[l].cur = Rewind(l, c)
    <2>1. lead[l] \in Lead /\ lead'[l] = [lead[l] EXCEPT !.cur = Rewind(l, c)]
      BY <1>3, <1>4
    <2> QED BY <2>1 DEF Lead
  <1>6. \A l \in Node \ {n} : \A f \in Node : lead[l].cur[f] # None => lead'[l].cur[f] # None
    <2>1. \A l \in Node : \A f \in Node : Rewind(l, c)[f] = None <=> lead[l].cur[f] = None
      BY RewindType, Zenon
    <2> QED BY <1>5, <2>1
  <1>7. \A l \in Node \ {n} : lead[l] = NoLead => lead'[l] = NoLead
    BY <1>4, RewindNoLead
  <1>8. lead'[n] = NoLead
    BY <1>1
  <1>9. lead' \in [Node -> Lead]
    BY <1>1, <1>4, NoLeadType
  <1> QED BY <1>1, <1>2, <1>5, <1>6, <1>7, <1>8, <1>9 DEF c

\* What a leader applies and answers comes from its log.
LEMMA AnswerFacts ==
    ASSUME TypeOK, LogInv, NEW l \in Node, NEW s, NEW c, Answer(l, Ready(l, s, c))
    PROVE  /\ db' \in [Node -> Seq(written)]
           /\ answered' \subseteq written
           /\ DoneAfter(l, Ready(l, s, c)) \in Nat
  <1> DEFINE ready == Ready(l, s, c)
  <1>1. ready \in Seq(written)
    BY UpToType, AfterType DEF LogInv, Ready
  <1>2. /\ db' = [db EXCEPT ![l] = @ \o ready]
        /\ answered' = answered \cup {ready[i] : i \in DOMAIN ready}
    BY Zenon DEF Answer
  <1>3. DoneAfter(l, ready) = IF ready = <<>> THEN lead[l].done ELSE LastOff(ready)
    BY Zenon DEF DoneAfter
  <1> HIDE DEF ready
  <1>4. db \in [Node -> Seq(written)]
    BY DEF TypeOK, LogInv
  <1>5. db[l] \o ready \in Seq(written)
    BY <1>1, <1>4, ConcatProperties
  <1>6. db' \in [Node -> Seq(written)]
    BY <1>2, <1>4, <1>5
  <1>7. \A i \in DOMAIN ready : ready[i] \in written
    BY <1>1, LenProperties, ElementOfSeq
  <1>8. answered' \subseteq written
    BY <1>2, <1>7 DEF TypeOK
  <1>9. DoneAfter(l, ready) \in Nat
    <2>1. lead[l].done \in Nat
      BY DEF TypeOK, Lead
    <2>2. written \subseteq Entry
      BY DEF TypeOK
    <2>3. LastOff(ready) \in Nat
      BY <1>1, <2>2, SeqGrows, LastOffType
    <2> QED BY <1>3, <2>1, <2>3
  <1> QED BY <1>6, <1>8, <1>9 DEF ready

\* The commit offset of a leader advances.
LEMMA AdvanceFacts ==
    ASSUME TypeOK, LogInv, NEW l \in Node, NEW cur \in [Node -> Cursor \cup {None}],
           NEW ph \in LeadPhase, NEW todo \in [Node -> EntryId \cup {None}],
           Advance(l, cur, ph, todo)
    PROVE  /\ lead' \in [Node -> Lead]
           /\ lead'[l].phase = ph /\ lead'[l].cur = cur
           /\ \A m \in Node \ {l} : lead'[m] = lead[m]
           /\ db' \in [Node -> Seq(written)]
           /\ answered' \subseteq written
  <1>1. PICK c \in 0 .. MaxWrites :
           /\ Answer(l, Ready(l, synced[l], c))
           /\ lead' = [lead EXCEPT ![l].cur = cur, ![l].commit = c, ![l].phase = ph,
                                   ![l].todo = todo,
                                   ![l].done = DoneAfter(l, Ready(l, synced[l], c))]
    BY Zenon DEF Advance
  <1> DEFINE d == DoneAfter(l, Ready(l, synced[l], c))
  <1>2. db' \in [Node -> Seq(written)] /\ answered' \subseteq written /\ d \in Nat
    BY <1>1, AnswerFacts, Zenon
  <1>3. lead' = [lead EXCEPT ![l].cur = cur, ![l].commit = c, ![l].phase = ph,
                             ![l].todo = todo, ![l].done = d]
    BY <1>1
  <1> HIDE DEF d
  <1>4. lead \in [Node -> Lead] /\ c \in Nat
    BY BoundAssumption DEF TypeOK
  <1>5. lead'[l] = [lead[l] EXCEPT !.cur = cur, !.commit = c, !.phase = ph, !.todo = todo,
                                   !.done = d]
    BY <1>3, <1>4
  <1>6. lead'[l] \in Lead /\ lead'[l].phase = ph /\ lead'[l].cur = cur
    <2> DEFINE v == lead[l]
               w == lead'[l]
    <2>1. v \in Lead
      BY <1>4
    <2>2. w = [v EXCEPT !.cur = cur, !.commit = c, !.phase = ph, !.todo = todo, !.done = d]
      BY <1>5
    <2> HIDE DEF v, w
    <2>3. w \in Lead /\ w.phase = ph /\ w.cur = cur
      BY <1>2, <1>4, <2>1, <2>2 DEF Lead
    <2> QED BY <2>3 DEF w
  <1>7. lead' \in [Node -> Lead] /\ \A m \in Node \ {l} : lead'[m] = lead[m]
    BY <1>3, <1>4, <1>6
  <1> QED BY <1>2, <1>6, <1>7

-----------------------------------------------------------------------------
(* Steps that leave most of the state alone *)

\* Logs, databases and history stay.
LEMMA QuietLog ==
    ASSUME LogInv, UNCHANGED <<log, db, written>>
    PROVE  LogInv'
  BY DEF LogInv, Contiguous

\* Nobody starts to lead, and leaders keep term and log.
LEMMA QuietElect ==
    ASSUME ElectInv, WriteInv, UNCHANGED <<cterm, phase, leader, becoming, chosen, written>>,
           \A n \in Node : status'[n] = "LEADER" =>
               status[n] = "LEADER" /\ term'[n] = term[n] /\ log'[n] = log[n]
    PROVE  ElectInv' /\ WriteInv'
  <1>1. \A n \in Node : status'[n] = "LEADER" => Last(n)' = Last(n)
    BY DEF Last, LastOff
  <1>2. ElectInv'
    BY <1>1 DEF ElectInv
  <1>3. WriteInv'
    BY DEF WriteInv
  <1> QED BY <1>2, <1>3

\* The same nodes lead; leaders keep their cursors, and streams stay.
LEMMA QuietLead ==
    ASSUME TypeOK, LeadInv, ConnInv, UNCHANGED <<role, conn>>,
           \A n \in Node : status'[n] = "LEADER" <=> status[n] = "LEADER",
           \A n \in Node : status[n] # "LEADER" => lead'[n] = lead[n],
           \A n \in Node : status[n] = "LEADER" =>
               /\ lead'[n].phase # "none"
               /\ \A f \in Node : lead[n].cur[f] # None => lead'[n].cur[f] # None
    PROVE  LeadInv' /\ ConnInv'
  <1>1. LeadInv'
    BY DEF LeadInv
  <1>2. ASSUME NEW f \in Node, conn[f] # None
        PROVE  role[f] \in {"follower", "hung"} /\ lead'[conn[f]].cur[f] # None
    <2>1. conn[f] \in Node /\ role[f] \in {"follower", "hung"} /\ lead[conn[f]].cur[f] # None
      BY <1>2 DEF ConnInv, TypeOK
    <2>2. status[conn[f]] = "LEADER"
      BY <2>1, ActingLeader
    <2> QED BY <2>1, <2>2
  <1> QED BY <1>1, <1>2 DEF ConnInv

\* The same nodes lead, and some streams end.
LEMMA CutLead ==
    ASSUME TypeOK, LeadInv, ConnInv, UNCHANGED role,
           \A n \in Node : status'[n] = "LEADER" <=> status[n] = "LEADER",
           NEW c \in [Node -> Node \cup {None}], Cut(c),
           \A f \in Node : c[f] \in {conn[f], None}
    PROVE  /\ LeadInv' /\ ConnInv'
           /\ conn' \in [Node -> Node \cup {None}] /\ lead' \in [Node -> Lead]
  <1>1. LeadInv'
    BY CutFacts DEF LeadInv
  <1>2. ASSUME NEW f \in Node, conn'[f] # None
        PROVE  role[f] \in {"follower", "hung"} /\ lead'[conn'[f]].cur[f] # None
    <2>1. conn'[f] = conn[f]
      BY <1>2, Zenon DEF Cut
    <2>2. conn[f] \in Node /\ role[f] \in {"follower", "hung"} /\ lead[conn[f]].cur[f] # None
      BY <1>2, <2>1 DEF ConnInv, TypeOK
    <2> QED BY <2>1, <2>2, CutFacts
  <1> QED BY <1>1, <1>2, CutFacts DEF ConnInv

\* One node stops leading, if it did, and its streams end.
LEMMA CutOffLead ==
    ASSUME TypeOK, LeadInv, ConnInv, NEW n \in Node, CutOff(n), status'[n] # "LEADER",
           \A m \in Node \ {n} : status'[m] = status[m] /\ role'[m] = role[m]
    PROVE  /\ LeadInv' /\ ConnInv'
           /\ conn' \in [Node -> Node \cup {None}] /\ lead' \in [Node -> Lead]
  <1>1. LeadInv'
    BY CutOffFacts DEF LeadInv
  <1>2. ASSUME NEW f \in Node, conn'[f] # None
        PROVE  role'[f] \in {"follower", "hung"} /\ lead'[conn'[f]].cur[f] # None
    <2>1. f # n /\ conn[f] # n /\ conn'[f] = conn[f]
      BY <1>2, CutOffFacts DEF Without
    <2>2. conn[f] \in Node /\ role[f] \in {"follower", "hung"} /\ lead[conn[f]].cur[f] # None
      BY <1>2, <2>1 DEF ConnInv, TypeOK
    <2> QED BY <2>1, <2>2, CutOffFacts
  <1> QED BY <1>1, <1>2, CutOffFacts DEF ConnInv

=============================================================================
