------------------------ MODULE ShardElectionProofs -------------------------
(***************************************************************************)
(* The steps of an election preserve the invariant of ShardReplication:     *)
(* those of the coordinator, fencing, the shards director, and BecomeLeader *)
(* until it has the followers to attach.                                    *)
(***************************************************************************)
EXTENDS ShardReplicationInvariant

-----------------------------------------------------------------------------
(* The coordinator *)

\* A new term has no choice, request or leader yet.
LEMMA ElectLeaderStep == ASSUME IInv, ElectLeader PROVE IInv'
  <1> USE DEF IInv, nodeVars, histVars
  <1>1. TypeOK'
    BY BoundAssumption DEF ElectLeader, TypeOK, Term
  <1>2. LogInv'
    BY QuietLog DEF ElectLeader
  <1>3. LeadInv' /\ ConnInv'
    BY DEF ElectLeader, LeadInv, ConnInv
  <1>4. ElectInv'
    BY BoundAssumption DEF ElectLeader, ElectInv, TypeOK, Term, Last, LastOff
  <1>5. WriteInv'
    BY DEF ElectLeader, WriteInv
  <1> QED BY <1>1, <1>2, <1>3, <1>4, <1>5

\* The term is new to the choices, so no request, leader or entry has it.
LEMMA SelectNewLeaderStep ==
    ASSUME IInv, NEW n \in Node, SelectNewLeader(n)
    PROVE  IInv'
  <1> USE DEF IInv, nodeVars, histVars
  <1> DEFINE r == [term |-> cterm, node |-> n, followers |-> [resp EXCEPT ![n] = None]]
  <1>1. /\ phase = "fencing" /\ phase' = "becoming" /\ leader' = n
        /\ chosen' = [chosen EXCEPT ![cterm] = n]
        /\ becoming' = becoming \cup {r}
        /\ UNCHANGED <<nodeVars, cterm, resp, histVars>>
    BY DEF SelectNewLeader, BecomeLeaderRequest
  <1>2. cterm \in 0 .. MaxTerm /\ chosen[cterm] = None
    BY <1>1, BoundAssumption DEF ElectInv, TypeOK, Term
  <1>3. r \in [term : 0 .. MaxTerm, node : Node, followers : [Node -> EntryId \cup {None}]]
    BY <1>2 DEF TypeOK
  <1>4. r.term = cterm /\ r.node = n
    OBVIOUS
  <1> HIDE DEF r
  <1>5. TypeOK'
    BY <1>1, <1>2, <1>3 DEF TypeOK
  <1>6. LogInv'
    BY <1>1, QuietLog
  <1>7. LeadInv' /\ ConnInv'
    BY <1>1 DEF LeadInv, ConnInv
  <1>8. n # None
    BY NoneAssumption
  <1>9. \A q \in becoming : q.term \in 0 .. MaxTerm /\ q.term # cterm
    BY <1>2, NoneAssumption DEF ElectInv, TypeOK
  <1>10. \A m \in Node : status[m] = "LEADER" => term[m] # cterm
    <2> SUFFICES ASSUME NEW m \in Node, status[m] = "LEADER", term[m] = cterm
                 PROVE  FALSE
      OBVIOUS
    <2>1. chosen[term[m]] = m
      BY DEF ElectInv
    <2> QED BY <1>2, <2>1, NoneAssumption
  <1>11. \A e \in written : e.term # cterm
    BY <1>2 DEF ElectInv
  <1>12. \A t \in 0 .. MaxTerm : chosen'[t] = IF t = cterm THEN n ELSE chosen[t]
    BY <1>1 DEF TypeOK
  <1>13. \A m \in Node : Last(m)' = Last(m)
    BY <1>1 DEF Last, LastOff
  <1>14. ElectInv'
    <2>1. (phase # "idle" => cterm >= 0)' /\ (phase \in {"becoming", "steady"} => leader # None)'
      BY <1>1, <1>2, <1>8
    <2>2. \A t \in 0 .. MaxTerm : chosen'[t] # None =>
              t <= cterm' /\ (t = cterm' => phase' \in {"becoming", "steady"})
      BY <1>1, <1>2, <1>12 DEF ElectInv
    <2>3. \A q \in becoming' :
              /\ chosen'[q.term] = q.node
              /\ \A m \in Node : status'[m] = "LEADER" => term'[m] # q.term
              /\ \A e \in written' : e.term # q.term
              /\ \A p \in becoming' : p.term = q.term => p = q
      BY <1>1, <1>2, <1>4, <1>9, <1>10, <1>11, <1>12 DEF ElectInv
    <2>4. \A m \in Node : status'[m] = "LEADER" =>
              /\ term'[m] >= 0 /\ chosen'[term'[m]] = m
              /\ \A e \in written' : e.term = term'[m] => e.off <= Last(m)'
      <3> SUFFICES ASSUME NEW m \in Node, status[m] = "LEADER"
                   PROVE  /\ term[m] >= 0 /\ chosen'[term[m]] = m
                          /\ \A e \in written : e.term = term[m] => e.off <= Last(m)
        BY <1>1, <1>13
      <3>1. /\ term[m] >= 0 /\ chosen[term[m]] = m
            /\ \A e \in written : e.term = term[m] => e.off <= Last(m)
        BY DEF ElectInv
      <3>2. term[m] \in 0 .. MaxTerm /\ term[m] # cterm
        BY <1>10, <3>1 DEF TypeOK, Term
      <3> QED BY <1>12, <3>1, <3>2
    <2>5. \A e \in written' : e.term >= 0 /\ chosen'[e.term] # None
      BY <1>1, <1>11, <1>12 DEF ElectInv, TypeOK, Entry, Term
    <2> QED BY <2>1, <2>2, <2>3, <2>4, <2>5 DEF ElectInv
  <1>15. WriteInv'
    BY <1>1 DEF WriteInv
  <1> QED BY <1>5, <1>6, <1>7, <1>14, <1>15

\* The end of an election only moves the phase of the coordinator.
LEMMA LeaderElectedStep == ASSUME IInv, LeaderElected PROVE IInv'
  <1> USE DEF IInv, nodeVars, histVars
  <1>1. TypeOK'
    BY DEF LeaderElected, TypeOK
  <1>2. LogInv'
    BY QuietLog DEF LeaderElected
  <1>3. LeadInv' /\ ConnInv'
    BY DEF LeaderElected, LeadInv, ConnInv
  <1>4. ElectInv'
    BY DEF LeaderElected, ElectInv, Last, LastOff
  <1>5. WriteInv'
    BY DEF LeaderElected, WriteInv
  <1> QED BY <1>1, <1>2, <1>3, <1>4, <1>5

-----------------------------------------------------------------------------
(* Fencing, and controllers that open *)

\* A fenced node stops leading, and its streams end.
LEMMA NewTermStep ==
    ASSUME IInv, NEW n \in Node, NEW t \in 0 .. cterm, NEW heard \in BOOLEAN,
           NewTerm(n, t, heard)
    PROVE  IInv'
  <1> USE DEF IInv, histVars
  <1>1. CutOff(n) /\ HeadEntry(n) \in EntryId
    BY HeadEntryType DEF NewTerm
  <1>0. t \in Term
    BY BoundAssumption DEF TypeOK, Term
  <1>2. Len(db[n]) \in Nat
    BY LenProperties DEF TypeOK
  <1>3. /\ term' = [term EXCEPT ![n] = t]
        /\ status' = [status EXCEPT ![n] = "FENCED"]
        /\ role' = [role EXCEPT ![n] = IF @ = "none" THEN "leader" ELSE @]
        /\ flushed' = [flushed EXCEPT ![n] = Len(db[n])]
        /\ wiped' = wiped \ {n}
        /\ resp' = IF heard THEN [resp EXCEPT ![n] = HeadEntry(n)] ELSE resp
        /\ UNCHANGED <<log, synced, db, lastApp, adv, applied, cterm, phase, leader, becoming, chosen,
                       written, answered, crashes>>
    BY DEF NewTerm
  <1>4. status'[n] # "LEADER" /\ \A m \in Node \ {n} : status'[m] = status[m]
            /\ role'[m] = role[m] /\ term'[m] = term[m]
    BY <1>3 DEF TypeOK
  <1>5. /\ LeadInv' /\ ConnInv'
        /\ conn' \in [Node -> Node \cup {None}] /\ lead' \in [Node -> Lead]
    BY <1>1, <1>4, CutOffLead
  <1>6. TypeOK'
    BY <1>0, <1>1, <1>2, <1>3, <1>5 DEF TypeOK
  <1>7. LogInv'
    BY <1>3, QuietLog
  <1>8. ElectInv' /\ WriteInv'
    BY <1>3, <1>4, QuietElect
  <1> QED BY <1>5, <1>6, <1>7, <1>8

\* A controller that opens is not that of a leader.
LEMMA ReopenedFacts ==
    ASSUME TypeOK, NEW n \in Node, NEW r \in {"follower", "leader"}, Reopened(n, r)
    PROVE  /\ role' \in [Node -> {"none", "follower", "leader", "hung"}]
           /\ term' \in [Node -> Term] /\ wiped' \subseteq Node
           /\ status' \in [Node -> {"NOT_MEMBER", "FENCED", "FOLLOWER", "LEADER"}]
           /\ synced' \in [Node -> Nat] /\ lastApp' \in [Node -> Nat] /\ adv' \in [Node -> Nat]
           /\ applied' \in [Node -> Nat \cup {None}]
           /\ status'[n] # "LEADER" /\ role'[n] = r
           /\ \A m \in Node \ {n} : /\ status'[m] = status[m] /\ role'[m] = role[m]
                                    /\ term'[m] = term[m]
  <1>1. Last(n) \in Nat /\ DbCommit(n) \in Nat
    BY LastOffType DEF TypeOK, Last, DbCommit
  <1>2. -1 \in Term
    BY BoundAssumption DEF Term
  <1> QED BY <1>1, <1>2 DEF Reopened, TypeOK

\* The controller of an acting leader is not closed for a follower: it would
\* have to be of the term of the leader that asks.
LEMMA GetOrCreateFollowerStep ==
    ASSUME IInv, NEW l \in Node, NEW f \in Node, GetOrCreateFollower(l, f)
    PROVE  IInv'
  <1> USE DEF IInv, coordVars, histVars
  <1>1. /\ l # f /\ Reopened(f, "follower")
        /\ lead[l].cur[f] # None \/ lead[l].todo[f] # None
        /\ role[f] = "none" \/ (role[f] = "leader" /\ term[f] = term[l])
        /\ UNCHANGED <<log, db, flushed, conn, lead, coordVars, histVars>>
    BY DEF GetOrCreateFollower
  <1>2. status[l] = "LEADER" /\ OneLeaderPerTerm
    BY <1>1, ActingLeader, ChoiceIsOne
  <1>3. status[f] # "LEADER"
    <2>1. status[f] = "LEADER" => role[f] = "leader"
      BY DEF LeadInv
    <2>2. status[f] = "LEADER" => term[f] # term[l]
      BY <1>1, <1>2 DEF OneLeaderPerTerm
    <2> QED BY <1>1, <2>1, <2>2
  <1>4. /\ status'[f] # "LEADER" /\ role'[f] = "follower"
        /\ \A m \in Node \ {f} : /\ status'[m] = status[m] /\ role'[m] = role[m]
                                 /\ term'[m] = term[m]
    BY <1>1, ReopenedFacts
  <1>5. TypeOK'
    BY <1>1, ReopenedFacts DEF TypeOK
  <1>6. LogInv'
    BY <1>1, QuietLog
  <1>7. LeadInv'
    BY <1>1, <1>3, <1>4 DEF LeadInv
  <1>8. ConnInv'
    BY <1>1, <1>4 DEF ConnInv
  <1>9. ElectInv' /\ WriteInv'
    BY <1>1, <1>4, QuietElect
  <1> QED BY <1>5, <1>6, <1>7, <1>8, <1>9

\* Opening a leader controller makes no leader yet.
LEMMA GetOrCreateLeaderStep ==
    ASSUME IInv, NEW r \in becoming, GetOrCreateLeader(r)
    PROVE  IInv'
  <1> USE DEF IInv, coordVars, histVars
  <1> DEFINE n == r.node
             c == Without(n)
  <1>1. /\ role[n] # "leader" /\ Reopened(n, "leader") /\ Cut(c) /\ n \in Node
        /\ UNCHANGED <<log, db, flushed, coordVars, histVars>>
    BY DEF GetOrCreateLeader, TypeOK
  <1> HIDE DEF n
  <1>2. c \in [Node -> Node \cup {None}] /\ c[n] = None /\ \A f \in Node : c[f] \in {conn[f], None}
    BY <1>1 DEF Without, TypeOK
  <1> HIDE DEF c
  <1>3. /\ status'[n] # "LEADER" /\ role'[n] = "leader"
        /\ \A m \in Node \ {n} : /\ status'[m] = status[m] /\ role'[m] = role[m]
                                 /\ term'[m] = term[m]
    BY <1>1, ReopenedFacts
  <1>4. status[n] # "LEADER"
    BY <1>1 DEF LeadInv
  <1>5. LeadInv'
    BY <1>1, <1>2, <1>3, <1>4, CutFacts DEF LeadInv
  <1>6. ConnInv'
    <2> SUFFICES ASSUME NEW f \in Node, conn'[f] # None
                 PROVE  role'[f] \in {"follower", "hung"} /\ lead'[conn'[f]].cur[f] # None
      BY DEF ConnInv
    <2>1. f # n /\ conn'[f] = conn[f]
      BY <1>1, <1>2, Zenon DEF Cut
    <2>2. conn[f] \in Node /\ role[f] \in {"follower", "hung"} /\ lead[conn[f]].cur[f] # None
      BY <2>1 DEF ConnInv, TypeOK
    <2> QED BY <1>1, <1>2, <1>3, <2>1, <2>2, CutFacts
  <1>7. TypeOK'
    BY <1>1, <1>2, ReopenedFacts, CutFacts DEF TypeOK
  <1>8. LogInv'
    BY <1>1, QuietLog
  <1>9. ElectInv' /\ WriteInv'
    BY <1>1, <1>3, QuietElect
  <1> QED BY <1>5, <1>6, <1>7, <1>8, <1>9

-----------------------------------------------------------------------------
(* Becoming leader *)

\* The fields of a leader.
LEMMA LeadType ==
    ASSUME TypeOK, NEW l \in Node
    PROVE  /\ lead[l] \in Lead /\ lead[l].phase \in LeadPhase
           /\ lead[l].el \in EntryId /\ lead[l].commit \in Nat /\ lead[l].next \in Nat
           /\ lead[l].todo \in [Node -> EntryId \cup {None}]
           /\ lead[l].cur \in [Node -> Cursor \cup {None}]
  BY DEF TypeOK, Lead

\* Logs of written entries are logs.
LEMMA StoreType ==
    ASSUME NEW W, W \subseteq Entry, NEW s \in [Node -> Seq(W)]
    PROVE  s \in [Node -> Seq(Entry)]
  <1>1. \A n \in Node : s[n] \in Seq(Entry)
    BY SeqGrows
  <1> QED BY <1>1

\* The term had a request on its way: it has had no leader and no entry.
LEMMA BecomeLeaderStep ==
    ASSUME IInv, NEW r \in becoming, BecomeLeader(r)
    PROVE  IInv'
  <1> USE DEF IInv, histVars
  <1> DEFINE n == r.node
             new == [NoLead EXCEPT !.phase = IF \A f \in Node : r.followers[f] = None
                                             THEN "waiting" ELSE "attaching",
                                   !.el = HeadEntry(n), !.commit = DbCommit(n),
                                   !.next = HeadEntry(n).off, !.done = HeadEntry(n).off,
                                   !.todo = r.followers]
  <1>1. /\ role[n] = "leader" /\ becoming' = becoming \ {r}
        /\ \/ /\ status[n] = "FENCED" /\ r.term = term[n]
              /\ status' = [status EXCEPT ![n] = "LEADER"]
              /\ lead' = [lead EXCEPT ![n] = new]
           \/ UNCHANGED <<status, lead>>
        /\ UNCHANGED <<term, role, log, synced, db, flushed, wiped, lastApp, adv, applied, conn,
                       cterm, phase, resp, leader, chosen, histVars>>
    BY Zenon DEF BecomeLeader
  <1>2. n \in Node /\ r.term \in 0 .. MaxTerm /\ r.followers \in [Node -> EntryId \cup {None}]
    BY DEF TypeOK
  <1>3. new \in Lead /\ new.phase # "none"
    <2>1. HeadEntry(n) \in EntryId /\ DbCommit(n) \in Nat
      BY <1>2, HeadEntryType, LastOffType DEF TypeOK, DbCommit
    <2>2. HeadEntry(n).off \in Nat
      BY <2>1 DEF EntryId
    <2> QED BY <1>2, <2>1, <2>2, NoLeadType, ZenonT(30) DEF Lead, LeadPhase, NoLead
  <1> HIDE DEF new, n
  <1>4. LogInv'
    BY <1>1, QuietLog
  <1>5. WriteInv'
    BY <1>1 DEF WriteInv
  <1>6. \A m \in Node : Last(m)' = Last(m)
    BY <1>1 DEF Last, LastOff
  <1>7. CASE UNCHANGED <<status, lead>>
    <2>1. TypeOK'
      BY <1>1, <1>7 DEF TypeOK
    <2>2. LeadInv' /\ ConnInv'
      BY <1>1, <1>7 DEF LeadInv, ConnInv
    <2>3. ElectInv'
      BY <1>1, <1>6, <1>7 DEF ElectInv
    <2> QED BY <1>4, <1>5, <2>1, <2>2, <2>3
  <1>8. CASE /\ status[n] = "FENCED" /\ r.term = term[n]
             /\ status' = [status EXCEPT ![n] = "LEADER"]
             /\ lead' = [lead EXCEPT ![n] = new]
    <2>1. TypeOK'
      BY <1>1, <1>2, <1>3, <1>8 DEF TypeOK
    <2>2. LeadInv'
      BY <1>1, <1>2, <1>3, <1>8, ZenonT(30) DEF LeadInv, TypeOK
    <2>3. lead[n] = NoLead
      BY <1>2, <1>8 DEF LeadInv
    <2>4. ConnInv'
      <3> SUFFICES ASSUME NEW f \in Node, conn[f] # None
                   PROVE  role[f] \in {"follower", "hung"} /\ lead'[conn[f]].cur[f] # None
        BY <1>1 DEF ConnInv
      <3>1. conn[f] \in Node /\ role[f] \in {"follower", "hung"} /\ lead[conn[f]].cur[f] # None
        BY DEF ConnInv, TypeOK
      <3>2. conn[f] # n
        BY <2>3, <3>1, NoLeadType
      <3> QED BY <1>8, <3>1, <3>2 DEF TypeOK
    <2>5. \A m \in Node : status'[m] = "LEADER" => status[m] = "LEADER" \/ m = n
      BY <1>8 DEF TypeOK
    <2>6. /\ chosen[r.term] = n
          /\ \A m \in Node : status[m] = "LEADER" => term[m] # r.term
          /\ \A e \in written : e.term # r.term
          /\ \A q \in becoming : q.term = r.term => q = r
      BY DEF ElectInv, n
    <2>7. ElectInv'
      <3>1. ASSUME NEW q \in becoming'
            PROVE  /\ chosen'[q.term] = q.node
                   /\ \A m \in Node : status'[m] = "LEADER" => term'[m] # q.term
                   /\ \A e \in written' : e.term # q.term
                   /\ \A p \in becoming' : p.term = q.term => p = q
        <4>1. q \in becoming /\ q.term # r.term
          BY <1>1, <2>6
        <4>2. /\ chosen[q.term] = q.node
              /\ \A m \in Node : status[m] = "LEADER" => term[m] # q.term
              /\ \A e \in written : e.term # q.term
              /\ \A p \in becoming : p.term = q.term => p = q
          BY <4>1 DEF ElectInv
        <4>3. \A m \in Node : status'[m] = "LEADER" => term[m] # q.term
          BY <1>8, <2>5, <4>1, <4>2
        <4> QED BY <1>1, <4>2, <4>3
      <3>2. ASSUME NEW m \in Node, status'[m] = "LEADER"
            PROVE  /\ term'[m] >= 0 /\ chosen'[term'[m]] = m
                   /\ \A e \in written' : e.term = term'[m] => e.off <= Last(m)'
        <4>1. CASE status[m] = "LEADER"
          <5>1. /\ term[m] >= 0 /\ chosen[term[m]] = m
                /\ \A e \in written : e.term = term[m] => e.off <= Last(m)
            BY <4>1 DEF ElectInv
          <5> QED BY <1>1, <1>6, <5>1
        <4>2. CASE m = n
          BY <1>1, <1>2, <1>8, <2>6, <4>2
        <4> QED BY <2>5, <3>2, <4>1, <4>2
      <3>3. /\ (phase # "idle" => cterm >= 0)'
            /\ (phase \in {"becoming", "steady"} => leader # None)'
            /\ \A t \in 0 .. MaxTerm : chosen'[t] # None =>
                  t <= cterm' /\ (t = cterm' => phase' \in {"becoming", "steady"})
            /\ \A e \in written' : e.term >= 0 /\ chosen'[e.term] # None
        BY <1>1 DEF ElectInv
      <3> QED BY <3>1, <3>2, <3>3, ZenonT(30) DEF ElectInv
    <2> QED BY <1>4, <1>5, <2>1, <2>2, <2>4, <2>7
  <1> QED BY <1>1, <1>7, <1>8
=============================================================================
