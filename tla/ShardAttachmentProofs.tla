----------------------- MODULE ShardAttachmentProofs -----------------------
(***************************************************************************)
(* Attaching and truncating followers, the end of BecomeLeader, and         *)
(* AddFollower preserve the invariant of ShardReplication.                  *)
(***************************************************************************)
EXTENDS ShardElectionProofs

\* The phase after a follower is attached is that of an acting leader.
LEMMA AfterAttachType ==
    ASSUME TypeOK, NEW l \in Node, NEW todo, lead[l].phase # "none"
    PROVE  AfterAttach(l, todo) \in LeadPhase /\ AfterAttach(l, todo) # "none"
  BY LeadType DEF AfterAttach, LeadPhase

\* A leader attaches a follower as it is.
LEMMA AttachFollowerStep ==
    ASSUME IInv, NEW l \in Node, NEW f \in Node, AttachFollower(l, f)
    PROVE  IInv'
  <1> USE DEF IInv, coordVars
  <1> DEFINE h == lead[l].todo[f]
             todo == [lead[l].todo EXCEPT ![f] = None]
             cur == [lead[l].cur EXCEPT ![f] = NewCursor(h.off)]
             ph == AfterAttach(l, todo)
  <1>1. /\ h # None /\ Advance(l, cur, ph, todo)
        /\ UNCHANGED <<term, status, role, log, synced, flushed, wiped, lastApp, adv, applied, conn,
                       coordVars, written, crashes>>
    BY Zenon DEF AttachFollower
  <1>2. status[l] = "LEADER" /\ lead[l].phase # "none"
    BY <1>1, ActingLeader
  <1>3. NewCursor(h.off) \in Cursor /\ NewCursor(h.off) # None
    BY <1>1, LeadType, NewCursorType, ZenonT(30) DEF EntryId
  <1>4. /\ todo \in [Node -> EntryId \cup {None}] /\ cur \in [Node -> Cursor \cup {None}]
        /\ \A g \in Node : lead[l].cur[g] # None => cur[g] # None
    BY <1>3, LeadType
  <1>5. ph \in LeadPhase /\ ph # "none"
    BY <1>2, AfterAttachType
  <1> HIDE DEF h, todo, cur, ph
  <1>6. /\ lead' \in [Node -> Lead] /\ lead'[l].phase = ph /\ lead'[l].cur = cur
        /\ \A m \in Node \ {l} : lead'[m] = lead[m]
        /\ db' \in [Node -> Seq(written)] /\ answered' \subseteq written
    BY <1>1, <1>4, <1>5, AdvanceFacts, ZenonT(30)
  <1>7. TypeOK'
    <2>1. db' \in [Node -> Seq(Entry)]
      BY <1>6, StoreType DEF TypeOK
    <2> QED BY <1>1, <1>6, <2>1, ZenonT(30) DEF TypeOK
  <1>8. LogInv'
    BY <1>1, <1>6, ZenonT(30) DEF LogInv
  <1>9. LeadInv' /\ ConnInv'
    <2>1. \A n \in Node : status[n] # "LEADER" => lead'[n] = lead[n]
      BY <1>2, <1>6
    <2>2. \A n \in Node : status[n] = "LEADER" =>
               /\ lead'[n].phase # "none"
               /\ \A g \in Node : lead[n].cur[g] # None => lead'[n].cur[g] # None
      BY <1>4, <1>5, <1>6 DEF LeadInv
    <2> QED BY <1>1, <2>1, <2>2, QuietLead
  <1>10. ElectInv' /\ WriteInv'
    BY <1>1, QuietElect
  <1> QED BY <1>7, <1>8, <1>9, <1>10

\* A leader has a follower truncate its log, and attaches it.
LEMMA TruncateFollowerStep ==
    ASSUME IInv, NEW l \in Node, NEW f \in Node, TruncateFollower(l, f)
    PROVE  IInv'
  <1> USE DEF IInv, coordVars
  <1> DEFINE h == lead[l].todo[f]
             kept == UpTo(log[f], HighestEntryOfTerm(l, h.term).off)
             todo == [lead[l].todo EXCEPT ![f] = None]
             cur == [lead[l].cur EXCEPT ![f] = NewCursor(LastOff(kept))]
             ph == AfterAttach(l, todo)
  <1>1. /\ h # None /\ Advance(l, cur, ph, todo)
        /\ role[f] = "follower" /\ status[f] = "FENCED"
        /\ status' = [status EXCEPT ![f] = "FOLLOWER"]
        /\ log' = [log EXCEPT ![f] = kept]
        /\ synced' = [synced EXCEPT ![f] = LastOff(kept)]
        /\ UNCHANGED <<term, role, flushed, wiped, lastApp, adv, applied, conn, coordVars,
                       written, crashes>>
    BY Zenon DEF TruncateFollower
  <1>2. status[l] = "LEADER" /\ lead[l].phase # "none"
    BY <1>1, ActingLeader, ZenonT(30)
  <1>3. kept \in Seq(written) /\ Contiguous(kept)
    BY UpToType DEF LogInv
  <1> HIDE DEF kept
  <1>4. LastOff(kept) \in Nat
    <2>1. kept \in Seq(Entry)
      BY <1>3, SeqGrows DEF TypeOK
    <2> QED BY <2>1, LastOffType
  <1>5. NewCursor(LastOff(kept)) \in Cursor /\ NewCursor(LastOff(kept)) # None
    BY <1>4, NewCursorType
  <1>6. /\ todo \in [Node -> EntryId \cup {None}] /\ cur \in [Node -> Cursor \cup {None}]
        /\ \A g \in Node : lead[l].cur[g] # None => cur[g] # None
    BY <1>5, LeadType
  <1>7. ph \in LeadPhase /\ ph # "none"
    BY <1>2, AfterAttachType
  <1> HIDE DEF h, todo, cur, ph
  <1>8. /\ lead' \in [Node -> Lead] /\ lead'[l].phase = ph /\ lead'[l].cur = cur
        /\ \A m \in Node \ {l} : lead'[m] = lead[m]
        /\ db' \in [Node -> Seq(written)] /\ answered' \subseteq written
    BY <1>1, <1>6, <1>7, AdvanceFacts
  <1>9. /\ log' \in [Node -> Seq(written)] /\ \A n \in Node : Contiguous(log'[n])
        /\ \A n \in Node \ {f} : log'[n] = log[n]
    BY <1>1, <1>3 DEF LogInv, TypeOK
  <1>10. TypeOK'
    <2>1. db' \in [Node -> Seq(Entry)] /\ log' \in [Node -> Seq(Entry)]
      BY <1>8, <1>9, StoreType, ZenonT(30) DEF TypeOK
    <2> QED BY <1>1, <1>4, <1>8, <2>1 DEF TypeOK
  <1>11. LogInv'
    BY <1>1, <1>8, <1>9 DEF LogInv
  <1>12. \A n \in Node : status'[n] = "LEADER" <=> status[n] = "LEADER"
    BY <1>1 DEF TypeOK
  <1>13. LeadInv' /\ ConnInv'
    <2>1. \A n \in Node : status[n] # "LEADER" => lead'[n] = lead[n]
      BY <1>2, <1>8
    <2>2. \A n \in Node : status[n] = "LEADER" =>
               /\ lead'[n].phase # "none"
               /\ \A g \in Node : lead[n].cur[g] # None => lead'[n].cur[g] # None
      BY <1>6, <1>7, <1>8 DEF LeadInv
    <2> QED BY <1>1, <1>12, <2>1, <2>2, QuietLead
  <1>14. ElectInv' /\ WriteInv'
    BY <1>1, <1>9, <1>12, QuietElect, ZenonT(30)
  <1> QED BY <1>10, <1>11, <1>13, <1>14

\* An acting leader keeps acting, and keeps its cursors.
LEMMA UpdateLead ==
    ASSUME TypeOK, LeadInv, ConnInv, UNCHANGED <<role, conn>>,
           \A n \in Node : status'[n] = "LEADER" <=> status[n] = "LEADER",
           NEW l \in Node, status[l] = "LEADER", NEW v \in Lead, v.phase # "none",
           \A f \in Node : lead[l].cur[f] # None => v.cur[f] # None,
           lead' = [lead EXCEPT ![l] = v]
    PROVE  lead' \in [Node -> Lead] /\ LeadInv' /\ ConnInv'
  <1>1. /\ lead' \in [Node -> Lead] /\ lead'[l] = v
        /\ \A m \in Node \ {l} : lead'[m] = lead[m]
    BY DEF TypeOK
  <1>2. \A n \in Node : status[n] # "LEADER" => lead'[n] = lead[n]
    BY <1>1
  <1>3. \A n \in Node : status[n] = "LEADER" =>
            /\ lead'[n].phase # "none"
            /\ \A f \in Node : lead[n].cur[f] # None => lead'[n].cur[f] # None
    BY <1>1 DEF LeadInv
  <1> QED BY <1>1, <1>2, <1>3, QuietLead, ZenonT(30)

\* A leader moves one of its cursors.
LEMMA UpdateCursor ==
    ASSUME TypeOK, LeadInv, ConnInv, UNCHANGED <<role, conn>>,
           \A n \in Node : status'[n] = "LEADER" <=> status[n] = "LEADER",
           NEW l \in Node, NEW f \in Node, lead[l].cur[f] # None, NEW x \in Cursor,
           lead' = [lead EXCEPT ![l].cur[f] = x]
    PROVE  lead' \in [Node -> Lead] /\ LeadInv' /\ ConnInv'
  <1> DEFINE cur == [lead[l].cur EXCEPT ![f] = x]
             v == [lead[l] EXCEPT !.cur = cur]
  <1>1. status[l] = "LEADER" /\ lead[l].phase # "none"
    BY ActingLeader
  <1>2. cur \in [Node -> Cursor \cup {None}] /\ \A g \in Node : lead[l].cur[g] # None => cur[g] # None
    BY LeadType, NoneAssumption
  <1>3. lead' = [lead EXCEPT ![l] = v]
    BY DEF TypeOK
  <1> HIDE DEF cur
  <1>4. v \in Lead /\ v.phase # "none" /\ v.cur = cur
    BY <1>1, <1>2, LeadType DEF Lead
  <1> HIDE DEF v
  <1>5. \A g \in Node : lead[l].cur[g] # None => v.cur[g] # None
    BY <1>2, <1>4
  <1> QED BY <1>1, <1>3, <1>4, <1>5, UpdateLead, Zenon

\* The empty WAL of a node whose log was deleted.
LEMMA EmptyLog == \A S : <<>> \in Seq(S) /\ Contiguous(<<>>)
  BY EmptySeq DEF Contiguous

\* A leader gives up on a follower.
LEMMA AttachFailsStep ==
    ASSUME IInv, NEW l \in Node, NEW f \in Node, AttachFails(l, f)
    PROVE  IInv'
  <1> USE DEF IInv, coordVars, histVars
  <1>1. /\ lead[l].todo[f] # None
        /\ \/ UNCHANGED status
           \/ status[f] = "FENCED" /\ status' = [status EXCEPT ![f] = "FOLLOWER"]
        /\ \/ UNCHANGED <<role, log, synced>>
           \/ /\ role[f] = "follower" /\ role' = [role EXCEPT ![f] = "hung"]
              /\ log' = [log EXCEPT ![f] = <<>>] /\ synced' = [synced EXCEPT ![f] = 0]
        /\ \/ /\ lead' = [lead EXCEPT ![l].phase = "failed", ![l].todo = NoLead.todo]
              /\ UNCHANGED resp
           \/ /\ lead' = [lead EXCEPT ![l].todo[f] = None]
              /\ resp' \in {resp, [resp EXCEPT ![f] = None]}
        /\ UNCHANGED <<term, db, flushed, wiped, lastApp, adv, applied, conn,
                       cterm, phase, leader, becoming, chosen, histVars>>
    BY DEF AttachFails
  <1>2. status[l] = "LEADER" /\ lead[l].phase # "none"
    BY <1>1, ActingLeader
  <1>3. /\ \A n \in Node : status'[n] = "LEADER" <=> status[n] = "LEADER"
        /\ status' \in [Node -> {"NOT_MEMBER", "FENCED", "FOLLOWER", "LEADER"}]
    BY <1>1, ZenonT(30) DEF TypeOK
  <1>4. PICK ph \in LeadPhase \ {"none"}, todo \in [Node -> EntryId \cup {None}] :
            lead' = [lead EXCEPT ![l] = [lead[l] EXCEPT !.phase = ph, !.todo = todo]]
    <2>1. CASE lead' = [lead EXCEPT ![l].phase = "failed", ![l].todo = NoLead.todo]
      <3>1. "failed" \in LeadPhase \ {"none"}
        BY DEF LeadPhase
      <3>2. lead' = [lead EXCEPT ![l] = [lead[l] EXCEPT !.phase = "failed", !.todo = NoLead.todo]]
        BY <2>1 DEF TypeOK
      <3> QED BY <3>1, <3>2, NoLeadType
    <2>2. CASE lead' = [lead EXCEPT ![l].todo[f] = None]
      <3> DEFINE todo == [lead[l].todo EXCEPT ![f] = None]
      <3>1. lead[l].phase \in LeadPhase \ {"none"} /\ todo \in [Node -> EntryId \cup {None}]
        BY <1>2, LeadType
      <3>2. lead' = [lead EXCEPT ![l] = [lead[l] EXCEPT !.phase = lead[l].phase, !.todo = todo]]
        BY <2>2 DEF TypeOK, Lead
      <3> QED BY <3>1, <3>2
    <2> QED BY <1>1, <2>1, <2>2
  <1> DEFINE v == [lead[l] EXCEPT !.phase = ph, !.todo = todo]
  <1>5. v \in Lead /\ v.phase # "none" /\ v.cur = lead[l].cur
    BY LeadType DEF Lead
  <1> HIDE DEF v
  <1>6. /\ lead' \in [Node -> Lead] /\ lead'[l] = v
        /\ \A n \in Node \ {l} : lead'[n] = lead[n]
    BY <1>4, <1>5 DEF TypeOK, v
  <1>7. /\ role' \in [Node -> {"none", "follower", "leader", "hung"}]
        /\ synced' \in [Node -> Nat] /\ log' \in [Node -> Seq(written)]
        /\ \A n \in Node : Contiguous(log'[n])
        /\ \A n \in Node : \/ role'[n] = role[n] /\ log'[n] = log[n]
                           \/ role[n] = "follower" /\ role'[n] = "hung"
    <2>1. /\ role \in [Node -> {"none", "follower", "leader", "hung"}]
          /\ synced \in [Node -> Nat] /\ log \in [Node -> Seq(written)]
          /\ \A n \in Node : Contiguous(log[n])
      BY DEF TypeOK, LogInv
    <2>2. CASE UNCHANGED <<role, log, synced>>
      BY <2>1, <2>2
    <2>3. CASE /\ role[f] = "follower" /\ role' = [role EXCEPT ![f] = "hung"]
               /\ log' = [log EXCEPT ![f] = <<>>] /\ synced' = [synced EXCEPT ![f] = 0]
      <3>1. <<>> \in Seq(written) /\ Contiguous(<<>>)
        BY EmptyLog, Zenon
      <3> QED BY <2>1, <2>3, <3>1
    <2> QED BY <1>1, <2>2, <2>3, Zenon
  <1>8. TypeOK'
    <2>1. log' \in [Node -> Seq(Entry)]
      BY <1>7, StoreType DEF TypeOK
    <2>2. resp' \in [Node -> EntryId \cup {None}]
      BY <1>1 DEF TypeOK
    <2> QED BY <1>1, <1>3, <1>6, <1>7, <2>1, <2>2 DEF TypeOK
  <1>9. LogInv'
    BY <1>1, <1>7 DEF LogInv
  <1>10. LeadInv'
    <2> SUFFICES ASSUME NEW n \in Node
                 PROVE  IF status'[n] = "LEADER"
                        THEN role'[n] = "leader" /\ lead'[n].phase # "none"
                        ELSE lead'[n] = NoLead
      BY DEF LeadInv
    <2>1. IF status[n] = "LEADER" THEN role[n] = "leader" /\ lead[n].phase # "none"
          ELSE lead[n] = NoLead
      BY DEF LeadInv
    <2>2. role[n] = "leader" => role'[n] = "leader"
      BY <1>7
    <2>3. IF n = l THEN lead'[n].phase # "none" ELSE lead'[n] = lead[n]
      BY <1>5, <1>6
    <2> QED BY <1>2, <1>3, <2>1, <2>2, <2>3
  <1>11. ConnInv'
    <2> SUFFICES ASSUME NEW g \in Node, conn[g] # None
                 PROVE  role'[g] \in {"follower", "hung"} /\ lead'[conn[g]].cur[g] # None
      BY <1>1 DEF ConnInv
    <2>1. conn[g] \in Node /\ role[g] \in {"follower", "hung"} /\ lead[conn[g]].cur[g] # None
      BY DEF ConnInv, TypeOK
    <2> QED BY <1>5, <1>6, <1>7, <2>1
  <1>12. ElectInv' /\ WriteInv'
    <2>1. \A n \in Node : status'[n] = "LEADER" =>
              status[n] = "LEADER" /\ term'[n] = term[n] /\ log'[n] = log[n]
      BY <1>1, <1>3, <1>7 DEF LeadInv
    <2> QED BY <1>1, <2>1, QuietElect
  <1> QED BY <1>8, <1>9, <1>10, <1>11, <1>12

\* A step of BecomeLeader that ends its wait.
LEMMA PhaseStep ==
    ASSUME TypeOK, LeadInv, ConnInv, UNCHANGED <<role, conn, status>>,
           NEW l \in Node, lead[l].phase # "none", NEW ph \in LeadPhase, ph # "none",
           lead' = [lead EXCEPT ![l].phase = ph]
    PROVE  lead' \in [Node -> Lead] /\ LeadInv' /\ ConnInv'
  <1> DEFINE v == [lead[l] EXCEPT !.phase = ph]
  <1>1. status[l] = "LEADER"
    BY ActingLeader
  <1>2. lead' = [lead EXCEPT ![l] = v]
    BY DEF TypeOK
  <1>3. v \in Lead /\ v.phase # "none" /\ v.cur = lead[l].cur
    BY LeadType DEF Lead
  <1> HIDE DEF v
  <1>4. UNCHANGED <<role, conn>> /\ \A g \in Node : lead[l].cur[g] # None => v.cur[g] # None
    BY <1>3
  <1>5. \A n \in Node : status'[n] = "LEADER" <=> status[n] = "LEADER"
    OBVIOUS
  <1> QED BY <1>1, <1>2, <1>3, <1>4, <1>5, UpdateLead, Zenon

\* A leader applies its log and serves.
LEMMA StartServingStep ==
    ASSUME IInv, NEW l \in Node, StartServing(l)
    PROVE  IInv'
  <1> USE DEF IInv, coordVars, histVars
  <1> DEFINE gap == log[l] # <<>> /\ log[l][1].off > DbCommit(l) + 1
             more == After(UpTo(log[l], synced[l]), DbCommit(l))
             ph == IF gap THEN "failed" ELSE "serving"
  <1>1. /\ lead[l].phase = "waiting"
        /\ lead' = [lead EXCEPT ![l].phase = ph]
        /\ db' = IF gap THEN db ELSE [db EXCEPT ![l] = @ \o more]
        /\ UNCHANGED <<term, status, role, log, synced, flushed, wiped, lastApp, adv, applied, conn,
                       coordVars, histVars>>
    BY Zenon DEF StartServing
  <1>2. ph \in LeadPhase /\ ph # "none"
    BY DEF LeadPhase
  <1>3. more \in Seq(written)
    BY UpToType, AfterType DEF LogInv
  <1> HIDE DEF gap, more, ph
  <1>4. lead' \in [Node -> Lead] /\ LeadInv' /\ ConnInv'
    <2>1. UNCHANGED <<role, conn, status>> /\ lead[l].phase # "none"
      BY <1>1
    <2> QED BY <1>1, <1>2, <2>1, PhaseStep, Zenon
  <1>5. db' \in [Node -> Seq(written)]
    <2>1. db \in [Node -> Seq(written)]
      BY DEF TypeOK, LogInv
    <2>2. db[l] \o more \in Seq(written)
      BY <1>3, <2>1, ConcatProperties
    <2> QED BY <1>1, <2>1, <2>2
  <1>6. TypeOK'
    <2>1. db' \in [Node -> Seq(Entry)]
      BY <1>5, StoreType DEF TypeOK
    <2> QED BY <1>1, <1>4, <2>1 DEF TypeOK
  <1>7. LogInv'
    BY <1>1, <1>5 DEF LogInv
  <1>8. ElectInv' /\ WriteInv'
    BY <1>1, QuietElect
  <1> QED BY <1>4, <1>6, <1>7, <1>8

\* A leader gives up waiting, and stays what it is.
LEMMA BecomeLeaderTimeoutStep ==
    ASSUME IInv, NEW l \in Node, BecomeLeaderTimeout(l)
    PROVE  IInv'
  <1> USE DEF IInv, coordVars, histVars
  <1>1. /\ lead[l].phase = "waiting" /\ lead' = [lead EXCEPT ![l].phase = "failed"]
        /\ UNCHANGED <<term, status, role, log, synced, db, flushed, wiped, lastApp, adv, applied, conn,
                       coordVars, histVars>>
    BY DEF BecomeLeaderTimeout
  <1>2. lead' \in [Node -> Lead] /\ LeadInv' /\ ConnInv'
    <2>1. UNCHANGED <<role, conn, status>> /\ lead[l].phase # "none"
      BY <1>1
    <2>2. "failed" \in LeadPhase /\ "failed" # "none"
      BY DEF LeadPhase
    <2> QED BY <1>1, <2>1, <2>2, PhaseStep, Zenon
  <1>3. TypeOK'
    BY <1>1, <1>2 DEF TypeOK
  <1>4. LogInv' /\ ElectInv' /\ WriteInv'
    BY <1>1, QuietLog, QuietElect
  <1> QED BY <1>2, <1>3, <1>4

\* The coordinator hands a leader one more follower.
LEMMA AddFollowerStep ==
    ASSUME IInv, NEW f \in Node, AddFollower(f)
    PROVE  IInv'
  <1> USE DEF IInv, coordVars, histVars
  <1> DEFINE l == leader
             todo == [lead[l].todo EXCEPT ![f] = resp[f]]
             v == [lead[l] EXCEPT !.todo = todo]
  <1>1. /\ phase = "steady" /\ status[l] = "LEADER"
        /\ lead' = [lead EXCEPT ![l].todo[f] = resp[f]]
        /\ UNCHANGED <<term, status, role, log, synced, db, flushed, wiped, lastApp, adv, applied, conn,
                       coordVars, histVars>>
    BY DEF AddFollower
  <1>2. l \in Node
    BY <1>1 DEF ElectInv, TypeOK
  <1>3. todo \in [Node -> EntryId \cup {None}]
    BY <1>2, LeadType DEF TypeOK
  <1>4. lead' = [lead EXCEPT ![l] = v]
    BY <1>1, <1>2 DEF TypeOK
  <1> HIDE DEF l, todo
  <1>5. v \in Lead /\ v.phase = lead[l].phase /\ v.cur = lead[l].cur
    BY <1>2, <1>3, LeadType DEF Lead
  <1> HIDE DEF v
  <1>6. lead' \in [Node -> Lead] /\ LeadInv' /\ ConnInv'
    <2>1. /\ UNCHANGED <<role, conn>> /\ v.phase # "none"
          /\ \A g \in Node : lead[l].cur[g] # None => v.cur[g] # None
      BY <1>1, <1>2, <1>5 DEF LeadInv
    <2>2. \A n \in Node : status'[n] = "LEADER" <=> status[n] = "LEADER"
      BY <1>1
    <2> QED BY <1>1, <1>2, <1>4, <1>5, <2>1, <2>2, UpdateLead, Zenon
  <1>7. TypeOK'
    BY <1>1, <1>6 DEF TypeOK
  <1>8. LogInv' /\ ElectInv' /\ WriteInv'
    BY <1>1, QuietLog, QuietElect
  <1> QED BY <1>6, <1>7, <1>8

=============================================================================
