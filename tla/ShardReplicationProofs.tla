----------------------- MODULE ShardReplicationProofs -----------------------
(***************************************************************************)
(* Acknowledgements, crashes, the databases and snapshots preserve the      *)
(* invariant too.  For every ensemble, every number of elections, writes    *)
(* and crashes, and everything the environment may do: a term has at most   *)
(* one leader, and term and offset identify an entry.                       *)
(***************************************************************************)
EXTENDS ShardWritingProofs

\* An acknowledgement may commit entries of the leader.
LEMMA ReceiveAckStep ==
    ASSUME IInv, NEW l \in Node, NEW f \in Node, ReceiveAck(l, f)
    PROVE  IInv'
  <1> USE DEF IInv, coordVars
  <1>1. /\ conn[f] = l
        /\ UNCHANGED <<term, status, role, log, synced, flushed, wiped, lastApp, adv, applied, conn,
                       coordVars, written, crashes>>
    BY DEF ReceiveAck
  <1>2. PICK a \in lead[l].cur[f].ack + 1 .. lead[l].cur[f].sent :
            Advance(l, [lead[l].cur EXCEPT ![f].ack = a], lead[l].phase, lead[l].todo)
    BY Zenon DEF ReceiveAck
  <1>3. status[l] = "LEADER" /\ lead[l].cur[f] # None /\ lead[l].cur[f] \in Cursor
    BY <1>1, StreamEnds
  <1> DEFINE cur == [lead[l].cur EXCEPT ![f].ack = a]
             ph == lead[l].phase
             todo == lead[l].todo
  <1>4. /\ cur \in [Node -> Cursor \cup {None}]
        /\ \A g \in Node : lead[l].cur[g] # None => cur[g] # None
    <2>1. [lead[l].cur[f] EXCEPT !.ack = a] \in Cursor
      BY <1>3 DEF Cursor
    <2>2. [lead[l].cur[f] EXCEPT !.ack = a] # None
      BY <2>1, NoneAssumption
    <2>3. lead[l].cur \in [Node -> Cursor \cup {None}]
      BY LeadType
    <2> QED BY <2>1, <2>2, <2>3
  <1>5. ph \in LeadPhase /\ ph # "none" /\ todo \in [Node -> EntryId \cup {None}]
    BY <1>3, LeadType DEF LeadInv
  <1>6. Advance(l, cur, ph, todo)
    BY <1>2
  <1> HIDE DEF cur, ph, todo
  <1>7. /\ lead' \in [Node -> Lead] /\ lead'[l].phase = ph /\ lead'[l].cur = cur
        /\ \A m \in Node \ {l} : lead'[m] = lead[m]
        /\ db' \in [Node -> Seq(written)] /\ answered' \subseteq written
    BY <1>4, <1>5, <1>6, AdvanceFacts
  <1>8. TypeOK'
    <2>1. db' \in [Node -> Seq(Entry)]
      BY <1>7, StoreType DEF TypeOK
    <2> QED BY <1>1, <1>7, <2>1, ZenonT(30) DEF TypeOK
  <1>9. LogInv'
    BY <1>1, <1>7 DEF LogInv
  <1>10. LeadInv' /\ ConnInv'
    <2>1. \A n \in Node : status[n] # "LEADER" => lead'[n] = lead[n]
      BY <1>3, <1>7
    <2>2. \A n \in Node : status[n] = "LEADER" =>
               /\ lead'[n].phase # "none"
               /\ \A g \in Node : lead[n].cur[g] # None => lead'[n].cur[g] # None
      BY <1>4, <1>5, <1>7 DEF LeadInv
    <2> QED BY <1>1, <2>1, <2>2, QuietLead
  <1>11. ElectInv' /\ WriteInv'
    BY <1>1, QuietElect
  <1> QED BY <1>8, <1>9, <1>10, <1>11

\* What a crash leaves of the WAL and the database is a part of what was there.
LEMMA RestartStep ==
    ASSUME IInv, NEW n \in Node, Restart(n), crashes' \in 0 .. MaxCrash,
           UNCHANGED <<coordVars, written, answered>>
    PROVE  IInv'
  <1> USE DEF IInv, coordVars
  <1>1. /\ term' = [term EXCEPT ![n] = IF n \in wiped THEN -1 ELSE @]
        /\ wiped' = wiped \ {n}
        /\ status' = [status EXCEPT ![n] = "NOT_MEMBER"]
        /\ role' = [role EXCEPT ![n] = "none"]
        /\ lastApp' = [lastApp EXCEPT ![n] = 0] /\ adv' = [adv EXCEPT ![n] = 0]
        /\ applied' = [applied EXCEPT ![n] = 0]
        /\ CutOff(n)
    BY Zenon DEF Restart
  <1>2. PICK o \in synced[n] .. Last(n) :
            log' = [log EXCEPT ![n] = UpTo(@, o)] /\ synced' = [synced EXCEPT ![n] = o]
    BY Zenon DEF Restart
  <1>3. PICK k \in flushed[n] .. Len(db[n]) :
            db' = [db EXCEPT ![n] = SubSeq(@, 1, k)] /\ flushed' = [flushed EXCEPT ![n] = k]
    BY Zenon DEF Restart
  <1>4. o \in Nat /\ k \in Nat /\ k <= Len(db[n])
    <2>1. Last(n) \in Nat /\ Len(db[n]) \in Nat /\ synced[n] \in Nat /\ flushed[n] \in Nat
      BY LastOffType, LenProperties DEF TypeOK, Last
    <2> QED BY <2>1
  <1>5. UpTo(log[n], o) \in Seq(written) /\ Contiguous(UpTo(log[n], o))
    BY UpToType DEF LogInv
  <1>6. SubSeq(db[n], 1, k) \in Seq(written)
    BY <1>4, PrefixType DEF LogInv
  <1>7. /\ log' \in [Node -> Seq(written)] /\ db' \in [Node -> Seq(written)]
        /\ \A m \in Node : Contiguous(log'[m])
        /\ \A m \in Node \ {n} : log'[m] = log[m]
    BY <1>2, <1>3, <1>5, <1>6 DEF LogInv, TypeOK
  <1>8. status'[n] # "LEADER" /\ \A m \in Node \ {n} : status'[m] = status[m]
            /\ role'[m] = role[m] /\ term'[m] = term[m]
    BY <1>1 DEF TypeOK
  <1>9. /\ LeadInv' /\ ConnInv'
        /\ conn' \in [Node -> Node \cup {None}] /\ lead' \in [Node -> Lead]
    BY <1>1, <1>8, CutOffLead
  <1>10. TypeOK'
    <2>1. log' \in [Node -> Seq(Entry)] /\ db' \in [Node -> Seq(Entry)]
      BY <1>7, StoreType DEF TypeOK
    <2>2. -1 \in Term
      BY BoundAssumption DEF Term
    <2>3. synced' \in [Node -> Nat] /\ flushed' \in [Node -> Nat]
      BY <1>2, <1>3, <1>4 DEF TypeOK
    <2> QED BY <1>1, <1>9, <2>1, <2>2, <2>3 DEF TypeOK
  <1>11. LogInv'
    BY <1>1, <1>7, ZenonT(30) DEF LogInv
  <1>12. ElectInv' /\ WriteInv'
    BY <1>1, <1>7, <1>8, QuietElect
  <1> QED BY <1>9, <1>10, <1>11, <1>12

\* A crash is counted.
LEMMA CrashStep ==
    ASSUME IInv, NEW n \in Node, Crash(n)
    PROVE  IInv'
  <1>1. crashes' \in 0 .. MaxCrash
    BY BoundAssumption DEF Crash, IInv, TypeOK
  <1>2. Restart(n) /\ UNCHANGED <<coordVars, written, answered>>
    BY DEF Crash
  <1> QED BY <1>1, <1>2, RestartStep

\* A follower applies entries of its own log, or stops to do so.
LEMMA ApplyCommittedStep ==
    ASSUME IInv, NEW f \in Node, ApplyCommitted(f)
    PROVE  IInv'
  <1> USE DEF IInv, coordVars, histVars
  <1> DEFINE o == IF adv[f] < synced[f] THEN adv[f] ELSE synced[f]
             ready == After(UpTo(log[f], o), applied[f])
             c == [conn EXCEPT ![f] = None]
  <1>1. /\ \/ /\ applied' = [applied EXCEPT ![f] = None] /\ Cut(c)
              /\ UNCHANGED <<term, status, role, log, synced, db, flushed, wiped, lastApp, adv>>
           \/ /\ db' = [db EXCEPT ![f] = @ \o ready]
              /\ applied' = [applied EXCEPT ![f] = LastOff(ready)]
              /\ UNCHANGED <<term, status, role, log, synced, flushed, wiped, lastApp, adv,
                             conn, lead>>
           \/ Restart(f)
        /\ UNCHANGED <<cterm, phase, resp, leader, becoming, chosen, written, answered, crashes>>
    BY Zenon DEF ApplyCommitted
  <1>2. ready \in Seq(written)
    BY UpToType, AfterType DEF LogInv
  <1>3. c \in [Node -> Node \cup {None}] /\ \A g \in Node : c[g] \in {conn[g], None}
    BY DEF TypeOK
  <1> HIDE DEF ready, c
  <1>4. CASE /\ applied' = [applied EXCEPT ![f] = None] /\ Cut(c)
             /\ UNCHANGED <<term, status, role, log, synced, db, flushed, wiped, lastApp, adv>>
    <2>1. /\ LeadInv' /\ ConnInv'
          /\ conn' \in [Node -> Node \cup {None}] /\ lead' \in [Node -> Lead]
      BY <1>3, <1>4, CutLead
    <2>2. TypeOK'
      BY <1>1, <1>4, <2>1 DEF TypeOK
    <2>3. LogInv' /\ ElectInv' /\ WriteInv'
      BY <1>1, <1>4, QuietLog, QuietElect
    <2> QED BY <2>1, <2>2, <2>3
  <1>5. CASE /\ db' = [db EXCEPT ![f] = @ \o ready]
             /\ applied' = [applied EXCEPT ![f] = LastOff(ready)]
             /\ UNCHANGED <<term, status, role, log, synced, flushed, wiped, lastApp, adv,
                            conn, lead>>
    <2>1. db' \in [Node -> Seq(written)]
      <3>1. db \in [Node -> Seq(written)]
        BY DEF TypeOK, LogInv
      <3>2. db[f] \o ready \in Seq(written)
        BY <1>2, <3>1, ConcatProperties
      <3> QED BY <1>5, <3>1, <3>2
    <2>2. TypeOK'
      <3>1. db' \in [Node -> Seq(Entry)]
        BY <2>1, StoreType DEF TypeOK
      <3>2. ready \in Seq(Entry)
        BY <1>2, SeqGrows DEF TypeOK
      <3>3. applied' \in [Node -> Nat \cup {None}]
        BY <1>5, <3>2, LastOffType DEF TypeOK
      <3> QED BY <1>1, <1>5, <3>1, <3>3 DEF TypeOK
    <2>3. LogInv'
      BY <1>1, <1>5, <2>1 DEF LogInv
    <2>4. LeadInv' /\ ConnInv'
      BY <1>5 DEF LeadInv, ConnInv
    <2>5. ElectInv' /\ WriteInv'
      BY <1>1, <1>5, QuietElect
    <2> QED BY <2>2, <2>3, <2>4, <2>5
  <1>6. CASE Restart(f)
    <2>1. crashes' \in 0 .. MaxCrash
      BY <1>1 DEF TypeOK
    <2>2. UNCHANGED <<coordVars, written, answered>>
      BY <1>1
    <2> QED BY <1>6, <2>1, <2>2, RestartStep
  <1> QED BY <1>1, <1>4, <1>5, <1>6, Zenon

\* A snapshot brings the database of a leader, hence written entries.
LEMMA SendSnapshotStep ==
    ASSUME IInv, NEW l \in Node, NEW f \in Node, SendSnapshot(l, f)
    PROVE  IInv'
  <1> USE DEF IInv, coordVars, histVars
  <1>1. /\ lead[l].cur[f] # None /\ role[f] = "follower"
        /\ log' = [log EXCEPT ![f] = <<>>] /\ synced' = [synced EXCEPT ![f] = 0]
        /\ db' = [db EXCEPT ![f] = db[l]] /\ flushed' = [flushed EXCEPT ![f] = Len(db[l])]
        /\ wiped' = wiped \ {f} /\ term' = [term EXCEPT ![f] = term[l]]
        /\ lastApp' = [lastApp EXCEPT ![f] = DbCommit(l)]
        /\ applied' = [applied EXCEPT ![f] = IF @ = None THEN None ELSE DbCommit(l)]
        /\ lead' = [lead EXCEPT ![l].cur[f] = NewCursor(DbCommit(l))]
        /\ UNCHANGED <<status, role, adv, conn, coordVars, histVars>>
    BY DEF SendSnapshot
  <1>2. DbCommit(l) \in Nat /\ Len(db[l]) \in Nat
    BY LastOffType, LenProperties DEF TypeOK, DbCommit
  <1>3. lead' \in [Node -> Lead] /\ LeadInv' /\ ConnInv'
    <2>1. NewCursor(DbCommit(l)) \in Cursor
      BY <1>2, NewCursorType
    <2>2. /\ UNCHANGED <<role, conn>>
          /\ \A n \in Node : status'[n] = "LEADER" <=> status[n] = "LEADER"
      BY <1>1
    <2> QED BY <1>1, <2>1, <2>2, UpdateCursor, Zenon
  <1>4. /\ log' \in [Node -> Seq(written)] /\ db' \in [Node -> Seq(written)]
        /\ \A n \in Node : Contiguous(log'[n])
        /\ \A n \in Node \ {f} : log'[n] = log[n] /\ term'[n] = term[n]
    BY <1>1, EmptyLog DEF LogInv, TypeOK
  <1>5. TypeOK'
    <2>1. log' \in [Node -> Seq(Entry)] /\ db' \in [Node -> Seq(Entry)]
      BY <1>4, StoreType DEF TypeOK
    <2> QED BY <1>1, <1>2, <1>3, <2>1 DEF TypeOK
  <1>6. LogInv'
    BY <1>1, <1>4 DEF LogInv
  <1>7. ElectInv' /\ WriteInv'
    <2>1. status[f] # "LEADER"
      BY <1>1 DEF LeadInv
    <2> QED BY <1>1, <1>4, <2>1, QuietElect
  <1> QED BY <1>3, <1>5, <1>6, <1>7

\* A snapshot that breaks off leaves an empty node.
LEMMA SnapshotFailsStep ==
    ASSUME IInv, NEW l \in Node, NEW f \in Node, SnapshotFails(l, f)
    PROVE  IInv'
  <1> USE DEF IInv, coordVars, histVars
  <1>1. /\ role[f] = "follower"
        /\ log' = [log EXCEPT ![f] = <<>>] /\ synced' = [synced EXCEPT ![f] = 0]
        /\ db' = [db EXCEPT ![f] = <<>>] /\ flushed' = [flushed EXCEPT ![f] = 0]
        /\ wiped' = wiped \cup {f}
        /\ term' = term \/ term' = [term EXCEPT ![f] = term[l]]
        /\ UNCHANGED <<status, role, lastApp, adv, applied, conn, lead, coordVars, histVars>>
    BY DEF SnapshotFails
  <1>2. /\ log' \in [Node -> Seq(written)] /\ db' \in [Node -> Seq(written)]
        /\ \A n \in Node : Contiguous(log'[n])
        /\ \A n \in Node \ {f} : log'[n] = log[n] /\ term'[n] = term[n]
    BY <1>1, EmptyLog DEF LogInv, TypeOK
  <1>3. TypeOK'
    <2>1. log' \in [Node -> Seq(Entry)] /\ db' \in [Node -> Seq(Entry)]
      BY <1>2, StoreType DEF TypeOK
    <2>2. /\ term' \in [Node -> Term] /\ synced' \in [Node -> Nat]
          /\ flushed' \in [Node -> Nat] /\ wiped' \subseteq Node
      BY <1>1 DEF TypeOK
    <2> QED BY <1>1, <2>1, <2>2, ZenonT(30) DEF TypeOK
  <1>4. LogInv'
    BY <1>1, <1>2 DEF LogInv
  <1>5. LeadInv' /\ ConnInv'
    BY <1>1 DEF LeadInv, ConnInv
  <1>6. ElectInv' /\ WriteInv'
    <2>1. status[f] # "LEADER"
      BY <1>1 DEF LeadInv
    <2> QED BY <1>1, <1>2, <2>1, QuietElect
  <1> QED BY <1>3, <1>4, <1>5, <1>6

-----------------------------------------------------------------------------
(* The theorems *)

\* Before the first election there is nothing to agree on.
LEMMA InitIInv == Init => IInv
  <1> SUFFICES ASSUME Init PROVE IInv
    OBVIOUS
  <1> USE DEF Init
  <1>1. TypeOK
    <2>1. -1 \in Term /\ 0 \in 0 .. MaxCrash
      BY BoundAssumption DEF Term
    <2>2. <<>> \in Seq(Entry) /\ NoLead \in Lead
      BY EmptyLog, NoLeadType
    <2> QED BY <2>1, <2>2 DEF TypeOK
  <1>2. LogInv
    BY EmptyLog, FS_EmptySet DEF LogInv
  <1>3. LeadInv /\ ConnInv
    BY DEF LeadInv, ConnInv
  <1>4. ElectInv /\ WriteInv
    BY DEF ElectInv, WriteInv
  <1> QED BY <1>1, <1>2, <1>3, <1>4 DEF IInv

\* Every step of the shard preserves the invariant.
LEMMA NextIInv == IInv /\ [Next]_vars => IInv'
  <1> SUFFICES ASSUME IInv, [Next]_vars PROVE IInv'
    OBVIOUS
  <1>1. CASE UNCHANGED vars
    <2>1. LogInv' /\ ElectInv' /\ WriteInv'
      BY <1>1, QuietLog, QuietElect DEF IInv, vars, nodeVars, coordVars, histVars
    <2>2. TypeOK' /\ LeadInv' /\ ConnInv'
      BY <1>1 DEF IInv, TypeOK, LeadInv, ConnInv, vars, nodeVars, coordVars, histVars
    <2> QED BY <2>1, <2>2 DEF IInv
  <1>2. CASE ElectLeader \/ LeaderElected
    BY <1>2, ElectLeaderStep, LeaderElectedStep
  <1>3. ASSUME NEW n \in Node, SelectNewLeader(n) \/ AddFollower(n) PROVE IInv'
    BY <1>3, SelectNewLeaderStep, AddFollowerStep
  <1>4. ASSUME NEW n \in Node, NEW t \in 0 .. cterm, NEW heard \in BOOLEAN, NewTerm(n, t, heard)
        PROVE  IInv'
    BY <1>4, NewTermStep
  <1>5. ASSUME NEW n \in Node, StartServing(n) \/ BecomeLeaderTimeout(n) PROVE IInv'
    BY <1>5, StartServingStep, BecomeLeaderTimeoutStep
  <1>6. ASSUME NEW n \in Node, WriteStream(n) \/ SyncLeader(n) \/ SyncFencedLeader(n) PROVE IInv'
    BY <1>6, WriteStreamStep, SyncLeaderStep, SyncFencedLeaderStep
  <1>7. ASSUME NEW n \in Node, SyncFollower(n) \/ ApplyCommitted(n) \/ BreakStream(n) \/ Crash(n)
        PROVE  IInv'
    BY <1>7, SyncFollowerStep, ApplyCommittedStep, StreamEndStep, CrashStep
  <1>8. ASSUME NEW r \in becoming, Request(r) PROVE IInv'
    BY <1>8, GetOrCreateLeaderStep, BecomeLeaderStep DEF Request
  <1>9. ASSUME NEW l \in Node, NEW f \in Node, Attach(l, f) PROVE IInv'
    BY <1>9, GetOrCreateFollowerStep, AttachFollowerStep, TruncateFollowerStep, AttachFailsStep
       DEF Attach
  <1>10. ASSUME NEW l \in Node, NEW f \in Node, Stream(l, f) PROVE IInv'
    BY <1>10, OpenStreamStep, FollowerAppendStep, FollowerDuplicateStep, StreamEndStep,
       SendSnapshotStep DEF Stream
  <1>11. ASSUME NEW l \in Node, NEW f \in Node, ReceiveAck(l, f) \/ SnapshotFails(l, f) PROVE IInv'
    BY <1>11, ReceiveAckStep, SnapshotFailsStep
  <1> QED BY <1>1, <1>2, <1>3, <1>4, <1>5, <1>6, <1>7, <1>8, <1>9, <1>10, <1>11, Zenon DEF Next

\* The inductive invariant.
THEOREM Inductive == Spec => []IInv
  BY InitIInv, NextIInv, PTL DEF Spec

\* Every variable of coordinator and nodes keeps its type: commit offsets and
\* cursors are offsets, and what was answered was written.
THEOREM TypeCorrect == Spec => []TypeOK
  <1>1. IInv => TypeOK
    BY DEF IInv
  <1> QED BY <1>1, Inductive, PTL

\* No two nodes lead in one term, whatever requests are late or lost and
\* whichever nodes crash, are wiped or come back: what electLeader stores
\* before it fences is enough.
THEOREM OneLeader == Spec => []OneLeaderPerTerm
  <1>1. IInv => OneLeaderPerTerm
    BY ChoiceIsOne DEF IInv
  <1> QED BY <1>1, Inductive, PTL

\* Term and offset identify the entry that a WAL or a database holds: a leader
\* never gives an offset of its term to two writes, and truncation, snapshots
\* and crashes never make an entry anew.
THEOREM EntryIdentity == Spec => []EntriesUnique
  <1>1. IInv => EntriesUnique
    <2> SUFFICES ASSUME IInv PROVE EntriesUnique
      OBVIOUS
    <2>1. \A n \in Node : Holds(n) \subseteq written
      <3> SUFFICES ASSUME NEW n \in Node PROVE Holds(n) \subseteq written
        OBVIOUS
      <3>1. log[n] \in Seq(written) /\ db[n] \in Seq(written)
        BY DEF IInv, LogInv
      <3>2. \A s \in Seq(written) : Entries(s) \subseteq written
        BY LenProperties, ElementOfSeq DEF Entries
      <3> QED BY <3>1, <3>2 DEF Holds
    <2> QED BY <2>1 DEF IInv, WriteInv, EntriesUnique
  <1> QED BY <1>1, Inductive, PTL

=============================================================================
