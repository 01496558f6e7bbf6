----------------------- MODULE QuorumAckTrackerProofs -----------------------
(***************************************************************************)
(* For every replication factor, every number of writes and every          *)
(* behaviour of the environment: the commit offset of the tracker, and      *)
(* every answer to a client, stands for entries that a majority of the      *)
(* ensemble stores.                                                         *)
(***************************************************************************)
EXTENDS QuorumAckTrackerInvariant

USE RFAssumption, OffsetAssumption, EnvAssumption

\* Every step of the tracker and of its users preserves the invariant.
LEMMA NextInv == IInv /\ [Next]_vars => IInv'
  <1> SUFFICES ASSUME IInv, [Next]_vars PROVE IInv'
    OBVIOUS
  <1> USE DEF IInv, trackerVars, writerVars, followerVars
  <1>1. ASSUME NEW a \in -1 .. InitHead, NewCursorAcker(a) PROVE IInv'
    <2> DEFINE S == {o \in Offset : commit < o /\ o <= a}
    <2>1. /\ cursors \in Cursor /\ a \in Position /\ S \in SUBSET Offset
          /\ acked' = [acked EXCEPT ![cursors] = a]
          /\ stored' = [stored EXCEPT ![cursors] = a]
      BY <1>1 DEF NewCursorAcker, TypeOK, Cursor, Position
    <2>2. /\ acked' \in [Cursor -> Position] /\ stored' \in [Cursor -> Position]
          /\ mark' \in [Cursor -> Position]
          /\ \A d \in Cursor : mark[d] <= mark'[d]
          /\ \A o \in S : o <= mark'[cursors]
      BY <2>1 DEF mark, TypeOK, CursorInv, Position, Offset
    <2>3. ack(cursors, S) /\ synced' = synced
      BY <1>1 DEF NewCursorAcker
    <2>4. /\ tracked' \in SUBSET tracked
          /\ bits' \in [Offset -> SUBSET Cursor]
          /\ commit' \in Position
          /\ waiting' \in Seq(Position) /\ db' \in Seq(Position)
          /\ stage' \in [Offset -> Stages]
          /\ BitsInv' /\ CommitInv' /\ StageInv'
      <3> HIDE DEF S
      <3> QED BY <2>1, <2>2, <2>3, AckStep, Zenon
    <2>5. TypeOK'
      BY <1>1, <2>2, <2>4 DEF NewCursorAcker, TypeOK
    <2>6. OffsetInv'
      BY <1>1, <2>4 DEF NewCursorAcker, OffsetInv
    <2>7. CursorInv'
      <3> SUFFICES ASSUME NEW d \in Cursor
                   PROVE  /\ acked'[d] <= stored'[d] /\ \A o \in again'[d] : o <= stored'[d]
                          /\ d \notin streaming' => again'[d] = {}
                          /\ d >= cursors' => acked'[d] = -1 /\ d \notin streaming'
        BY DEF CursorInv
      <3>1. cursors \in Nat /\ cursors' = cursors + 1 /\ UNCHANGED <<again, streaming>>
        BY <1>1 DEF NewCursorAcker, TypeOK
      <3>2. CASE d = cursors
        <4>1. again[d] = {} /\ d \notin streaming
          BY <3>1, <3>2 DEF CursorInv
        <4>2. acked'[d] = a /\ stored'[d] = a
          BY <2>1, <3>2 DEF TypeOK
        <4> QED BY <3>1, <3>2, <4>1, <4>2
      <3>3. CASE d # cursors
        <4>1. acked'[d] = acked[d] /\ stored'[d] = stored[d]
          BY <2>1, <3>3 DEF TypeOK
        <4>2. d >= cursors' => d >= cursors
          BY <3>1 DEF Cursor
        <4> QED BY <3>1, <4>1, <4>2 DEF CursorInv
      <3> QED BY <3>2, <3>3
    <2> QED BY <2>4, <2>5, <2>6, <2>7
  <1>2. CASE AwaitElectionCommit
    <2>1. TypeOK'
      <3>1. waiting' \in Seq(Position)
        <4>1. InitHead \in Position /\ waiting \in Seq(Position)
          BY DEF TypeOK, Position
        <4>2. Append(waiting, InitHead) \in Seq(Position)
          BY <4>1, AppendProperties, Zenon
        <4> QED BY <1>2, <4>1, <4>2 DEF AwaitElectionCommit
      <3>2. db' \in Seq(Position)
        BY <1>2, EntriesType DEF AwaitElectionCommit, Serve, TypeOK
      <3> QED BY <1>2, <3>1, <3>2 DEF AwaitElectionCommit, Serve, TypeOK
    <2>2. OffsetInv' /\ CursorInv'
      BY <1>2 DEF AwaitElectionCommit, OffsetInv, CursorInv
    <2>3. Quiet
      BY <1>2 DEF Quiet, AwaitElectionCommit, TypeOK, OffsetInv, Position, mark
    <2> QED BY <2>1, <2>2, <2>3, QuietStep, Zenon
  <1>3. CASE ElectionCommitted
    <2>1. TypeOK'
      <3>1. db' \in Seq(Position)
        BY <1>3, EntriesType DEF ElectionCommitted, Serve, TypeOK
      <3> QED BY <1>3, <3>1 DEF ElectionCommitted, Serve, TypeOK
    <2>2. OffsetInv' /\ CursorInv'
      BY <1>3 DEF ElectionCommitted, OffsetInv, CursorInv
    <2>3. Quiet
      BY <1>3 DEF Quiet, ElectionCommitted, TypeOK, OffsetInv, Position, mark
    <2> QED BY <2>1, <2>2, <2>3, QuietStep, Zenon
  <1>4. CASE AbandonElection
    <2>1. TypeOK' /\ OffsetInv' /\ CursorInv'
      BY <1>4 DEF AbandonElection, TypeOK, OffsetInv, CursorInv
    <2>2. Quiet
      BY <1>4 DEF Quiet, AbandonElection, TypeOK, OffsetInv, Position, mark
    <2> QED BY <2>1, <2>2, QuietStep, Zenon
  <1>5. ASSUME NEW isUnary \in BOOLEAN, AppendWrite(isUnary) PROVE IInv'
    <2>1. next + 1 \in Offset /\ next' = next + 1 /\ InitHead < next + 1
      BY <1>5 DEF AppendWrite, TypeOK, OffsetInv, Position, Offset
    <2>2. TypeOK'
      BY <1>5, <2>1 DEF AppendWrite, TypeOK, Position, Offset, Stages
    <2>3. OffsetInv' /\ CursorInv'
      BY <1>5, <2>1 DEF AppendWrite, TypeOK, OffsetInv, CursorInv, Position
    <2>4. Quiet
      BY <1>5, <2>1 DEF Quiet, AppendWrite, TypeOK, OffsetInv, Position, mark
    <2> QED BY <2>1, <2>2, <2>3, <2>4, QuietStep, Zenon
  <1>6. CASE SyncWal
    <2>1. TypeOK' /\ OffsetInv' /\ CursorInv'
      BY <1>6 DEF SyncWal, TypeOK, OffsetInv, CursorInv, Position
    <2>2. Quiet
      BY <1>6 DEF Quiet, SyncWal, TypeOK, OffsetInv, Position, mark
    <2> QED BY <2>1, <2>2, QuietStep, Zenon
  <1>7. ASSUME NEW o \in Offset, CancelSync(o) PROVE IInv'
    <2>1. TypeOK' /\ OffsetInv' /\ CursorInv'
      BY <1>7 DEF CancelSync, TypeOK, OffsetInv, CursorInv, Stages
    <2>2. Quiet
      BY <1>7 DEF Quiet, CancelSync, TypeOK, OffsetInv, Position, mark
    <2> QED BY <2>1, <2>2, QuietStep, Zenon
  <1>8. ASSUME NEW o \in Offset, WriterAdvancesHead(o) PROVE IInv'
    <2> DEFINE st == [stage EXCEPT ![o] = "advanced"]
    <2>1. /\ st \in [Offset -> Stages] /\ InitHead < o /\ o <= synced
          /\ AdvanceHeadOffset(o, st)
          /\ UNCHANGED <<next, cursors, closed, synced, unary, phase, followerVars>>
      BY <1>8 DEF WriterAdvancesHead, TypeOK, StageInv, Stages
    <2>2. \A p \in Offset : st[p] = stage[p] \/ (p = o /\ st[p] = "advanced")
      BY DEF TypeOK
    <2> HIDE DEF st
    <2>3. mark' = mark /\ \A p \in Int : AckedByQuorum(p) <=> AckedByQuorum(p)'
      BY <2>1 DEF AckedByQuorum, mark
    <2>4. CASE o <= head
      <3>1. stage' = st /\ UNCHANGED <<head, commit, tracked, bits, waiting, db>>
        BY <2>1, <2>4 DEF AdvanceHeadOffset
      <3>2. TypeOK' /\ OffsetInv' /\ CursorInv' /\ BitsInv'
        BY <2>1, <2>3, <3>1 DEF TypeOK, OffsetInv, CursorInv, BitsInv
      <3>3. CommitInv'
        BY <2>3, <3>1 DEF CommitInv, TypeOK, Position
      <3>4. StageInv'
        BY <2>1, <2>2, <2>3, <3>1 DEF StageInv, Offset
      <3> QED BY <3>2, <3>3, <3>4
    <2>5. CASE ~(o <= head) /\ requiredAcks = 0
      <3>1. /\ head' = o /\ UNCHANGED <<tracked, bits>>
            /\ notifyCommitOffsetAdvanced(o, st)
        BY <2>1, <2>5 DEF AdvanceHeadOffset
      <3>2. /\ commit' = o
            /\ waiting' \in Seq(Position) /\ db' \in Seq(Position)
            /\ stage' \in [Offset -> Stages]
            /\ \A p \in Offset : \/ stage'[p] = st[p]
                                 \/ stage'[p] = "answered" /\ p <= o
        BY <2>1, <3>1, NotifyStep, Zenon
      <3>3. \A p \in Offset : p <= o => AckedByQuorum(p)'
        <4>1. {} \in SUBSET Cursor /\ Cardinality({}) = requiredAcks
          BY <2>5, FS_EmptySet
        <4>2. \A p \in Offset : p <= o => p <= synced'
          BY <2>1 DEF TypeOK, Position, Offset
        <4> QED BY <4>1, <4>2, Zenon DEF AckedByQuorum
      <3>4. TypeOK' /\ OffsetInv' /\ CursorInv' /\ BitsInv'
        BY <2>1, <2>3, <2>5, <3>1, <3>2
        DEF TypeOK, OffsetInv, CursorInv, BitsInv, Offset, Position
      <3>5. CommitInv'
        BY <3>2, <3>3 DEF CommitInv, Offset
      <3>6. StageInv'
        BY <2>1, <2>2, <2>3, <3>2, <3>3 DEF StageInv, Offset
      <3> QED BY <3>4, <3>5, <3>6
    <2>6. CASE ~(o <= head) /\ requiredAcks # 0
      <3>1. /\ head' = o /\ tracked' = tracked \cup {o}
            /\ bits' = [bits EXCEPT ![o] = {}]
            /\ stage' = st /\ UNCHANGED <<commit, waiting, db>>
        BY <2>1, <2>6 DEF AdvanceHeadOffset
      <3>2. TypeOK' /\ OffsetInv' /\ CursorInv' /\ BitsInv'
        BY <2>1, <2>3, <2>6, <3>1
        DEF TypeOK, OffsetInv, CursorInv, BitsInv, Offset, Position
      <3>3. CommitInv'
        BY <2>3, <3>1 DEF CommitInv, TypeOK, Position
      <3>4. StageInv'
        BY <2>1, <2>2, <2>3, <3>1 DEF StageInv, Offset
      <3> QED BY <3>2, <3>3, <3>4
    <2> QED BY <2>4, <2>5, <2>6
  <1>9. ASSUME NEW o \in Offset, WaitForCommitOffsetAsync(o) PROVE IInv'
    <2>1. /\ stage[o] = "advanced" /\ InitHead < o /\ o <= synced
          /\ UNCHANGED <<head, next, commit, tracked, bits, cursors, closed,
                         synced, unary, phase, followerVars>>
      BY <1>9 DEF WaitForCommitOffsetAsync, StageInv
    <2>2. OffsetInv' /\ CursorInv'
      BY <2>1 DEF OffsetInv, CursorInv
    <2>3. TypeOK'
      <3>1. o \in Position /\ waiting \in Seq(Position) /\ db \in Seq(Position)
        BY DEF TypeOK, Position, Offset
      <3>2. Append(waiting, o) \in Seq(Position) /\ Append(db, o) \in Seq(Position)
        BY <3>1, AppendProperties, Zenon
      <3>3. waiting' \in Seq(Position) /\ db' \in Seq(Position)
        BY <1>9, <3>1, <3>2 DEF WaitForCommitOffsetAsync
      <3>4. stage' \in [Offset -> Stages]
        BY <1>9 DEF WaitForCommitOffsetAsync, TypeOK, Stages
      <3> QED BY <2>1, <3>3, <3>4 DEF TypeOK
    <2>4. CASE stage' = [stage EXCEPT ![o] = "answered"] /\ (requiredAcks = 0 \/ commit >= o)
      <3>1. mark' = mark /\ \A p \in Int : AckedByQuorum(p) <=> AckedByQuorum(p)'
        BY <2>1 DEF AckedByQuorum, mark
      <3>2. AckedByQuorum(o)
        <4>1. CASE requiredAcks = 0
          <5>1. {} \in SUBSET Cursor /\ Cardinality({}) = requiredAcks
            BY <4>1, FS_EmptySet
          <5> QED BY <2>1, <5>1, Zenon DEF AckedByQuorum
        <4>2. CASE commit >= o
          <5>1. commit \in Int /\ o \in Int /\ o <= commit /\ commit > InitCommit
            BY <2>1, <4>2 DEF TypeOK, Position, Offset
          <5> QED BY <5>1, QuorumPrefix DEF CommitInv
        <4> QED BY <2>4, <4>1, <4>2
      <3>3. BitsInv' /\ CommitInv'
        BY <2>1, <3>1 DEF BitsInv, CommitInv, TypeOK, Position
      <3>4. StageInv'
        BY <2>1, <2>4, <3>1, <3>2 DEF StageInv, TypeOK, Offset
      <3> QED BY <2>2, <2>3, <3>3, <3>4
    <2>5. CASE \E v \in {"queued", "failed"} : stage' = [stage EXCEPT ![o] = v]
      <3>1. Quiet
        BY <2>1, <2>5 DEF Quiet, TypeOK, Position, mark
      <3> QED BY <2>2, <2>3, <3>1, QuietStep, Zenon
    <2> QED BY <1>9, <2>4, <2>5 DEF WaitForCommitOffsetAsync
  <1>10. ASSUME NEW c \in Cursor, OpenStream(c) PROVE IInv'
    <2>1. TypeOK' /\ OffsetInv' /\ CursorInv'
      BY <1>10 DEF OpenStream, Attached, Cursor, TypeOK, OffsetInv, CursorInv
    <2>2. Quiet
      BY <1>10 DEF Quiet, OpenStream, TypeOK, OffsetInv, Position, mark
    <2> QED BY <2>1, <2>2, QuietStep, Zenon
  <1>11. ASSUME NEW c \in Cursor, SendSnapshot(c) PROVE IInv'
    <2> DEFINE last == IF db = <<>> THEN InitCommit ELSE db[Len(db)]
    <2>1. last \in Position
      <3>1. CASE db = <<>>
        BY <3>1 DEF Position
      <3>2. CASE db # <<>>
        BY <3>2 DEF TypeOK
      <3> QED BY <3>1, <3>2
    <2>2. /\ stored' = [stored EXCEPT ![c] = last]
          /\ acked' = [acked EXCEPT ![c] = last]
          /\ acked[c] = -1 /\ c < cursors /\ c \notin streaming
          /\ streaming' = streaming \cup {c}
          /\ UNCHANGED <<trackerVars, writerVars, again, drops>>
      BY <1>11 DEF SendSnapshot, NeedsSnapshot, Attached, Cursor, TypeOK
    <2> HIDE DEF last
    <2>3. TypeOK' /\ OffsetInv'
      BY <2>1, <2>2 DEF TypeOK, OffsetInv
    <2>4. \A d \in Cursor : mark[d] <= mark'[d]
      <3>1. acked \in [Cursor -> Position] /\ stored \in [Cursor -> Position]
        BY DEF TypeOK
      <3> QED BY <2>1, <2>2, <3>1 DEF mark, Position
    <2>6. CursorInv'
      <3> SUFFICES ASSUME NEW d \in Cursor
                   PROVE  /\ acked'[d] <= stored'[d] /\ \A o \in again'[d] : o <= stored'[d]
                          /\ d \notin streaming' => again'[d] = {}
                          /\ d >= cursors' => acked'[d] = -1 /\ d \notin streaming'
        BY DEF CursorInv
      <3>1. CASE d = c
        <4>1. again'[d] = {}
          BY <2>2, <3>1 DEF CursorInv
        <4>2. acked'[d] = last /\ stored'[d] = last /\ last \in Int
          BY <2>1, <2>2, <3>1 DEF TypeOK, Position
        <4>3. ~(d >= cursors')
          BY <2>2, <3>1 DEF TypeOK, Cursor
        <4>4. acked'[d] <= stored'[d]
          BY <4>2
        <4> QED BY <4>1, <4>3, <4>4, Zenon
      <3>2. CASE d # c
        <4>1. /\ acked'[d] = acked[d] /\ stored'[d] = stored[d] /\ again'[d] = again[d]
              /\ cursors' = cursors /\ (d \in streaming' <=> d \in streaming)
          BY <2>2, <3>2 DEF TypeOK
        <4> QED BY <4>1 DEF CursorInv
      <3> QED BY <3>1, <3>2
    <2>5. Quiet
      BY <2>2, <2>4 DEF Quiet, TypeOK, Position
    <2> QED BY <2>3, <2>5, <2>6, QuietStep, Zenon
  <1>12. ASSUME NEW c \in Cursor, Replicate(c) PROVE IInv'
    <2>1. /\ stored[c] < synced
          /\ stored' = [stored EXCEPT ![c] = @ + 1]
          /\ UNCHANGED <<trackerVars, writerVars, acked, again, streaming, drops>>
      BY <1>12 DEF Replicate, TypeOK, OffsetInv, Position
    <2>2. TypeOK' /\ OffsetInv' /\ CursorInv'
      <3>1. TypeOK' /\ OffsetInv'
        BY <2>1 DEF TypeOK, OffsetInv, Position
      <3>2. \A d \in Cursor : stored[d] \in Int /\ stored'[d] \in Int /\ stored[d] <= stored'[d]
        BY <2>1 DEF TypeOK, Position
      <3>3. \A d \in Cursor : acked[d] \in Int /\ again[d] \in SUBSET Int
        BY DEF TypeOK, Position, Offset
      <3>4. UNCHANGED <<cursors, acked, again, streaming>>
        BY <2>1
      <3>5. CursorInv'
        BY <3>2, <3>3, <3>4 DEF CursorInv
      <3> QED BY <3>1, <3>5
    <2>3. Quiet
      BY <2>1 DEF Quiet, TypeOK, Position, mark
    <2> QED BY <2>2, <2>3, QuietStep, Zenon
  <1>13. ASSUME NEW c \in Cursor, Ack(c) PROVE IInv'
    <2> DEFINE S == {acked[c] + 1}
    <2>1. /\ S \in SUBSET Offset /\ ack(c, S) /\ synced' = synced
          /\ acked' = [acked EXCEPT ![c] = @ + 1]
      BY <1>13 DEF Ack, TypeOK, Position, Offset
    <2>2. /\ acked' \in [Cursor -> Position] /\ mark' \in [Cursor -> Position]
          /\ \A d \in Cursor : mark[d] <= mark'[d]
          /\ \A o \in S : o <= mark'[c]
      BY <1>13, <2>1 DEF Ack, mark, TypeOK, Position
    <2>3. /\ tracked' \in SUBSET tracked
          /\ bits' \in [Offset -> SUBSET Cursor]
          /\ commit' \in Position
          /\ waiting' \in Seq(Position) /\ db' \in Seq(Position)
          /\ stage' \in [Offset -> Stages]
          /\ BitsInv' /\ CommitInv' /\ StageInv'
      <3> HIDE DEF S
      <3> QED BY <2>1, <2>2, AckStep, Zenon
    <2>4. TypeOK' /\ OffsetInv'
      BY <1>13, <2>2, <2>3 DEF Ack, TypeOK, OffsetInv
    <2>5. CursorInv'
      <3>1. /\ c \in streaming /\ acked[c] < stored[c]
            /\ UNCHANGED <<cursors, stored, again, streaming>>
        BY <1>13 DEF Ack
      <3>2. /\ acked'[c] = acked[c] + 1
            /\ \A d \in Cursor \ {c} : acked'[d] = acked[d]
        BY <2>1 DEF TypeOK
      <3>3. ~ (c >= cursors)
        BY <3>1, Zenon DEF CursorInv
      <3>4. acked'[c] <= stored[c]
        <4>1. acked[c] \in Int /\ stored[c] \in Int
          BY DEF TypeOK, Position
        <4> QED BY <4>1, <3>1, <3>2
      <3> QED BY <3>1, <3>2, <3>3, <3>4 DEF CursorInv
    <2> QED BY <2>3, <2>4, <2>5
  <1>14. ASSUME NEW c \in Cursor, NEW o \in Offset, AckAgain(c, o) PROVE IInv'
    <2> DEFINE S == {o}
    <2>1. /\ S \in SUBSET Offset /\ ack(c, S) /\ synced' = synced
          /\ c \in streaming /\ o \in again[c] /\ o <= stored[c]
          /\ acked' = [acked EXCEPT ![c] = o] /\ again' = [again EXCEPT ![c] = @ \ {o}]
          /\ UNCHANGED <<head, next, cursors, closed, synced, unary, phase, stored,
                         streaming, drops>>
      BY <1>14 DEF AckAgain, CursorInv
    <2>2. /\ acked' \in [Cursor -> Position] /\ mark' \in [Cursor -> Position]
          /\ \A d \in Cursor : mark[d] <= mark'[d]
          /\ \A p \in S : p <= mark'[c]
      BY <2>1 DEF mark, TypeOK, Position, Offset
    <2>3. /\ tracked' \in SUBSET tracked
          /\ bits' \in [Offset -> SUBSET Cursor]
          /\ commit' \in Position
          /\ waiting' \in Seq(Position) /\ db' \in Seq(Position)
          /\ stage' \in [Offset -> Stages]
          /\ BitsInv' /\ CommitInv' /\ StageInv'
      <3> HIDE DEF S
      <3> QED BY <2>1, <2>2, AckStep, Zenon
    <2>4. TypeOK' /\ OffsetInv'
      BY <2>1, <2>2, <2>3 DEF TypeOK, OffsetInv
    <2>5. CursorInv'
      <3>1. c < cursors
        BY <2>1 DEF CursorInv, Cursor, TypeOK
      <3> QED BY <2>1, <3>1 DEF TypeOK, CursorInv, Cursor
    <2> QED BY <2>3, <2>4, <2>5
  <1>15. ASSUME NEW c \in Cursor, Disconnect(c) PROVE IInv'
    <2>1. TypeOK' /\ OffsetInv' /\ CursorInv'
      BY <1>15 DEF Disconnect, TypeOK, OffsetInv, CursorInv
    <2>2. Quiet
      BY <1>15 DEF Quiet, Disconnect, TypeOK, OffsetInv, Position, mark
    <2> QED BY <2>1, <2>2, QuietStep, Zenon
  <1>16. CASE Close
    <2>1. TypeOK' /\ OffsetInv' /\ CursorInv'
      BY <1>16 DEF Close, TypeOK, OffsetInv, CursorInv
    <2>2. Quiet
      BY <1>16 DEF Quiet, Close, TypeOK, OffsetInv, Position, mark
    <2> QED BY <2>1, <2>2, QuietStep, Zenon
  <1>17. CASE UNCHANGED vars
    <2>1. TypeOK' /\ OffsetInv' /\ CursorInv'
      BY <1>17 DEF vars, TypeOK, OffsetInv, CursorInv
    <2>2. Quiet
      BY <1>17 DEF Quiet, vars, TypeOK, OffsetInv, Position, mark
    <2> QED BY <2>1, <2>2, QuietStep, Zenon
  <1> QED
    BY <1>1, <1>2, <1>3, <1>4, <1>5, <1>6, <1>7, <1>8, <1>9, <1>10, <1>11, <1>12,
       <1>13, <1>14, <1>15, <1>16, <1>17 DEF Next

-----------------------------------------------------------------------------
\* What a quorum stores for good, it stores.
LEMMA QuorumStores ==
    ASSUME TypeOK, CursorInv, NEW o \in Int, AckedByQuorum(o)
    PROVE  OnQuorum(o)
  <1>1. PICK Q \in SUBSET Cursor : /\ Cardinality(Q) = requiredAcks
                                   /\ \A c \in Q : o <= mark[c]
    BY DEF AckedByQuorum
  <1>2. \A c \in Cursor : mark[c] \in Int /\ stored[c] \in Int /\ mark[c] <= stored[c]
    <2>1. \A c \in Cursor : acked[c] <= stored[c]
      BY DEF CursorInv
    <2>2. acked \in [Cursor -> Position] /\ stored \in [Cursor -> Position]
      BY DEF TypeOK
    <2> QED BY <2>1, <2>2 DEF mark, Position
  <1>3. \A c \in Q : o <= stored[c]
    BY <1>1, <1>2
  <1> QED BY <1>1, <1>3, Zenon DEF AckedByQuorum, OnQuorum

\* The inductive invariant holds in every state of the tracker.
THEOREM Inductive == Spec => []IInv
  BY InitInv, NextInv, PTL DEF Spec

\* The tracker never leaves its types: no offset beyond the last one handed
\* out, no bit of a cursor that does not exist.
THEOREM TypeCorrect == Spec => []TypeOK
  <1>1. IInv => TypeOK
    BY DEF IInv
  <1> QED BY <1>1, Inductive, PTL

\* ack and notifyCommitOffsetAdvanced never commit an entry that a majority of
\* the ensemble does not store, for every replication factor.
THEOREM CommitSafe == Spec => []CommitOnQuorum
  <1>1. IInv => CommitOnQuorum
    BY QuorumStores DEF IInv, CommitInv, CommitOnQuorum, TypeOK, Position
  <1> QED BY <1>1, Inductive, PTL

\* WaitForCommitOffset and its asynchronous form never answer a client whose
\* write is not stored by a majority of the ensemble.
THEOREM AnswersSafe == Spec => []AnsweredOnQuorum
  <1>1. IInv => AnsweredOnQuorum
    BY QuorumStores DEF IInv, StageInv, AnsweredOnQuorum, Offset
  <1> QED BY <1>1, Inductive, PTL
=============================================================================
