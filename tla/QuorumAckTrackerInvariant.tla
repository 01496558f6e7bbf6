---------------------- MODULE QuorumAckTrackerInvariant ----------------------
(***************************************************************************)
(* The inductive invariant of QuorumAckTracker, and what the operations of  *)
(* the tracker do to it.                                                    *)
(*                                                                          *)
(* CommitOnQuorum alone is not inductive.  That a bitset which is full      *)
(* proves a quorum needs the link from a bit to the position of the cursor  *)
(* that set it (BitsInv), and the position of the cursor to the log of its  *)
(* follower (CursorInv).  A snapshot may take entries away from a follower, *)
(* and the position of a cursor may go back: the argument counts what a     *)
(* follower stores once its cursor has a position.                          *)
(***************************************************************************)
EXTENDS QuorumAckTracker, SequenceTheorems, FiniteSetTheorems, TLAPS

USE RFAssumption, OffsetAssumption, EnvAssumption

\* What the follower of each cursor stores for good: no snapshot replaces the log
\* of a follower whose cursor has seen an acknowledgement.
mark == [c \in Cursor |-> IF acked[c] = -1 THEN -1 ELSE stored[c]]

\* OnQuorum, in terms of what followers store for good.
AckedByQuorum(o) ==
    /\ o <= synced
    /\ \E Q \in SUBSET Cursor : /\ Cardinality(Q) = requiredAcks
                               /\ \A c \in Q : o <= mark[c]

OffsetInv ==
    /\ InitHead <= head /\ head <= synced /\ synced <= next
    /\ \A o \in tracked : o <= head

CursorInv ==
    \A c \in Cursor :
        /\ acked[c] <= stored[c] /\ \A o \in again[c] : o <= stored[c]
        /\ c \notin streaming => again[c] = {}
        /\ c >= cursors => acked[c] = -1 /\ c \notin streaming

BitsInv == \A o \in Offset : \A c \in bits[o] : o <= mark[c]

CommitInv == commit > InitCommit => AckedByQuorum(commit)

StageInv ==
    \A o \in Offset :
        /\ stage[o] = "answered" => AckedByQuorum(o)
        /\ stage[o] = "appended" => InitHead < o
        /\ stage[o] = "advanced" => InitHead < o /\ o <= synced

IInv == TypeOK /\ OffsetInv /\ CursorInv /\ BitsInv /\ CommitInv /\ StageInv

-----------------------------------------------------------------------------
\* What one call of notifyCommitOffsetAdvanced does: the new commit offset is
\* the given one, and only requests for offsets up to it are answered.
LEMMA NotifyStep ==
    ASSUME TypeOK, NEW m \in Offset, NEW st \in [Offset -> Stages],
           notifyCommitOffsetAdvanced(m, st)
    PROVE  /\ commit' = m
           /\ waiting' \in Seq(Position) /\ db' \in Seq(Position)
           /\ stage' \in [Offset -> Stages]
           /\ \A o \in Offset : \/ stage'[o] = st[o]
                                \/ stage'[o] = "answered" /\ o <= m
  <1>1. PICK k \in 0 .. Len(waiting) :
           /\ \A i \in 1 .. k : waiting[i] <= m
           /\ commit' = m
           /\ waiting' = SubSeq(waiting, k + 1, Len(waiting))
           /\ LET first == IF k > 0 /\ waiting[1] = InitHead THEN 2 ELSE 1
              IN  /\ db' = db \o SubSeq(waiting, first, k)
                  /\ stage' = [o \in Offset |->
                        IF \E i \in first .. k : waiting[i] = o
                        THEN "answered" ELSE st[o]]
    BY Zenon DEF notifyCommitOffsetAdvanced
  <1> DEFINE first == IF k > 0 /\ waiting[1] = InitHead THEN 2 ELSE 1
  <1>2. /\ waiting \in Seq(Position) /\ db \in Seq(Position)
        /\ Len(waiting) \in Nat /\ k \in Nat /\ k <= Len(waiting)
        /\ \A i \in 1 .. Len(waiting) : waiting[i] \in Position
        /\ first \in {1, 2}
    BY DEF TypeOK
  <1>3. waiting' \in Seq(Position)
    <2>1. \A i \in k + 1 .. Len(waiting) : waiting[i] \in Position
      BY <1>2
    <2>2. k + 1 \in Int /\ Len(waiting) \in Int
      BY <1>2
    <2>3. SubSeq(waiting, k + 1, Len(waiting)) \in Seq(Position)
      BY <2>1, <2>2, SubSeqProperties, Zenon
    <2> QED BY <1>1, <2>3
  <1>4. SubSeq(waiting, first, k) \in Seq(Position)
    <2>1. \A i \in first .. k : waiting[i] \in Position
      BY <1>2
    <2>2. first \in Int /\ k \in Int
      BY <1>2
    <2> HIDE DEF first
    <2> QED BY <2>1, <2>2, SubSeqProperties, Zenon
  <1>5. db' \in Seq(Position)
    BY <1>1, <1>2, <1>4, ConcatProperties
  <1>6. /\ stage' \in [Offset -> Stages]
        /\ \A o \in Offset : \/ stage'[o] = st[o]
                             \/ stage'[o] = "answered" /\ o <= m
    BY <1>1, <1>2 DEF Stages
  <1> QED BY <1>1, <1>3, <1>5, <1>6

\* What followers store for good are positions in the log, now and after a step.
LEMMA MarkType == (TypeOK => mark \in [Cursor -> Position])
                    /\ (TypeOK' => mark' \in [Cursor -> Position])
  BY DEF mark, TypeOK, Position

\* A quorum that acknowledged an entry still has done so when positions and
\* the leader's WAL only grow.
LEMMA QuorumGrows ==
    ASSUME TypeOK, NEW o \in Int, AckedByQuorum(o),
           synced' \in Int, synced <= synced',
           mark' \in [Cursor -> Int], \A c \in Cursor : mark[c] <= mark'[c]
    PROVE  AckedByQuorum(o)'
  <1>1. PICK Q \in SUBSET Cursor : /\ Cardinality(Q) = requiredAcks
                                   /\ \A c \in Q : o <= mark[c]
    BY DEF AckedByQuorum
  <1>2. \A c \in Q : o <= mark'[c]
    BY <1>1, MarkType DEF Position
  <1>3. o <= synced'
    BY DEF AckedByQuorum, TypeOK, Position
  <1> QED BY <1>1, <1>2, <1>3, Zenon DEF AckedByQuorum

\* A quorum for an entry is a quorum for the entries before it.
LEMMA QuorumPrefix ==
    ASSUME TypeOK, NEW o \in Int, NEW p \in Int, p <= o, AckedByQuorum(o)
    PROVE  AckedByQuorum(p)
  <1>1. PICK Q \in SUBSET Cursor : /\ Cardinality(Q) = requiredAcks
                                   /\ \A c \in Q : o <= mark[c]
    BY DEF AckedByQuorum
  <1>2. \A c \in Q : p <= mark[c]
    BY <1>1, MarkType DEF Position
  <1>3. p <= synced
    BY DEF AckedByQuorum, TypeOK, Position
  <1> QED BY <1>1, <1>2, <1>3, Zenon DEF AckedByQuorum


\* What a batch of acknowledgements by cursor c does, when the position of c
\* reaches all of them: bits stay truthful, and a commit is a quorum.
LEMMA AckStep ==
    ASSUME IInv, NEW c \in Cursor, NEW S \in SUBSET Offset, ack(c, S),
           synced' = synced, mark' \in [Cursor -> Position],
           \A d \in Cursor : mark[d] <= mark'[d],
           \A o \in S : o <= mark'[c]
    PROVE  /\ tracked' \in SUBSET tracked
           /\ bits' \in [Offset -> SUBSET Cursor]
           /\ commit' \in Position
           /\ waiting' \in Seq(Position) /\ db' \in Seq(Position)
           /\ stage' \in [Offset -> Stages]
           /\ BitsInv' /\ CommitInv' /\ StageInv'
  <1> DEFINE hit == S \cap tracked
             marked == [o \in Offset |-> IF o \in hit THEN bits[o] \cup {c} ELSE bits[o]]
             full == {o \in hit : Cardinality(marked[o]) = requiredAcks}
  <1> USE DEF IInv
  <1>1. /\ tracked' = tracked \ full
        /\ bits' = [o \in Offset |-> IF o \in full THEN {} ELSE marked[o]]
        /\ IF full = {} THEN UNCHANGED <<commit, waiting, stage, db>>
           ELSE \E m \in full : notifyCommitOffsetAdvanced(m, stage)
    BY Zenon DEF ack
  <1>2. marked \in [Offset -> SUBSET Cursor]
    BY DEF TypeOK
  <1>3. \A o \in Offset : \A d \in marked[o] : o <= mark'[d]
    <2> SUFFICES ASSUME NEW o \in Offset, NEW d \in marked[o] PROVE o <= mark'[d]
      OBVIOUS
    <2>1. d \in Cursor /\ o \in Int /\ mark[d] \in Int /\ mark'[d] \in Int
      BY <1>2, MarkType DEF Position, Offset
    <2>2. (o \in S /\ d = c) \/ d \in bits[o]
      BY DEF TypeOK
    <2>3. d \in bits[o] => o <= mark[d]
      BY DEF BitsInv
    <2> QED BY <2>1, <2>2, <2>3
  <1>4. \A o \in Int : AckedByQuorum(o) => AckedByQuorum(o)'
    <2>1. /\ TypeOK /\ synced' \in Int /\ synced <= synced'
          /\ mark' \in [Cursor -> Int]
      BY DEF TypeOK, Position
    <2> QED BY <2>1, QuorumGrows, Zenon
  <1>5. \A o \in full : AckedByQuorum(o)'
    <2> TAKE o \in full
    <2>1. o <= synced'
      BY DEF OffsetInv, TypeOK, Position, Offset
    <2>2. /\ marked[o] \in SUBSET Cursor /\ Cardinality(marked[o]) = requiredAcks
          /\ \A d \in marked[o] : o <= mark'[d]
      BY <1>2, <1>3 DEF TypeOK
    <2> HIDE DEF marked, full
    <2> QED BY <2>1, <2>2, Zenon DEF AckedByQuorum
  <1>6. BitsInv' /\ bits' \in [Offset -> SUBSET Cursor] /\ tracked' \in SUBSET tracked
    <2> HIDE DEF marked, full
    <2> QED BY <1>1, <1>2, <1>3 DEF BitsInv
  <1>7. CASE full = {}
    <2>1. UNCHANGED <<commit, waiting, stage, db>>
      BY <1>1, <1>7
    <2>2. CommitInv'
      BY <2>1, <1>4 DEF CommitInv, TypeOK, Position
    <2>3. StageInv'
      BY <2>1, <1>4 DEF StageInv, TypeOK, Offset
    <2> QED BY <1>6, <2>1, <2>2, <2>3 DEF TypeOK
  <1>8. CASE full # {}
    <2>1. PICK m \in full : notifyCommitOffsetAdvanced(m, stage)
      BY <1>1, <1>8
    <2>2. m \in Offset /\ stage \in [Offset -> Stages] /\ TypeOK
      BY DEF TypeOK
    <2>3. /\ commit' = m
          /\ waiting' \in Seq(Position) /\ db' \in Seq(Position)
          /\ stage' \in [Offset -> Stages]
          /\ \A o \in Offset : \/ stage'[o] = stage[o]
                               \/ stage'[o] = "answered" /\ o <= m
      BY <2>1, <2>2, NotifyStep, Zenon
    <2>4. AckedByQuorum(m)'
      BY <1>5
    <2>5. CommitInv'
      BY <2>3, <2>4 DEF CommitInv
    <2>6. \A o \in Offset : o <= m => AckedByQuorum(o)'
      <3> SUFFICES ASSUME NEW o \in Offset, o <= m PROVE AckedByQuorum(o)'
        OBVIOUS
      <3>1. PICK Q \in SUBSET Cursor : /\ Cardinality(Q) = requiredAcks
                                       /\ \A d \in Q : m <= mark'[d]
        BY <2>4 DEF AckedByQuorum
      <3>2. (\A d \in Q : o <= mark'[d]) /\ o <= synced'
        BY <2>2, <2>4, <3>1 DEF AckedByQuorum, TypeOK, Offset, Position
      <3> QED BY <3>1, <3>2, Zenon DEF AckedByQuorum
    <2>7. StageInv'
      <3> SUFFICES ASSUME NEW o \in Offset
                   PROVE  /\ stage'[o] = "answered" => AckedByQuorum(o)'
                          /\ stage'[o] = "appended" => InitHead < o
                          /\ stage'[o] = "advanced" => InitHead < o /\ o <= synced'
        BY DEF StageInv
      <3>1. CASE stage'[o] = stage[o]
        BY <3>1, <1>4 DEF StageInv, Offset
      <3>2. CASE stage'[o] = "answered" /\ o <= m
        BY <3>2, <2>6
      <3> QED BY <2>3, <3>1, <3>2
    <2> QED BY <1>6, <2>2, <2>3, <2>5, <2>7 DEF Position, Offset
  <1> QED BY <1>7, <1>8

\* What applyAllEntriesIntoDB appends is a sequence of offsets.
LEMMA EntriesType ==
    /\ Entries(InitCommit + 1, InitHead) \in Seq(Position)
    /\ \A s \in Seq(Position) : s \o Entries(InitCommit + 1, InitHead) \in Seq(Position)
  <1>1. /\ InitHead - (InitCommit + 1) + 1 \in Nat
        /\ \A i \in 1 .. InitHead - (InitCommit + 1) + 1 :
               InitCommit + 1 + i - 1 \in Position
    BY DEF Position
  <1>2. Entries(InitCommit + 1, InitHead) \in Seq(Position)
    BY <1>1 DEF Entries
  <1> QED BY <1>2, ConcatProperties, Zenon

-----------------------------------------------------------------------------
\* The tracker as BecomeLeader creates it satisfies the inductive invariant.
LEMMA InitInv == Init => IInv
  <1> SUFFICES ASSUME Init PROVE IInv
    OBVIOUS
  <1> USE DEF Init, NewQuorumAckTracker
  <1>1. TypeOK
    <2>1. /\ again \in [Cursor -> SUBSET Offset] /\ bits \in [Offset -> SUBSET Cursor]
          /\ stage \in [Offset -> Stages] /\ unary \in SUBSET Offset
          /\ streaming \in SUBSET Cursor /\ db \in Seq(Position) /\ waiting \in Seq(Position)
      BY DEF Stages
    <2>2. /\ head \in Position /\ next \in Position /\ commit \in Position
          /\ synced \in Position /\ tracked \in SUBSET Offset
          /\ stored \in [Cursor -> Position] /\ acked \in [Cursor -> Position]
      BY DEF Position, Offset
    <2>3. cursors \in 0 .. RF - 1
      BY SMT
    <2>4. drops \in 0 .. MaxDrops
      BY SMT
    <2>5. closed \in BOOLEAN /\ phase \in {"attaching", "electing", "serving", "abandoned"}
      BY Zenon
    <2> QED BY <2>1, <2>2, <2>3, <2>4, <2>5, Zenon DEF TypeOK
  <1>2. OffsetInv /\ BitsInv /\ CommitInv
    BY DEF OffsetInv, BitsInv, CommitInv
  <1>3. CursorInv /\ StageInv
    BY DEF CursorInv, StageInv
  <1> QED BY <1>1, <1>2, <1>3 DEF IInv

\* A step that only moves a follower or its cursor, or the writers' WAL.
Quiet ==
    /\ UNCHANGED <<commit, bits>> /\ synced <= synced'
    /\ \A c \in Cursor : mark[c] <= mark'[c]
    /\ \A o \in Offset : \/ stage'[o] = stage[o]
                         \/ stage'[o] = "appended" /\ InitHead < o
                         \/ stage'[o] \in {"queued", "failed"}

\* The actions that do no more preserve the invariant.
LEMMA QuietStep ==
    ASSUME IInv, TypeOK', OffsetInv', CursorInv', Quiet
    PROVE  IInv'
  <1> USE DEF IInv, Quiet
  <1>1. \A o \in Int : AckedByQuorum(o) => AckedByQuorum(o)'
    <2>1. /\ TypeOK /\ synced' \in Int /\ mark' \in [Cursor -> Int]
      <3>1. mark' \in [Cursor -> Position] /\ synced' \in Position
        BY MarkType DEF TypeOK
      <3> QED BY <3>1 DEF Position
    <2> QED BY <2>1, QuorumGrows, Zenon
  <1>2. BitsInv'
    <2> SUFFICES ASSUME NEW o \in Offset, NEW c \in bits[o]
                 PROVE  o <= mark'[c]
      BY DEF BitsInv
    <2>1. c \in Cursor /\ o \in Int /\ mark[c] \in Int /\ mark'[c] \in Int
      <3>1. bits \in [Offset -> SUBSET Cursor] /\ mark \in [Cursor -> Position]
        BY MarkType DEF TypeOK
      <3>2. mark' \in [Cursor -> Position]
        BY MarkType
      <3>3. c \in Cursor
        BY <3>1
      <3> QED BY <3>1, <3>2, <3>3 DEF Position, Offset
    <2>2. o <= mark[c] /\ mark[c] <= mark'[c]
      BY <2>1 DEF BitsInv
    <2> QED BY <2>1, <2>2
  <1>3. CommitInv'
    <2>1. commit \in Int /\ commit' = commit
      BY DEF TypeOK, Position
    <2> QED BY <1>1, <2>1 DEF CommitInv
  <1>4. StageInv'
    <2> SUFFICES ASSUME NEW o \in Offset
                 PROVE  /\ stage'[o] = "answered" => AckedByQuorum(o)'
                        /\ stage'[o] = "appended" => InitHead < o
                        /\ stage'[o] = "advanced" => InitHead < o /\ o <= synced'
      BY DEF StageInv
    <2>1. CASE stage'[o] = stage[o]
      <3>1. synced \in Int /\ synced' \in Int /\ synced <= synced' /\ o \in Int
        BY DEF TypeOK, Position, Offset
      <3> QED BY <2>1, <3>1, <1>1 DEF StageInv
    <2> QED BY <2>1
  <1> QED BY <1>2, <1>3, <1>4
=============================================================================
