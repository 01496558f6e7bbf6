-------------------------- MODULE QuorumAckTracker --------------------------
(***************************************************************************)
(* The object in which a shard leader counts follower acknowledgements and  *)
(* decides which write is committed (server/quorum_ack_tracker.go), driven  *)
(* by everything that calls it: BecomeLeader and AddFollower, the unary and *)
(* the streaming write path of the leader controller, the WAL's sync        *)
(* routine, and the acknowledgements of the follower cursors.               *)
(*                                                                          *)
(* The tracker is created by BecomeLeader with the leader's head and commit *)
(* offset.  An action is one critical section of the tracker's mutex, or    *)
(* one step of a goroutine that uses it; between two of them any other      *)
(* goroutine may run.                                                       *)
(*                                                                          *)
(* A definition whose comment starts with "Fault:" is a wrong form of the   *)
(* one after it, which some property must tell from the right one.          *)
(***************************************************************************)
EXTENDS Integers, Sequences, FiniteSets

CONSTANTS
    RF,          \* replication factor
    InitHead,    \* head offset of the leader's WAL when it is elected
    InitCommit,  \* commit offset of its database at that moment
    MaxOffset,   \* bound: the last offset a write may get
    MaxDrops,    \* bound: how often a replication stream breaks
    Env          \* what the environment may do, a subset of EnvKinds

\* "unary":    clients also use the unary Write, one goroutine per request
\* "cancel":   the context of a unary write may end while it waits for Sync
\* "earlyAck": a follower may store an entry as soon as the leader's WAL has
\*             synced it, before the writer has called AdvanceHeadOffset
\* "timeout":  BecomeLeader may give up waiting for the commit of the head
EnvKinds == {"unary", "cancel", "earlyAck", "timeout"}

ASSUME RFAssumption == RF \in Nat \ {0}
ASSUME OffsetAssumption ==
    /\ InitHead \in Int /\ InitCommit \in Int /\ MaxOffset \in Nat
    /\ -1 <= InitCommit /\ InitCommit <= InitHead /\ InitHead <= MaxOffset
ASSUME EnvAssumption == MaxDrops \in Nat /\ Env \subseteq EnvKinds

requiredAcks == RF \div 2
Offset == 0 .. MaxOffset
Position == -1 .. MaxOffset
Cursor == 0 .. RF - 2
Stages == {"none", "appended", "advanced", "queued", "answered", "failed"}

VARIABLES
    head, next, commit, \* headOffset, nextOffset, commitOffset
    tracked,            \* the keys of the map `tracker`
    bits,               \* the BitSet of each key: the cursors that acked it
    cursors,            \* cursorIdxGenerator
    waiting,            \* waitingRequests, by their minOffset
    closed,
    synced,             \* LastOffset() of the leader's WAL
    stage, unary,       \* progress of each write, and which ones are unary
    phase,              \* what BecomeLeader has reached
    db,                 \* entries applied to the database since the election
    stored,             \* how far each cursor's follower has the leader's log in
                        \* its WAL or, by a snapshot, the leader's database
    acked,              \* ackOffset: the last acknowledgement at the cursor
    again,              \* entries sent again, whose acknowledgement is to come
    streaming, drops    \* open replication streams, and how many broke

trackerVars == <<head, next, commit, tracked, bits, cursors, waiting, closed>>
writerVars == <<synced, stage, unary, phase, db>>
followerVars == <<stored, acked, again, streaming, drops>>
vars == <<trackerVars, writerVars, followerVars>>

\* The entries lo .. hi, in log order.
Entries(lo, hi) == [i \in 1 .. hi - lo + 1 |-> lo + i - 1]

NewQuorumAckTracker ==
    /\ head = InitHead /\ next = InitHead /\ commit = InitCommit
    /\ tracked = InitCommit + 1 .. InitHead
    /\ bits = [o \in Offset |-> {}]
    /\ cursors = 0 /\ waiting = <<>> /\ closed = FALSE

Init ==
    /\ NewQuorumAckTracker
    /\ synced = InitHead
    /\ stage = [o \in Offset |-> "none"] /\ unary = {}
    /\ phase = "attaching" /\ db = <<>>
    /\ stored = [c \in Cursor |-> -1] /\ acked = [c \in Cursor |-> -1]
    /\ again = [c \in Cursor |-> {}]
    /\ streaming = {} /\ drops = 0

-----------------------------------------------------------------------------
(* The tracker's own operations *)

\* Fault: every waiting request is popped, whatever offset it waits for.
notifyEveryWaiter(m, st) ==
    /\ commit' = m
    /\ waiting' = <<>>
    /\ LET first == IF waiting # <<>> /\ waiting[1] = InitHead THEN 2 ELSE 1
       IN  /\ db' = db \o SubSeq(waiting, first, Len(waiting))
           /\ stage' = [o \in Offset |->
                  IF \E i \in first .. Len(waiting) : waiting[i] = o
                  THEN "answered" ELSE st[o]]

\* Stores the new commit offset and pops the waiting requests, in arrival
\* order, up to the first one that asks for more.  The callback of a write
\* applies it to the database and answers the client; the callback of
\* BecomeLeader, whose request for InitHead can only be the oldest, does nothing.
notifyCommitOffsetAdvanced(m, st) ==
    \E k \in 0 .. Len(waiting) :
        /\ \A i \in 1 .. k : waiting[i] <= m
        /\ k < Len(waiting) => waiting[k + 1] > m
        /\ commit' = m
        /\ waiting' = SubSeq(waiting, k + 1, Len(waiting))
        /\ LET first == IF k > 0 /\ waiting[1] = InitHead THEN 2 ELSE 1
           IN  /\ db' = db \o SubSeq(waiting, first, k)
               /\ stage' = [o \in Offset |->
                      IF \E i \in first .. k : waiting[i] = o
                      THEN "answered" ELSE st[o]]

\* Fault: the entry needs one acknowledgement more than a majority.
ackOneMore(c, S) ==
    LET hit == S \cap tracked
        marked == [o \in Offset |-> IF o \in hit THEN bits[o] \cup {c} ELSE bits[o]]
        full == {o \in hit : Cardinality(marked[o]) > requiredAcks}
    IN  /\ tracked' = tracked \ full
        /\ bits' = marked
        /\ IF full = {} THEN UNCHANGED <<commit, waiting, stage, db>>
           ELSE \E m \in full : /\ \A o \in full : o <= m
                                /\ notifyCommitOffsetAdvanced(m, stage)

\* ack(c, o) for every o of S, in ascending order.  An offset that is not in
\* the map is ignored.
ack(c, S) ==
    LET hit == S \cap tracked
        marked == [o \in Offset |-> IF o \in hit THEN bits[o] \cup {c} ELSE bits[o]]
        full == {o \in hit : Cardinality(marked[o]) = requiredAcks}
    IN  /\ tracked' = tracked \ full
        /\ bits' = [o \in Offset |-> IF o \in full THEN {} ELSE marked[o]]
        /\ IF full = {} THEN UNCHANGED <<commit, waiting, stage, db>>
           ELSE \E m \in full : /\ \A o \in full : o <= m
                                /\ notifyCommitOffsetAdvanced(m, stage)

\* Fault: the entry that is already committed is tracked again.
AdvanceHeadOffsetFromCommit(o, st) ==
    /\ head' = o
    /\ tracked' = tracked \cup (Offset \cap commit .. o)
    /\ bits' = [bits EXCEPT ![o] = {}]
    /\ stage' = st
    /\ UNCHANGED <<commit, waiting, db>>

AdvanceHeadOffset(o, st) ==
    IF o <= head
    THEN /\ stage' = st
         /\ UNCHANGED <<head, commit, tracked, bits, waiting, db>>
    ELSE /\ head' = o
         /\ IF requiredAcks = 0
            THEN notifyCommitOffsetAdvanced(o, st) /\ UNCHANGED <<tracked, bits>>
            ELSE /\ tracked' = tracked \cup {o}
                 /\ bits' = [bits EXCEPT ![o] = {}]
                 /\ stage' = st
                 /\ UNCHANGED <<commit, waiting, db>>

\* NewTerm, and the closing of the leader controller.  Waiting requests are
\* neither answered nor failed.
Close ==
    /\ phase \in {"serving", "abandoned"} /\ ~closed
    /\ closed' = TRUE
    /\ UNCHANGED <<head, next, commit, tracked, bits, cursors, waiting,
                   writerVars, followerVars>>

-----------------------------------------------------------------------------
(* BecomeLeader and AddFollower *)

\* Fault: the cursor is taken to have all of the leader's log.
NewCursorAckerAtHead(a) ==
    /\ phase \in {"attaching", "serving", "abandoned"} /\ ~closed
    /\ cursors < RF - 1
    /\ a <= head
    /\ ack(cursors, {o \in Offset : commit < o /\ o <= head})
    /\ cursors' = cursors + 1
    /\ stored' = [stored EXCEPT ![cursors] = a]
    /\ acked' = [acked EXCEPT ![cursors] = a]
    /\ UNCHANGED <<head, next, closed, synced, unary, phase, again, streaming, drops>>

\* Fault: one cursor more than the ensemble has followers.
NewCursorAckerUnlimited(a) ==
    /\ phase \in {"attaching", "serving", "abandoned"} /\ ~closed
    /\ cursors <= RF - 1
    /\ a <= head
    /\ ack(cursors, {o \in Offset : commit < o /\ o <= a})
    /\ cursors' = cursors + 1
    /\ UNCHANGED <<head, next, closed, synced, unary, phase, followerVars>>

\* NewFollowerCursor: the follower's log agrees with the leader's up to a.
\* BecomeLeader and AddFollower both run under the leader controller's mutex.
NewCursorAcker(a) ==
    /\ phase \in {"attaching", "serving", "abandoned"} /\ ~closed
    /\ cursors < RF - 1
    /\ a <= head
    /\ ack(cursors, {o \in Offset : commit < o /\ o <= a})
    /\ cursors' = cursors + 1
    /\ stored' = [stored EXCEPT ![cursors] = a]
    /\ acked' = [acked EXCEPT ![cursors] = a]
    /\ UNCHANGED <<head, next, closed, synced, unary, phase, again, streaming, drops>>

\* Fault: the entries of the election are not applied.
ServeAtOnce == phase' = "serving" /\ UNCHANGED db

\* applyAllEntriesIntoDB
Serve ==
    /\ phase' = "serving"
    /\ db' = db \o Entries(InitCommit + 1, InitHead)

\* The followers of the election's majority are attached, and BecomeLeader
\* calls WaitForCommitOffset(InitHead), still holding the mutex.
AwaitElectionCommit ==
    /\ phase = "attaching" /\ cursors >= requiredAcks
    /\ IF requiredAcks = 0 \/ commit >= InitHead
       THEN Serve /\ UNCHANGED waiting
       ELSE /\ waiting' = Append(waiting, InitHead)
            /\ phase' = "electing" /\ UNCHANGED db
    /\ UNCHANGED <<head, next, commit, tracked, bits, cursors, closed,
                   synced, stage, unary, followerVars>>

ElectionCommitted ==
    /\ phase = "electing" /\ waiting = <<>>
    /\ Serve
    /\ UNCHANGED <<trackerVars, synced, stage, unary, followerVars>>

\* The request's context ends: BecomeLeader returns an error and leaves the
\* status LEADER and its waiting request behind.
AbandonElection ==
    /\ "timeout" \in Env
    /\ phase = "electing" /\ waiting # <<>>
    /\ phase' = "abandoned"
    /\ UNCHANGED <<trackerVars, synced, stage, unary, db, followerVars>>

-----------------------------------------------------------------------------
(* The write path: appendToWal and appendToWalStreamRequest *)

\* NextOffset and AppendAsync, under the leader controller's mutex.
AppendWrite(isUnary) ==
    /\ phase \in {"serving", "abandoned"} /\ ~closed
    /\ next < MaxOffset
    /\ isUnary => "unary" \in Env
    /\ next' = next + 1
    /\ stage' = [stage EXCEPT ![next + 1] = "appended"]
    /\ unary' = IF isUnary THEN unary \cup {next + 1} ELSE unary
    /\ UNCHANGED <<head, commit, tracked, bits, cursors, waiting, closed,
                   synced, phase, db, followerVars>>

\* One round of the WAL's sync routine.
SyncWal ==
    /\ synced < next
    /\ synced' = next
    /\ UNCHANGED <<trackerVars, stage, unary, phase, db, followerVars>>

\* A unary write returns from Sync with its context's error.
CancelSync(o) ==
    /\ "cancel" \in Env
    /\ stage[o] = "appended" /\ o \in unary
    /\ stage' = [stage EXCEPT ![o] = "failed"]
    /\ UNCHANGED <<trackerVars, synced, unary, phase, db, followerVars>>

\* The sync callback of a streamed write runs in the sync routine, after those
\* of the streamed writes before it; a unary write has its own goroutine.
Runnable(o) ==
    o \notin unary => \A p \in InitHead + 1 .. o - 1 :
                         p \in unary \/ stage[p] \notin {"appended", "advanced"}

WriterAdvancesHead(o) ==
    /\ stage[o] = "appended" /\ o <= synced /\ Runnable(o)
    /\ AdvanceHeadOffset(o, [stage EXCEPT ![o] = "advanced"])
    /\ UNCHANGED <<next, cursors, closed, synced, unary, phase, followerVars>>

\* Fault: the commit offset is not looked at again before the request queues.
WaitWithoutRecheck(o) ==
    /\ stage[o] = "advanced" /\ ~closed
    /\ stage' = [stage EXCEPT ![o] = "queued"]
    /\ waiting' = Append(waiting, o)
    /\ UNCHANGED <<head, next, commit, tracked, bits, cursors, closed,
                   synced, unary, phase, db, followerVars>>

WaitForCommitOffsetAsync(o) ==
    /\ stage[o] = "advanced"
    /\ \/ /\ closed
          /\ stage' = [stage EXCEPT ![o] = "failed"]
          /\ UNCHANGED <<waiting, db>>
       \/ /\ ~closed /\ (requiredAcks = 0 \/ commit >= o)
          /\ stage' = [stage EXCEPT ![o] = "answered"]
          /\ db' = Append(db, o)
          /\ UNCHANGED waiting
       \/ /\ ~closed /\ requiredAcks # 0 /\ commit < o
          /\ stage' = [stage EXCEPT ![o] = "queued"]
          /\ waiting' = Append(waiting, o)
          /\ UNCHANGED db
    /\ UNCHANGED <<head, next, commit, tracked, bits, cursors, closed,
                   synced, unary, phase, followerVars>>

-----------------------------------------------------------------------------
(* The follower cursors *)

Attached == 0 .. cursors - 1

\* shouldSendSnapshot, for a leader that still has all of its log
NeedsSnapshot(c) == acked[c] = -1 /\ commit >= 0

\* streamEntries: the reader is positioned after the last acknowledgement, and
\* what the follower already has of the rest it acknowledges as duplicates.
OpenStream(c) ==
    /\ c \in Attached \ streaming /\ ~NeedsSnapshot(c)
    /\ streaming' = streaming \cup {c}
    /\ again' = [again EXCEPT ![c] = {o \in Offset : acked[c] < o /\ o <= stored[c]}]
    /\ UNCHANGED <<trackerVars, writerVars, stored, acked, drops>>

\* sendSnapshot: the follower takes over the leader's database as it is, with an
\* entry missing if the write was cancelled after its append, and the cursor
\* takes over its commit offset; the tracker is not told.
SendSnapshot(c) ==
    /\ c \in Attached \ streaming /\ NeedsSnapshot(c)
    /\ LET last == IF db = <<>> THEN InitCommit ELSE db[Len(db)]
       IN  /\ stored' = [stored EXCEPT ![c] = last]
           /\ acked' = [acked EXCEPT ![c] = last]
    /\ streaming' = streaming \cup {c}
    /\ UNCHANGED <<trackerVars, writerVars, again, drops>>

\* The follower receives the next entry and syncs it.
Replicate(c) ==
    /\ c \in streaming
    /\ stored[c] < (IF "earlyAck" \in Env THEN synced ELSE head)
    /\ stored' = [stored EXCEPT ![c] = @ + 1]
    /\ UNCHANGED <<trackerVars, writerVars, acked, again, streaming, drops>>

\* receiveAcks: what the follower's sync routine acknowledges arrives in order.
\* An entry is appended only after the ones sent again were acknowledged.
Ack(c) ==
    /\ c \in streaming /\ acked[c] < stored[c]
    /\ again[c] = {} \/ \E o \in again[c] : acked[c] < o
    /\ ack(c, {acked[c] + 1})
    /\ acked' = [acked EXCEPT ![c] = @ + 1]
    /\ UNCHANGED <<head, next, cursors, closed, synced, unary, phase,
                   stored, again, streaming, drops>>

\* receiveAcks of an entry that was sent again.  The sync routine of the follower
\* may have acknowledged it and later ones before: then the cursor goes back.
AckAgain(c, o) ==
    /\ c \in streaming
    /\ o \in again[c] /\ \A p \in again[c] : o <= p
    /\ ack(c, {o})
    /\ acked' = [acked EXCEPT ![c] = o]
    /\ again' = [again EXCEPT ![c] = @ \ {o}]
    /\ UNCHANGED <<head, next, cursors, closed, synced, unary, phase, stored, streaming, drops>>

\* The stream breaks; acknowledgements on their way are sent again later.
Disconnect(c) ==
    /\ c \in streaming /\ drops < MaxDrops
    /\ streaming' = streaming \ {c} /\ drops' = drops + 1
    /\ again' = [again EXCEPT ![c] = {}]
    /\ UNCHANGED <<trackerVars, writerVars, stored, acked>>

-----------------------------------------------------------------------------
Next ==
    \/ \E a \in -1 .. InitHead : NewCursorAcker(a)
    \/ AwaitElectionCommit
    \/ ElectionCommitted
    \/ AbandonElection
    \/ \E isUnary \in BOOLEAN : AppendWrite(isUnary)
    \/ SyncWal
    \/ \E o \in Offset : CancelSync(o)
    \/ \E o \in Offset : WriterAdvancesHead(o)
    \/ \E o \in Offset : WaitForCommitOffsetAsync(o)
    \/ \E c \in Cursor : OpenStream(c)
    \/ \E c \in Cursor : SendSnapshot(c)
    \/ \E c \in Cursor : Replicate(c)
    \/ \E c \in Cursor : Ack(c)
    \/ \E c \in Cursor, o \in Offset : AckAgain(c, o)
    \/ \E c \in Cursor : Disconnect(c)
    \/ Close

Spec == Init /\ [][Next]_vars

\* Goroutines that can run do run, streams are reopened, and a connected
\* follower stores and acknowledges what it is sent.  Nothing is assumed of
\* the clients, the coordinator or broken streams.
Fairness ==
    /\ WF_vars(SyncWal)
    /\ \A o \in Offset : /\ WF_vars(WriterAdvancesHead(o))
                         /\ WF_vars(WaitForCommitOffsetAsync(o))
    /\ \A c \in Cursor : /\ WF_vars(OpenStream(c))
                         /\ WF_vars(SendSnapshot(c))
                         /\ WF_vars(Replicate(c))
                         /\ WF_vars(Ack(c))
                         /\ WF_vars(\E o \in Offset : AckAgain(c, o))

FairSpec == Spec /\ Fairness

-----------------------------------------------------------------------------
(* Properties *)

TypeOK ==
    /\ head \in Position /\ next \in Position /\ commit \in Position
    /\ tracked \in SUBSET Offset
    /\ bits \in [Offset -> SUBSET Cursor]
    /\ cursors \in 0 .. RF - 1
    /\ waiting \in Seq(Position)
    /\ closed \in BOOLEAN
    /\ synced \in Position
    /\ stage \in [Offset -> Stages] /\ unary \in SUBSET Offset
    /\ phase \in {"attaching", "electing", "serving", "abandoned"}
    /\ db \in Seq(Position)
    /\ stored \in [Cursor -> Position] /\ acked \in [Cursor -> Position]
    /\ again \in [Cursor -> SUBSET Offset]
    /\ streaming \in SUBSET Cursor /\ drops \in 0 .. MaxDrops

\* Enough followers to make a majority with the leader hold every entry up to o,
\* or what the leader's database has made of it.
OnQuorum(o) ==
    /\ o <= synced
    /\ \E Q \in SUBSET Cursor : /\ Cardinality(Q) = requiredAcks
                               /\ \A c \in Q : o <= stored[c]

\* The commit offset is never ahead of what a majority of the ensemble has on
\* disk, whatever the order in which writers, acknowledgements, new cursors,
\* snapshots and reconnections reach the tracker.
CommitOnQuorum == commit > InitCommit => OnQuorum(commit)

\* A client is told that its write succeeded only when a majority has it.
AnsweredOnQuorum == \A o \in Offset : stage[o] = "answered" => OnQuorum(o)

\* The acknowledgements that reached the leader are never forgotten: once
\* enough cursors have acknowledged an entry, it is committed.
CommitKeepsUp ==
    \A o \in Offset :
        (/\ o <= head
         /\ Cardinality({c \in Attached : o <= acked[c]}) >= requiredAcks)
        => o <= commit

\* The leader's database gets every entry of the log, in log order and once.
DbFollowsLog == db = Entries(InitCommit + 1, InitCommit + Len(db))

\* notifyCommitOffsetAdvanced only ever moves the commit offset forward.
CommitAdvances == [][commit <= commit']_vars

\* A write that is in the leader's WAL is eventually answered, or failed
\* because the leader was fenced.
WritesAnswered ==
    \A o \in Offset :
        stage[o] = "appended" ~> closed \/ stage[o] \in {"answered", "failed"}
=============================================================================
