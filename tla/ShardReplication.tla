--------------------------- MODULE ShardReplication ---------------------------
(***************************************************************************)
(* One shard: the coordinator's shard controller, which elects leaders      *)
(* (coordinator/impl/shard_controller.go), and on every storage node the    *)
(* shards director, the leader or follower controller, the follower cursors *)
(* of a leader, the write-ahead log and the database (server/).             *)
(*                                                                          *)
(* Offsets are counted from 1, so that 0 stands for wal.InvalidOffset; term *)
(* -1 is wal.InvalidTerm.  Requests of the coordinator may be late: a       *)
(* NewTerm of any term up to the current one and a BecomeLeader of an older *)
(* election may still arrive.  An action is a critical section of a         *)
(* controller's mutex.  Clients use the write stream, and the               *)
(* acknowledgement tracker is taken at its word (module QuorumAckTracker):  *)
(* the commit offset is the highest one that enough cursors acknowledged.   *)
(*                                                                          *)
(* A definition whose comment starts with "Fault:" is a wrong form of the   *)
(* one after it, which some property must tell from the right one.          *)
(***************************************************************************)
EXTENDS Integers, Sequences, FiniteSets

CONSTANTS
    Node,       \* the ensemble of the shard
    None,       \* nil
    MaxTerm,    \* bound: the last term of the coordinator
    MaxWrites,  \* bound: how many writes clients send
    MaxCrash,   \* bound: how often a node crashes
    Env         \* what the environment may do, a subset of EnvKinds

\* "majority":  an election may proceed without the answer of every node
\* "late":      requests of an older term may arrive, and answers get lost
\* "break":     a replication stream may break
\* "unsynced":  NewTerm, or the loss of a stream, may find entries that a node
\*              has appended to its WAL and not yet synced
\* "giveUp":    BecomeLeader may time out, and clients may write to the leader
\*              that a failed BecomeLeader leaves behind
\* "badSnapshot": a snapshot may break off, or come from the leader of an
\*              older term
EnvKinds == {"majority", "late", "break", "unsynced", "giveUp", "badSnapshot"}

ASSUME NodeAssumption == IsFiniteSet(Node) /\ Cardinality(Node) > 1
ASSUME BoundAssumption ==
    MaxTerm \in Nat /\ MaxWrites \in Nat /\ MaxCrash \in Nat /\ Env \subseteq EnvKinds

requiredAcks == Cardinality(Node) \div 2

Term == -1 .. MaxTerm
Entry == [off : Nat \ {0}, term : Term, val : 1 .. MaxWrites]
EntryId == [term : Term, off : Nat]
InvalidEntryId == [term |-> -1, off |-> 0]

VARIABLES
    term,     \* the node's term, also persisted in its database
    status,   \* ServingStatus of its controller
    role,     \* which controller the shards director holds, or "hung" when a
              \* follower controller never gives its mutex back
    log,      \* the entries in its WAL
    synced,   \* LastOffset() of the WAL
    db,       \* the entries applied to its database, in order
    flushed,  \* how many of them the database has on disk
    wiped,    \* the nodes whose database a failed snapshot has removed
    lastApp,  \* lastAppendedOffset of a follower controller
    adv,      \* advertisedCommitOffset of a follower controller
    applied,  \* commitOffset of a follower controller, None when it has stopped applying
    conn,     \* the leader whose stream a follower controller serves
    lead,     \* what a leader controller sets up in BecomeLeader
    cterm, phase, resp, leader, \* the coordinator
    becoming, \* BecomeLeader requests on their way
    chosen,   \* history: the node selected in each term
    written,  \* history: every entry a leader has appended for a client
    answered, \* history: the entries whose client was told of success
    crashes

nodeVars ==
    <<term, status, role, log, synced, db, flushed, wiped, lastApp, adv, applied, conn, lead>>
coordVars == <<cterm, phase, resp, leader, becoming, chosen>>
histVars == <<written, answered, crashes>>
vars == <<nodeVars, coordVars, histVars>>

-----------------------------------------------------------------------------
(* The WAL and the database of a node *)

LastOff(s) == IF s = <<>> THEN 0 ELSE s[Len(s)].off
Last(n) == LastOff(log[n])
DbCommit(n) == LastOff(db[n])

\* The entry at offset o, which the WAL of n holds.
At(n, o) == log[n][o - log[n][1].off + 1]

InWal(n, o) == log[n] # <<>> /\ log[n][1].off <= o /\ o <= Last(n)

\* The entries of s up to offset o, and those that follow.
Count(s, o) == Cardinality({i \in DOMAIN s : s[i].off <= o})
UpTo(s, o) == SubSeq(s, 1, Count(s, o))
After(s, o) == SubSeq(s, Count(s, o) + 1, Len(s))

\* getLastEntryIdInWal: the last entry that is synced
HeadEntry(n) ==
    IF InWal(n, synced[n]) THEN [term |-> At(n, synced[n]).term, off |-> synced[n]]
    ELSE InvalidEntryId

\* getHighestEntryOfTerm: the last synced entry of a term up to t
HighestEntryOfTerm(n, t) ==
    LET I == {i \in DOMAIN log[n] : log[n][i].off <= synced[n] /\ log[n][i].term <= t}
    IN  IF I = {} THEN InvalidEntryId
        ELSE LET m == CHOOSE m \in I : \A i \in I : i <= m
             IN  [term |-> log[n][m].term, off |-> log[n][m].off]

-----------------------------------------------------------------------------
(* Leaders and their cursors *)

Cursor == [ack : Nat, sent : Nat, pos : Nat]
ASSUME NoneAssumption == None \notin Node /\ None \notin EntryId /\ None \notin Cursor

NoLead == [phase |-> "none", el |-> InvalidEntryId, commit |-> 0, next |-> 0, done |-> 0,
           todo |-> [f \in Node |-> None], cur |-> [f \in Node |-> None]]
LeadPhase == {"none", "attaching", "waiting", "serving", "failed"}
Lead == [phase : LeadPhase, el : EntryId, commit : Nat, next : Nat, done : Nat,
         todo : [Node -> EntryId \cup {None}], cur : [Node -> Cursor \cup {None}]]

\* Fault: the stream starts at the last acknowledged entry, not after it.
NewCursorOneBack(a) == [ack |-> a, sent |-> a, pos |-> a - 1]

\* A cursor at offset a that has no stream.
NewCursor(a) == [ack |-> a, sent |-> a, pos |-> a]

\* A cursor that lost its stream starts again from the last acknowledgement.
Rewind(l, c) ==
    [f \in Node |->
        IF lead[l].cur[f] # None /\ c[f] # l THEN NewCursor(lead[l].cur[f].ack)
        ELSE lead[l].cur[f]]

Cut(c) == /\ conn' = c
          /\ lead' = [l \in Node |-> [lead[l] EXCEPT !.cur = Rewind(l, c)]]

\* The streams left when the controller of n closes.
Without(n) == [f \in Node |-> IF f = n \/ conn[f] = n THEN None ELSE conn[f]]

\* The same, when n also gives up leading.
CutOff(n) == /\ conn' = Without(n)
             /\ lead' = [l \in Node |->
                    IF l = n THEN NoLead
                    ELSE [lead[l] EXCEPT !.cur = Rewind(l, Without(n))]]

\* The commit offset c that cursors cur bring to leader l.  One that is ahead of
\* the log, as a leader restored from a snapshot has it, stays until the log has
\* caught up.
Commits(l, cur, c) ==
    LET Reached(o) == /\ o <= synced[l]
                      /\ Cardinality({f \in Node : cur[f] # None /\ cur[f].ack >= o})
                            >= requiredAcks
    IN  /\ c = lead[l].commit \/ (c > lead[l].commit /\ Reached(c))
        /\ \A o \in c + 1 .. synced[l] : ~Reached(o)

\* The writes that no longer wait when leader l has synced its WAL up to offset
\* s and the commit offset is c.  Entries from before the election have no
\* client that waits for them.
Ready(l, s, c) == After(UpTo(log[l], IF c < s THEN c ELSE s), lead[l].done)

\* Their callbacks apply them to the database and answer the clients.
Answer(l, ready) ==
    /\ db' = [db EXCEPT ![l] = @ \o ready]
    /\ answered' = answered \cup {ready[i] : i \in DOMAIN ready}

DoneAfter(l, ready) == IF ready = <<>> THEN lead[l].done ELSE LastOff(ready)

\* With the new cursors the commit offset may advance.
Advance(l, cur, ph, todo) ==
    \E c \in 0 .. MaxWrites :
        LET ready == Ready(l, synced[l], c)
        IN  /\ Commits(l, cur, c)
            /\ Answer(l, ready)
            /\ lead' = [lead EXCEPT ![l].cur = cur, ![l].commit = c, ![l].phase = ph,
                                    ![l].todo = todo, ![l].done = DoneAfter(l, ready)]

-----------------------------------------------------------------------------
Init ==
    /\ term = [n \in Node |-> -1]
    /\ status = [n \in Node |-> "NOT_MEMBER"]
    /\ role = [n \in Node |-> "none"]
    /\ log = [n \in Node |-> <<>>]
    /\ synced = [n \in Node |-> 0]
    /\ db = [n \in Node |-> <<>>]
    /\ flushed = [n \in Node |-> 0]
    /\ wiped = {}
    /\ lastApp = [n \in Node |-> 0]
    /\ adv = [n \in Node |-> 0]
    /\ applied = [n \in Node |-> 0]
    /\ conn = [n \in Node |-> None]
    /\ lead = [n \in Node |-> NoLead]
    /\ cterm = -1 /\ phase = "idle" /\ leader = None
    /\ resp = [n \in Node |-> None]
    /\ becoming = {}
    /\ chosen = [t \in 0 .. MaxTerm |-> None]
    /\ written = {} /\ answered = {} /\ crashes = 0

(* The coordinator *)

\* Fault: a failed election is tried again in the same term.
ElectLeaderAgain ==
    /\ cterm < MaxTerm
    /\ cterm' = IF phase = "becoming" THEN cterm ELSE cterm + 1
    /\ phase' = "fencing"
    /\ leader' = None
    /\ resp' = [n \in Node |-> None]
    /\ UNCHANGED <<nodeVars, becoming, chosen, histVars>>

\* electLeader: the leader failed, the previous attempt failed or the
\* coordinator restarted; the new term is stored before it is used.
ElectLeader ==
    /\ cterm < MaxTerm
    /\ cterm' = cterm + 1
    /\ phase' = "fencing"
    /\ leader' = None
    /\ resp' = [n \in Node |-> None]
    /\ UNCHANGED <<nodeVars, becoming, chosen, histVars>>

\* Fault: any node that answered may lead.
SelectAnyLeader(n) ==
    LET fenced == {m \in Node : resp[m] # None}
    IN  /\ phase = "fencing"
        /\ 2 * Cardinality(fenced) > Cardinality(Node)
        /\ n \in fenced
        /\ phase' = "becoming"
        /\ leader' = n
        /\ chosen' = [chosen EXCEPT ![cterm] = n]
        /\ becoming' = becoming \cup
              {[term |-> cterm, node |-> n, followers |-> [resp EXCEPT ![n] = None]]}
        /\ UNCHANGED <<nodeVars, cterm, resp, histVars>>

\* newTermQuorum waits for the answers of a majority, and a grace period longer
\* for those of the others.
NewTermQuorum(fenced) ==
    IF "majority" \in Env THEN 2 * Cardinality(fenced) > Cardinality(Node)
    ELSE fenced = Node

BecomeLeaderRequest(n) ==
    [term |-> cterm, node |-> n, followers |-> [resp EXCEPT ![n] = None]]

\* selectNewLeader picks a node with the highest offset among those that
\* answered; BecomeLeader goes out with the answers of the others.
SelectNewLeader(n) ==
    LET fenced == {m \in Node : resp[m] # None}
    IN  /\ phase = "fencing"
        /\ NewTermQuorum(fenced)
        /\ n \in fenced
        /\ \A m \in fenced : resp[m].off <= resp[n].off
        /\ phase' = "becoming"
        /\ leader' = n
        /\ chosen' = [chosen EXCEPT ![cterm] = n]
        /\ becoming' = becoming \cup {BecomeLeaderRequest(n)}
        /\ UNCHANGED <<nodeVars, cterm, resp, histVars>>

\* The answer of BecomeLeader: the election is over, and the answers of the
\* nodes that were not part of it are dropped.
LeaderElected ==
    /\ phase = "becoming"
    /\ lead[leader].phase = "serving" /\ term[leader] = cterm
    /\ phase' = "steady"
    /\ UNCHANGED <<nodeVars, cterm, resp, leader, becoming, chosen, histVars>>

(* Fencing *)

\* The mutex of the leader controller is free: BecomeLeader holds it until it
\* returns, and AddFollower while it attaches the follower.
MutexFree(l) == lead[l].phase \notin {"attaching", "waiting"} /\ lead[l].todo = NoLead.todo

\* NewTerm of the leader and of the follower controller.  A node without a
\* controller opens one as leader.  The answer counts if the coordinator still
\* waits for it.
NewTerm(n, t, heard) ==
    /\ role[n] # "hung" /\ MutexFree(n)
    /\ t > term[n] \/ (t = term[n] /\ (status[n] = "FENCED" \/ role[n] = "none"))
    /\ "unsynced" \in Env \/ synced[n] = Last(n)
    /\ term' = [term EXCEPT ![n] = t]
    /\ status' = [status EXCEPT ![n] = "FENCED"]
    /\ role' = [role EXCEPT ![n] = IF @ = "none" THEN "leader" ELSE @]
    /\ flushed' = [flushed EXCEPT ![n] = Len(db[n])]
    /\ wiped' = wiped \ {n}
    /\ CutOff(n)
    /\ heard \/ "late" \in Env
    /\ heard => t = cterm /\ phase \in {"fencing", "steady"} /\ resp[n] = None
    /\ resp' = IF heard THEN [resp EXCEPT ![n] = HeadEntry(n)] ELSE resp
    /\ UNCHANGED <<log, synced, db, lastApp, adv, applied, cterm, phase, leader, becoming, chosen,
                   histVars>>

(* The shards director opens and closes controllers *)

\* A controller of kind r for node n in place of the one it has.  It reads the
\* term from the database, and takes all that the WAL holds as synced.
Reopened(n, r) ==
    LET t == IF n \in wiped THEN -1 ELSE term[n]
    IN  /\ role' = [role EXCEPT ![n] = r]
        /\ term' = [term EXCEPT ![n] = t]
        /\ status' = [status EXCEPT ![n] = IF t = -1 THEN "NOT_MEMBER" ELSE "FENCED"]
        /\ wiped' = wiped \ {n}
        /\ synced' = [synced EXCEPT ![n] = Last(n)]
        /\ lastApp' = [lastApp EXCEPT ![n] = IF log[n] = <<>> THEN DbCommit(n) ELSE Last(n)]
        /\ adv' = [adv EXCEPT ![n] = 0]
        /\ applied' = [applied EXCEPT ![n] = DbCommit(n)]

\* GetOrCreateFollower, for a Truncate, Replicate or SendSnapshot of leader l in
\* its term: a leader controller of another term stays.
GetOrCreateFollower(l, f) ==
    /\ l # f
    /\ lead[l].cur[f] # None \/ lead[l].todo[f] # None
    /\ role[f] = "none" \/ (role[f] = "leader" /\ term[f] = term[l])
    /\ Reopened(f, "follower")
    /\ UNCHANGED <<log, db, flushed, conn, lead, coordVars, histVars>>

OnTime(r) == r.term = cterm \/ "late" \in Env

\* GetOrCreateLeader, when the request finds another controller.
GetOrCreateLeader(r) ==
    /\ r \in becoming /\ OnTime(r)
    /\ role[r.node] \in {"none", "follower"}
    /\ Reopened(r.node, "leader")
    /\ Cut(Without(r.node))
    /\ UNCHANGED <<log, db, flushed, coordVars, histVars>>

(* Becoming leader *)

\* BecomeLeader up to the loop over the followers; a request that is refused
\* has no effect.
BecomeLeader(r) ==
    LET n == r.node
    IN  /\ r \in becoming /\ OnTime(r)
        /\ role[n] = "leader"
        /\ becoming' = becoming \ {r}
        /\ \/ /\ status[n] = "FENCED" /\ r.term = term[n]
              /\ status' = [status EXCEPT ![n] = "LEADER"]
              /\ lead' = [lead EXCEPT ![n] =
                    [NoLead EXCEPT !.phase = IF \A f \in Node : r.followers[f] = None
                                             THEN "waiting" ELSE "attaching",
                                   !.el = HeadEntry(n), !.commit = DbCommit(n),
                                   !.next = HeadEntry(n).off, !.done = HeadEntry(n).off,
                                   !.todo = r.followers]]
           \/ /\ status[n] # "FENCED" \/ r.term # term[n]
              /\ UNCHANGED <<status, lead>>
        /\ UNCHANGED <<term, role, log, synced, db, flushed, wiped, lastApp, adv, applied, conn,
                       cterm, phase, resp, leader, chosen, histVars>>

\* truncateFollowerIfNeeded: must a follower with head entry h be truncated?
NeedsTruncate(l, h) ==
    LET e == HighestEntryOfTerm(l, h.term)
    IN  /\ ~(h.term = lead[l].el.term /\ h.off <= lead[l].el.off)
        /\ ~(h.term = e.term /\ h.off <= e.off)

\* Once every follower of the request is attached, BecomeLeader waits.
AfterAttach(l, todo) ==
    IF lead[l].phase = "attaching" /\ \A f \in Node : todo[f] = None THEN "waiting"
    ELSE lead[l].phase

\* addFollower of a follower that needs no truncation
AttachFollower(l, f) ==
    LET h == lead[l].todo[f]
        todo == [lead[l].todo EXCEPT ![f] = None]
    IN  /\ h # None
        /\ h.term <= lead[l].el.term
        /\ ~NeedsTruncate(l, h)
        /\ Advance(l, [lead[l].cur EXCEPT ![f] = NewCursor(h.off)],
                   AfterAttach(l, todo), todo)
        /\ UNCHANGED <<term, status, role, log, synced, flushed, wiped, lastApp, adv, applied, conn,
                       coordVars, written, crashes>>

\* TruncateLog succeeds for an offset the WAL holds, for InvalidOffset and for an
\* empty WAL.  Beyond the last offset it is out of bounds; before the first one
\* it deletes the log and then never returns from Clear, which wants the lock
\* that TruncateLog has.
CanTruncate(f, o) == o = 0 \/ log[f] = <<>> \/ InWal(f, o)

\* addFollower with a Truncate request, which the follower in term and in
\* status FENCED obeys.
TruncateFollower(l, f) ==
    LET h == lead[l].todo[f]
        e == HighestEntryOfTerm(l, h.term)
        kept == UpTo(log[f], e.off)
        todo == [lead[l].todo EXCEPT ![f] = None]
    IN  /\ h # None
        /\ h.term <= lead[l].el.term
        /\ NeedsTruncate(l, h)
        /\ role[f] = "follower" /\ status[f] = "FENCED" /\ term[f] = term[l]
        /\ CanTruncate(f, e.off)
        /\ status' = [status EXCEPT ![f] = "FOLLOWER"]
        /\ log' = [log EXCEPT ![f] = kept]
        /\ synced' = [synced EXCEPT ![f] = LastOff(kept)]
        /\ Advance(l, [lead[l].cur EXCEPT ![f] = NewCursor(LastOff(kept))],
                   AfterAttach(l, todo), todo)
        /\ UNCHANGED <<term, role, flushed, wiped, lastApp, adv, applied, conn, coordVars,
                       written, crashes>>

\* addFollower fails: the sanity check on the follower's term, or a Truncate
\* request that is refused, does not get through or does not fit the WAL.  In
\* the last case the follower has already left FENCED, and one that hangs keeps
\* its mutex.  BecomeLeader returns the error and leaves all it did so far;
\* AddFollower has the coordinator fence again.
AttachFails(l, f) ==
    LET h == lead[l].todo[f]
        o == HighestEntryOfTerm(l, h.term).off
        ready == role[f] = "follower" /\ status[f] = "FENCED" /\ term[f] = term[l]
        misfit == ready /\ ~CanTruncate(f, o)
        refused == ~ready /\ (role[f] \in {"follower", "hung"}
                                 \/ (role[f] = "leader" /\ term[f] # term[l]))
    IN  /\ h # None
        /\ \/ h.term > lead[l].el.term /\ UNCHANGED <<status, role, log, synced>>
           \/ /\ h.term <= lead[l].el.term /\ NeedsTruncate(l, h)
              /\ \/ /\ misfit /\ o > Last(f)
                    /\ status' = [status EXCEPT ![f] = "FOLLOWER"]
                    /\ UNCHANGED <<role, log, synced>>
                 \/ /\ misfit /\ o <= Last(f)
                    /\ status' = [status EXCEPT ![f] = "FOLLOWER"]
                    /\ role' = [role EXCEPT ![f] = "hung"]
                    /\ log' = [log EXCEPT ![f] = <<>>]
                    /\ synced' = [synced EXCEPT ![f] = 0]
                 \/ /\ ~misfit /\ (refused \/ "giveUp" \in Env)
                    /\ UNCHANGED <<status, role, log, synced>>
        /\ IF lead[l].phase = "attaching"
           THEN /\ lead' = [lead EXCEPT ![l].phase = "failed", ![l].todo = NoLead.todo]
                /\ UNCHANGED resp
           ELSE /\ lead' = [lead EXCEPT ![l].todo[f] = None]
                /\ resp' = IF leader = l /\ cterm = term[l] THEN [resp EXCEPT ![f] = None]
                           ELSE resp
        /\ UNCHANGED <<term, db, flushed, wiped, lastApp, adv, applied, conn,
                       cterm, phase, leader, becoming, chosen, histVars>>

\* Fault: the wait is for an offset beyond the head.
StartServingBeyondHead(l) ==
    /\ lead[l].phase = "waiting"
    /\ lead[l].commit > lead[l].el.off
    /\ lead' = [lead EXCEPT ![l].phase = "serving"]
    /\ db' = [db EXCEPT ![l] = @ \o After(UpTo(log[l], synced[l]), DbCommit(l))]
    /\ UNCHANGED <<term, status, role, log, synced, flushed, wiped, lastApp, adv, applied, conn,
                   coordVars, histVars>>

\* WaitForCommitOffset returns, and applyAllEntriesIntoDB reads the WAL from
\* where the database ends: the leader serves.
StartServing(l) ==
    LET gap == log[l] # <<>> /\ log[l][1].off > DbCommit(l) + 1
    IN
    /\ lead[l].phase = "waiting"
    /\ lead[l].commit >= lead[l].el.off
    /\ lead' = [lead EXCEPT ![l].phase = IF gap THEN "failed" ELSE "serving"]
    /\ db' = IF gap THEN db
             ELSE [db EXCEPT ![l] = @ \o After(UpTo(log[l], synced[l]), DbCommit(l))]
    /\ UNCHANGED <<term, status, role, log, synced, flushed, wiped, lastApp, adv, applied, conn,
                   coordVars, histVars>>

\* WaitForCommitOffset returns because the request was cancelled: it timed out,
\* or the coordinator has gone on to another election.
BecomeLeaderTimeout(l) ==
    /\ "giveUp" \in Env \/ term[l] < cterm
    /\ lead[l].phase = "waiting"
    /\ lead' = [lead EXCEPT ![l].phase = "failed"]
    /\ UNCHANGED <<term, status, role, log, synced, db, flushed, wiped, lastApp, adv, applied, conn,
                   coordVars, histVars>>

\* AddFollower, for a node that NewTerm reached after the election.
AddFollower(f) ==
    LET l == leader
    IN  /\ phase = "steady"
        /\ f # l /\ resp[f] # None
        /\ MutexFree(l)
        /\ term[l] = cterm /\ status[l] = "LEADER"
        /\ lead[l].cur[f] = None
        /\ lead' = [lead EXCEPT ![l].todo[f] = resp[f]]
        /\ UNCHANGED <<term, status, role, log, synced, db, flushed, wiped, lastApp, adv, applied, conn,
                       coordVars, histVars>>

(* Writing *)

\* Fault: the next offset is counted from the synced head.
WriteStreamAtHead(l) ==
    /\ status[l] = "LEADER" /\ lead[l].phase = "serving"
    /\ Cardinality(written) < MaxWrites
    /\ LET e == [off |-> synced[l] + 1, term |-> term[l], val |-> Cardinality(written) + 1]
       IN  /\ log' = [log EXCEPT ![l] = Append(@, e)]
           /\ written' = written \cup {e}
    /\ UNCHANGED <<term, status, role, synced, db, flushed, wiped, lastApp, adv, applied, conn, lead,
                   coordVars, answered, crashes>>

\* appendToWalStreamRequest: the next offset of the tracker goes to the WAL,
\* which refuses it when it holds unsynced entries of before the election.
WriteStream(l) ==
    LET o == lead[l].next + 1
        e == [off |-> o, term |-> term[l], val |-> Cardinality(written) + 1]
    IN  /\ MutexFree(l)
        /\ status[l] = "LEADER"
        /\ lead[l].phase = "serving" \/ (lead[l].phase = "failed" /\ "giveUp" \in Env)
        /\ Cardinality(written) < MaxWrites
        /\ lead' = [lead EXCEPT ![l].next = o]
        /\ IF log[l] = <<>> \/ o = Last(l) + 1
           THEN /\ log' = [log EXCEPT ![l] = Append(@, e)]
                /\ written' = written \cup {e}
           ELSE UNCHANGED <<log, written>>
        /\ UNCHANGED <<term, status, role, synced, db, flushed, wiped, lastApp, adv, applied, conn,
                       coordVars, answered, crashes>>

\* Fault: a write is applied when it is synced, not when it is committed.
SyncLeaderApplies(l) ==
    /\ lead[l].phase # "none"
    /\ synced[l] < Last(l)
    /\ synced' = [synced EXCEPT ![l] = Last(l)]
    /\ db' = [db EXCEPT ![l] = @ \o After(log[l], DbCommit(l))]
    /\ UNCHANGED <<term, status, role, log, flushed, wiped, lastApp, adv, applied, conn, lead,
                   coordVars, histVars>>

\* The WAL syncs; handleWalSynced moves the head offset of the tracker and waits
\* for the commit offset, which may be there already.
SyncLeader(l) ==
    LET ready == Ready(l, Last(l), lead[l].commit)
    IN  /\ lead[l].phase # "none"
        /\ synced[l] < Last(l)
        /\ synced' = [synced EXCEPT ![l] = Last(l)]
        /\ Answer(l, ready)
        /\ lead' = [lead EXCEPT ![l].done = DoneAfter(l, ready)]
        /\ UNCHANGED <<term, status, role, log, flushed, wiped, lastApp, adv, applied, conn,
                       coordVars, written, crashes>>

\* A leader was fenced between append and sync: the callback of the sync calls
\* the tracker, which is gone, and the process panics.
SyncFencedLeader(n) ==
    /\ role[n] = "leader" /\ lead[n].phase = "none"
    /\ synced[n] < Last(n)
    /\ synced' = [synced EXCEPT ![n] = Last(n)]
    /\ role' = [role EXCEPT ![n] = "none"]
    /\ status' = [status EXCEPT ![n] = "NOT_MEMBER"]
    /\ UNCHANGED <<term, log, db, flushed, wiped, lastApp, adv, applied, conn, lead,
                   coordVars, histVars>>

(* Replication *)

\* shouldSendSnapshot
NeedsSnapshot(l, f) ==
    LET a == lead[l].cur[f].ack
    IN  \/ a = 0 /\ lead[l].commit > 0
        \/ log[l] # <<>> /\ log[l][1].off > 1 /\ a < log[l][1].off

\* Fault: a follower that was only fenced refuses the stream.
OpenStreamToFollower(l, f) ==
    /\ lead[l].cur[f] # None
    /\ ~NeedsSnapshot(l, f)
    /\ role[f] = "follower" /\ status[f] = "FOLLOWER"
    /\ conn[f] = None
    /\ conn' = [conn EXCEPT ![f] = l]
    /\ UNCHANGED <<term, status, role, log, synced, db, flushed, wiped, lastApp, adv, applied, lead,
                   coordVars, histVars>>

\* streamEntries: Replicate at the follower takes one stream at a time, from
\* a leader of any term.
OpenStream(l, f) ==
    /\ lead[l].cur[f] # None
    /\ ~NeedsSnapshot(l, f)
    /\ role[f] = "follower" /\ status[f] \in {"FENCED", "FOLLOWER"}
    /\ conn[f] = None
    /\ "unsynced" \in Env \/ synced[f] = Last(f)
    /\ conn' = [conn EXCEPT ![f] = l]
    /\ UNCHANGED <<term, status, role, log, synced, db, flushed, wiped, lastApp, adv, applied, lead,
                   coordVars, histVars>>

\* Fault: the entry is acknowledged before it is synced.
FollowerAppendAcks(l, f) ==
    LET o == lead[l].cur[f].pos + 1
    IN  /\ role[f] = "follower" /\ conn[f] = l /\ InWal(l, o) /\ o <= synced[l]
        /\ term[f] = term[l] /\ o > lastApp[f]
        /\ log[f] = <<>> \/ o = Last(f) + 1
        /\ status' = [status EXCEPT ![f] = "FOLLOWER"]
        /\ log' = [log EXCEPT ![f] = Append(@, At(l, o))]
        /\ adv' = [adv EXCEPT ![f] = lead[l].commit]
        /\ lastApp' = [lastApp EXCEPT ![f] = o]
        /\ lead' = [lead EXCEPT ![l].cur[f].pos = o, ![l].cur[f].sent = o]
        /\ UNCHANGED <<term, role, synced, db, flushed, wiped, applied, conn, coordVars, histVars>>

\* The follower takes an entry of its own term that it does not have yet.
FollowerAppend(l, f) ==
    LET o == lead[l].cur[f].pos + 1
    IN  /\ role[f] = "follower" /\ conn[f] = l /\ InWal(l, o) /\ o <= synced[l]
        /\ term[f] = term[l] /\ o > lastApp[f]
        /\ log[f] = <<>> \/ o = Last(f) + 1
        /\ status' = [status EXCEPT ![f] = "FOLLOWER"]
        /\ log' = [log EXCEPT ![f] = Append(@, At(l, o))]
        /\ adv' = [adv EXCEPT ![f] = lead[l].commit]
        /\ lastApp' = [lastApp EXCEPT ![f] = o]
        /\ lead' = [lead EXCEPT ![l].cur[f].pos = o]
        /\ UNCHANGED <<term, role, synced, db, flushed, wiped, applied, conn, coordVars, histVars>>

\* An entry up to lastAppendedOffset is acknowledged at once.
FollowerDuplicate(l, f) ==
    LET c == lead[l].cur[f]
        o == c.pos + 1
    IN  /\ role[f] = "follower" /\ conn[f] = l /\ InWal(l, o) /\ o <= synced[l]
        /\ term[f] = term[l] /\ o <= lastApp[f]
        /\ status' = [status EXCEPT ![f] = "FOLLOWER"]
        /\ lead' = [lead EXCEPT ![l].cur[f] =
              [ack |-> c.ack, pos |-> o, sent |-> IF c.sent < o THEN o ELSE c.sent]]
        /\ UNCHANGED <<term, role, log, synced, db, flushed, wiped, lastApp, adv, applied, conn,
                       coordVars, histVars>>

\* The append fails: another term, or not the next offset.
FollowerRefuses(l, f) ==
    LET o == lead[l].cur[f].pos + 1
    IN  /\ role[f] = "follower" /\ conn[f] = l /\ InWal(l, o) /\ o <= synced[l]
        /\ \/ term[f] # term[l] /\ UNCHANGED status
           \/ /\ term[f] = term[l] /\ o > lastApp[f]
              /\ log[f] # <<>> /\ o # Last(f) + 1
              /\ status' = [status EXCEPT ![f] = "FOLLOWER"]
        /\ Cut([conn EXCEPT ![f] = None])
        /\ UNCHANGED <<term, role, log, synced, db, flushed, wiped, lastApp, adv, applied,
                       coordVars, histVars>>

\* handleReplicateSync: what was synced is acknowledged on the stream.
SyncFollower(f) ==
    /\ role[f] = "follower"
    /\ synced[f] < Last(f)
    /\ synced' = [synced EXCEPT ![f] = Last(f)]
    /\ lead' = IF conn[f] = None THEN lead
               ELSE [lead EXCEPT ![conn[f]].cur[f].sent = Last(f)]
    /\ UNCHANGED <<term, status, role, log, db, flushed, wiped, lastApp, adv, applied, conn,
                   coordVars, histVars>>

\* receiveAcks at the leader
ReceiveAck(l, f) ==
    /\ conn[f] = l
    /\ \E a \in lead[l].cur[f].ack + 1 .. lead[l].cur[f].sent :
          Advance(l, [lead[l].cur EXCEPT ![f].ack = a], lead[l].phase, lead[l].todo)
    /\ UNCHANGED <<term, status, role, log, synced, flushed, wiped, lastApp, adv, applied, conn,
                   coordVars, written, crashes>>

BreakStream(f) ==
    /\ "break" \in Env
    /\ conn[f] # None
    /\ Cut([conn EXCEPT ![f] = None])
    /\ UNCHANGED <<term, status, role, log, synced, db, flushed, wiped, lastApp, adv, applied,
                   coordVars, histVars>>

\* The process of node n ends and starts again.  What was synced of the WAL and
\* flushed of the database is there; more of both may be.
Restart(n) ==
    /\ \E o \in synced[n] .. Last(n) :
          /\ log' = [log EXCEPT ![n] = UpTo(@, o)]
          /\ synced' = [synced EXCEPT ![n] = o]
    /\ \E k \in flushed[n] .. Len(db[n]) :
          /\ db' = [db EXCEPT ![n] = SubSeq(@, 1, k)]
          /\ flushed' = [flushed EXCEPT ![n] = k]
    /\ term' = [term EXCEPT ![n] = IF n \in wiped THEN -1 ELSE @]
    /\ wiped' = wiped \ {n}
    /\ status' = [status EXCEPT ![n] = "NOT_MEMBER"]
    /\ role' = [role EXCEPT ![n] = "none"]
    /\ lastApp' = [lastApp EXCEPT ![n] = 0]
    /\ adv' = [adv EXCEPT ![n] = 0]
    /\ applied' = [applied EXCEPT ![n] = 0]
    /\ CutOff(n)

\* applyAllCommittedEntries: a follower applies what it has of what the leader
\* told it is committed.  When the WAL starts too late, the stream is closed and
\* the goroutine ends; without a database it panics.
ApplyCommitted(f) ==
    LET o == IF adv[f] < synced[f] THEN adv[f] ELSE synced[f]
        ready == After(UpTo(log[f], o), applied[f])
        gap == log[f] # <<>> /\ log[f][1].off > applied[f] + 1
    IN  /\ role[f] = "follower" /\ applied[f] # None
        /\ adv[f] > applied[f]
        /\ \/ /\ gap
              /\ applied' = [applied EXCEPT ![f] = None]
              /\ Cut([conn EXCEPT ![f] = None])
              /\ UNCHANGED <<term, status, role, log, synced, db, flushed, wiped, lastApp, adv>>
           \/ /\ ~gap /\ ready # <<>> /\ f \notin wiped
              /\ db' = [db EXCEPT ![f] = @ \o ready]
              /\ applied' = [applied EXCEPT ![f] = LastOff(ready)]
              /\ UNCHANGED <<term, status, role, log, synced, flushed, wiped, lastApp, adv,
                             conn, lead>>
           \/ ~gap /\ ready # <<>> /\ f \in wiped /\ Restart(f)
        /\ UNCHANGED <<coordVars, histVars>>

\* sendSnapshot and handleSnapshot: WAL and database of the follower are
\* replaced by the database of the leader; the status stays what it was.
SendSnapshot(l, f) ==
    /\ lead[l].cur[f] # None /\ NeedsSnapshot(l, f)
    /\ role[f] = "follower" /\ conn[f] = None
    /\ term[f] \in {-1, term[l]}
    /\ log' = [log EXCEPT ![f] = <<>>]
    /\ synced' = [synced EXCEPT ![f] = 0]
    /\ db' = [db EXCEPT ![f] = db[l]]
    /\ flushed' = [flushed EXCEPT ![f] = Len(db[l])]
    /\ wiped' = wiped \ {f}
    /\ term' = [term EXCEPT ![f] = term[l]]
    /\ lastApp' = [lastApp EXCEPT ![f] = DbCommit(l)]
    /\ applied' = [applied EXCEPT ![f] = IF @ = None THEN None ELSE DbCommit(l)]
    /\ lead' = [lead EXCEPT ![l].cur[f] = NewCursor(DbCommit(l))]
    /\ UNCHANGED <<status, role, adv, conn, coordVars, histVars>>

\* A snapshot that does not complete: the stream breaks, or the first chunk
\* shows another term.  WAL and database are gone by then, and the controller
\* keeps its offsets; one without a term may have taken that of a chunk.
SnapshotFails(l, f) ==
    /\ "badSnapshot" \in Env
    /\ lead[l].cur[f] # None /\ NeedsSnapshot(l, f)
    /\ role[f] = "follower" /\ conn[f] = None
    /\ log' = [log EXCEPT ![f] = <<>>]
    /\ synced' = [synced EXCEPT ![f] = 0]
    /\ db' = [db EXCEPT ![f] = <<>>]
    /\ flushed' = [flushed EXCEPT ![f] = 0]
    /\ wiped' = wiped \cup {f}
    /\ \/ UNCHANGED term
       \/ term[f] = -1 /\ term' = [term EXCEPT ![f] = term[l]]
    /\ UNCHANGED <<status, role, lastApp, adv, applied, conn, lead, coordVars, histVars>>

\* Fault: the sync of the WAL does not reach the disk.
CrashLosesWal(n) ==
    /\ crashes < MaxCrash
    /\ role[n] # "none"
    /\ crashes' = crashes + 1
    /\ log' = [log EXCEPT ![n] = <<>>] /\ synced' = [synced EXCEPT ![n] = 0]
    /\ db' = [db EXCEPT ![n] = SubSeq(@, 1, flushed[n])]
    /\ status' = [status EXCEPT ![n] = "NOT_MEMBER"]
    /\ role' = [role EXCEPT ![n] = "none"]
    /\ lastApp' = [lastApp EXCEPT ![n] = 0] /\ adv' = [adv EXCEPT ![n] = 0]
    /\ applied' = [applied EXCEPT ![n] = 0]
    /\ CutOff(n)
    /\ UNCHANGED <<term, flushed, wiped, coordVars, written, answered>>

\* A node stops and comes back.
Crash(n) ==
    /\ crashes < MaxCrash
    /\ role[n] # "none"
    /\ crashes' = crashes + 1
    /\ Restart(n)
    /\ UNCHANGED <<coordVars, written, answered>>

\* A leader adds a follower.
Attach(l, f) ==
    GetOrCreateFollower(l, f) \/ AttachFollower(l, f) \/ TruncateFollower(l, f)
        \/ AttachFails(l, f)

\* A cursor sends entries or a snapshot.
Stream(l, f) ==
    OpenStream(l, f) \/ FollowerAppend(l, f) \/ FollowerDuplicate(l, f)
        \/ FollowerRefuses(l, f) \/ SendSnapshot(l, f)

Request(r) == GetOrCreateLeader(r) \/ BecomeLeader(r)

Next ==
    \/ ElectLeader \/ LeaderElected
    \/ \E n \in Node :
          \/ SelectNewLeader(n) \/ AddFollower(n)
          \/ \E t \in 0 .. cterm, heard \in BOOLEAN : NewTerm(n, t, heard)
          \/ StartServing(n) \/ BecomeLeaderTimeout(n)
          \/ WriteStream(n) \/ SyncLeader(n) \/ SyncFencedLeader(n)
          \/ SyncFollower(n) \/ ApplyCommitted(n) \/ BreakStream(n) \/ Crash(n)
    \/ \E r \in becoming : Request(r)
    \/ \E l, f \in Node :
          Attach(l, f) \/ Stream(l, f) \/ ReceiveAck(l, f) \/ SnapshotFails(l, f)

Spec == Init /\ [][Next]_vars

\* The goroutines of the coordinator and of the nodes run, and retry.
Fairness ==
    /\ WF_vars(LeaderElected)
    /\ WF_vars(\E n \in Node : SelectNewLeader(n))
    /\ WF_vars(\E r \in becoming : Request(r))
    /\ \A n \in Node :
          /\ WF_vars(NewTerm(n, cterm, TRUE)) /\ WF_vars(AddFollower(n))
          /\ WF_vars(StartServing(n)) /\ WF_vars(BecomeLeaderTimeout(n))
          /\ WF_vars(SyncLeader(n)) /\ WF_vars(SyncFollower(n)) /\ WF_vars(ApplyCommitted(n))
    /\ \A l, f \in Node :
          WF_vars(Attach(l, f)) /\ WF_vars(Stream(l, f)) /\ WF_vars(ReceiveAck(l, f))

FairSpec == Spec /\ Fairness

-----------------------------------------------------------------------------
(* Properties *)

TypeOK ==
    /\ term \in [Node -> Term]
    /\ status \in [Node -> {"NOT_MEMBER", "FENCED", "FOLLOWER", "LEADER"}]
    /\ role \in [Node -> {"none", "follower", "leader", "hung"}]
    /\ log \in [Node -> Seq(Entry)] /\ db \in [Node -> Seq(Entry)]
    /\ synced \in [Node -> Nat] /\ flushed \in [Node -> Nat]
    /\ lastApp \in [Node -> Nat] /\ adv \in [Node -> Nat]
    /\ applied \in [Node -> Nat \cup {None}]
    /\ wiped \subseteq Node
    /\ conn \in [Node -> Node \cup {None}]
    /\ lead \in [Node -> Lead]
    /\ cterm \in Term /\ phase \in {"idle", "fencing", "becoming", "steady"}
    /\ leader \in Node \cup {None}
    /\ resp \in [Node -> EntryId \cup {None}]
    /\ becoming \subseteq
          [term : 0 .. MaxTerm, node : Node, followers : [Node -> EntryId \cup {None}]]
    /\ chosen \in [0 .. MaxTerm -> Node \cup {None}]
    /\ written \subseteq Entry /\ answered \subseteq written
    /\ crashes \in 0 .. MaxCrash

\* No two nodes lead the shard in the same term: late requests, repeated
\* elections, restarts and failed snapshots included.
OneLeaderPerTerm ==
    \A n, m \in Node :
        status[n] = "LEADER" /\ status[m] = "LEADER" /\ term[n] = term[m] => n = m

Entries(s) == {s[i] : i \in DOMAIN s}
Holds(n) == Entries(log[n]) \cup Entries(db[n])
Durable(n) == {e \in Entries(log[n]) : e.off <= synced[n]} \cup Entries(db[n])

\* Term and offset identify an entry: whatever two nodes have in their logs or
\* databases under the same term and offset is the same write.
EntriesUnique ==
    \A n, m \in Node : \A d \in Holds(n), e \in Holds(m) :
        d.term = e.term /\ d.off = e.off => d = e

\* A write whose client was told of success is in the log or the database of
\* every leader of a later term: selectNewLeader cannot miss it.
LeaderHasAnswered ==
    \A n \in Node : \A e \in answered :
        status[n] = "LEADER" /\ term[n] > e.term => e \in Holds(n)

\* What a cursor counts as acknowledged, its follower has on disk: the very
\* entry the leader has at that offset.
AckedIsStored ==
    \A l, f \in Node :
        lead[l].cur[f] # None /\ term[f] = term[l] =>
            \A o \in 1 .. lead[l].cur[f].ack : InWal(l, o) => At(l, o) \in Durable(f)

\* Two databases never hold different entries at the same offset.
DatabasesAgree ==
    \A n, m \in Node : \A d \in Entries(db[n]), e \in Entries(db[m]) :
        d.off = e.off => d = e

\* truncateFollowerIfNeeded, "Checking for sanity here.": no follower's head
\* entry has a higher term than the one the leader was elected with.
FollowerTermOk ==
    \A l, f \in Node : lead[l].todo[f] # None => lead[l].todo[f].term <= lead[l].el.term

\* The last election ends with a leader that serves, although the election
\* before it may have stopped anywhere.
ElectionCompletes == cterm = MaxTerm ~> phase = "steady"

\* Once there are no more elections, every node gets all that the leader has.
FollowersCatchUp ==
    cterm = MaxTerm /\ Cardinality(written) = MaxWrites ~>
        leader # None /\ \A f \in Node : Entries(log[leader]) \subseteq Holds(f)

=============================================================================
