# Oxia: specification, model checking and proofs

TLA+ modules for the replication core of Oxia, the configurations that
model-check them with TLC, and proofs checked by TLAPS. Every definition is
translated from the Go source; `PROJECT.json` gives the lines of each one.

## The system

Oxia is a sharded key-value store. Each shard has an ensemble of storage nodes,
one of which leads it in a *term*. A coordinator, outside the data path, elects
leaders and keeps the cluster status in a metadata store.

| part | state | operations |
|---|---|---|
| shard controller (`coordinator/impl/shard_controller.go`) | term, leader, ensemble, status | `electLeader`, `newTermQuorum`, `selectNewLeader`, `becomeLeader`, fencing of failed followers, `SwapNode`, `deleteShard` |
| coordinator (`coordinator/impl/coordinator.go`) | cluster status and its version | `InitiateLeaderElection`, `ElectedLeader`, rebalancing, assignments |
| node controller (`coordinator/impl/node_controller.go`) | health of a node | health checks, assignment pushes |
| shards director (`server/shards_director.go`) | a leader or a follower controller per shard | `GetOrCreateLeader`, `GetOrCreateFollower`, `DeleteShard` |
| leader controller (`server/leader_controller.go`) | term, status, WAL, database, cursors, tracker | `NewTerm`, `BecomeLeader`, `AddFollower`, `Write`, `WriteStream`, reads |
| quorum ack tracker (`server/quorum_ack_tracker.go`) | head, next and commit offset, a bit set per uncommitted entry, waiting requests | `AdvanceHeadOffset`, `NewCursorAcker`, `Ack`, `WaitForCommitOffset` |
| follower cursor (`server/follower_cursor.go`) | last pushed and last acknowledged offset | streaming, snapshots, reconnection |
| follower controller (`server/follower_controller.go`) | term, status, WAL, database, last appended and advertised commit offset | `NewTerm`, `Truncate`, `Replicate`, `SendSnapshot` |
| write-ahead log (`server/wal`) | segments, last appended and last synced offset | append, sync, truncate, clear, trim, recover |
| database (`server/kv`) | records, commit offset, term, notifications | `ProcessWrite`, `UpdateTerm`, snapshot |
| sessions (`server/session*.go`) | live sessions and their ephemeral keys | create, keep alive, expire, close |
| client (`oxia`) | pending batches, shard assignments, cache | batching, write stream, notifications |

What makes it hard: the leader's write path runs in several goroutines that meet
in the tracker; the WAL shows an entry to the cursors as soon as it is synced,
before the writer's callback has run; streams break and entries are sent twice;
requests of an older term arrive late; a leader election may stop at any point,
and a failed `BecomeLeader` leaves its work behind; nodes crash, with a WAL that
is durable to the last sync and a database that is durable to the last flush;
snapshots replace a node's whole state in several steps.

What has to hold: a term has one leader; an answered write is never lost, is on
a majority, and is in the log of every later leader; logs and databases of
different nodes agree; acknowledgements count only for what is on disk; and
elections and writes come to an end.

## Modules

| module | contents |
|---|---|
| `QuorumAckTracker` | the tracker, with the goroutines that use it |
| `MCQuorumAckTracker` | its instance for TLC |
| `QuorumAckTrackerInvariant` | its inductive invariant, and what the operations of the tracker do to it |
| `QuorumAckTrackerProofs` | every step preserves it; the theorems |
| `ShardReplication` | one shard: coordinator, nodes, streams, WALs and databases |
| `MCShardReplication` | its instance for TLC, with symmetry of nodes |
| `ShardReplicationInvariant` | its inductive invariant, lemmas on its operators |
| `ShardElectionProofs`, `ShardAttachmentProofs`, `ShardWritingProofs` | the steps of an election, of attaching followers and of writing preserve the invariant |
| `ShardReplicationProofs` | so do the other steps; the theorems |

A definition whose comment starts with "Fault:" is a wrong form of the one after
it. With the fault in place of the right definition, a property listed for it in
`PROJECT.json` fails.

### QuorumAckTracker

`head`, `next`, `commit`, `tracked`/`bits`, `cursors`, `waiting` and `closed` are
the fields of `quorumAckTracker`. `stage` is how far each write has come:
`appended` to the WAL, `advanced` (its goroutine has called `AdvanceHeadOffset`),
`queued` in `waitingRequests`, `answered` or `failed`. `phase` is how far
`BecomeLeader` has come. `stored` is how far the follower of each cursor has the
leader's log in its WAL or, after a snapshot, the leader's database with whatever
that database lacks or has out of order. `acked` is the `ackOffset` of the
cursor, and `again` the entries that a reopened stream sends a second time: their
acknowledgements may arrive after later ones and set `ackOffset` back.

One action is one critical section of the tracker's mutex, or one step of a
goroutine between two of them. Applying a write to the database happens inside
the tracker's lock, in the callback, and therefore in the same action.

The constant `Env` says what may happen around the tracker: unary writes, whose
goroutines enter the tracker in any order; cancelled requests; acknowledgements
that arrive before `AdvanceHeadOffset`; and a `BecomeLeader` that times out.

### ShardReplication

Per node: `term` and `status`, `role` (which controller the shards director
holds), `log` with `synced` (the WAL), `db` with `flushed` (the database),
`lastApp`, `adv` and `applied` (`lastAppendedOffset`, `advertisedCommitOffset` and
`commitOffset` of a follower controller; `applied` is `None` once its goroutine
has ended on a gap in the WAL), `conn` (the stream it serves) and `lead` (what
`BecomeLeader` sets up: election head, commit offset, next offset, the last entry
answered, followers still to be attached, cursors). While `BecomeLeader` or
`AddFollower` holds the leader controller's mutex (`MutexFree`), `NewTerm` and
writes wait. A role `hung` is a follower controller whose `Truncate` waits for a
lock that it holds itself. `Restart` is what a crash and a panic have in common:
WAL back to the last sync or later, database back to the last flush or later. The coordinator has `cterm`, `phase`, `resp` (the answers to
`NewTerm`) and `leader`. `becoming` holds `BecomeLeader` requests on their way.
`chosen`, `written` and `answered` are history variables.

Offsets count from 1, so that 0 is `wal.InvalidOffset`. An entry carries its
term, its offset and the number of the write. The leader's tracker appears as
the commit offset that the cursors' acknowledgements justify, which is what
`QuorumAckTracker` is about; clients use the write stream. One simplification: a
leader restored from a snapshot may have a commit offset ahead of its log, and
keeps it here until the log has caught up, where the tracker may set it back.

Assumptions: the term that the coordinator has stored is not lost; messages on a
stream are ordered; a disk keeps what was synced. `Env` selects again what the
environment does: elections by a bare majority, late and lost requests, broken
streams, entries that are appended but not synced when a node is fenced,
`BecomeLeader` that gives up, and snapshots that break off.

## Model checking

All runs of `ShardReplication` use three nodes, the smallest ensemble in which a
majority is not everyone. The term starts at -1, so `MaxTerm = 1` means one
election and one re-election.

| run | configuration | checks |
|---|---|---|
| `tracker_stream` | streamed writes, one entry left from before the election, two more, one broken stream, late cursors | `TypeOK`, `CommitKeepsUp`, `DbFollowsLog`, `CommitAdvances`, `WritesAnswered` |
| `tracker_mixed` | the same with everything in `Env` | `CommitOnQuorum`, `AnsweredOnQuorum` |
| `shard_crash` | one re-election by a majority, two writes, one crash | `EntriesUnique`, `LeaderHasAnswered`, `DatabasesAgree` |
| `shard_reelection` | two re-elections in which every node answers, two writes | `LeaderHasAnswered`, `AckedIsStored`, `FollowerTermOk` |
| `shard_hostile` | one re-election, one write, one crash, everything in `Env` | `TypeOK`, `OneLeaderPerTerm` |
| `shard_liveness` | one re-election, one write, no failures after it | `ElectionCompletes`, `FollowersCatchUp` |

The bounds are small, and chosen for what they let happen: three offsets let two
writes overtake each other and leave one entry to the election; two writes and a
re-election let a log diverge; in `shard_reelection` an election may stop after
any of its steps and be followed by two more, the followers may be attached at
any length of their logs, and since every node answers the longest log wins and
the other logs are prefixes of it; one
crash falls between any two steps.

Two bounds lie just below a counterexample, and the runs that go beyond them are
in the next table: `shard_crash` with a third write is `shard_truncated`, in which
a write follows a truncation, and with a second re-election by a majority it is
`shard_offset_only`. What `shard_crash` says holds for one re-election and two
writes. With three nodes one acknowledgement makes a quorum; larger ensembles are
the subject of the proofs.

Deadlock is not checked: with bounded terms, writes and crashes every behaviour
comes to a stop.

Six more runs show a disagreement between the code and what a document or a
comment says of it. Each stops at a counterexample; `PROJECT.json` quotes the
sentence under `findings`.

| run | what TLC finds |
|---|---|
| `tracker_lost_ack` | an acknowledgement that arrives before `AdvanceHeadOffset` is ignored, and the write is not answered |
| `tracker_unary` | two unary writes reach the tracker in the wrong order, and the leader's database applies the later one first |
| `shard_truncated` | `Truncate` does not reset `lastAppendedOffset`, and the follower acknowledges entries it does not have |
| `shard_offset_only` | `selectNewLeader` takes a log of an older term that is no shorter, here one of equal offset, and the selected node lacks an answered write; its `BecomeLeader` then fails on a follower of a higher term, so the write is not lost here |
| `shard_term_sanity` | a leader is handed a follower whose head entry has a higher term, in the shortest behaviour by `AddFollower` while it already serves, and refuses it |
| `shard_unsynced_ack` | an entry that a broken stream left appended and not synced is acknowledged when it is sent again |

The passing runs leave these out, by `Env` (`tracker_stream` has neither
`earlyAck` nor `unary`; of the shard runs only `shard_hostile` has `unsynced` and
`break`; `shard_reelection` has no elections by a bare majority) or, for
`shard_crash`, by the bounds on writes and terms. Other values of `Env` show
relatives of them: `CommitAdvances` fails with `earlyAck`; `DbFollowsLog` fails
with `cancel` or `timeout`; `AckedIsStored` fails with `badSnapshot`.

### Fairness

Fairness is weak and per step: the WAL's sync routine, the callbacks of writes,
the loops of cursors and followers, and the coordinator's retries run again when
they can. The code justifies it: each is a goroutine in a loop with a backoff
and no limit on attempts. Nothing is assumed of clients, of crashes, of broken
streams or of new elections, which are bounded instead.

## Proofs

TLAPS proves, for every value of the constants that satisfies their assumptions:

| theorem | says |
|---|---|
| `QuorumAckTrackerProofs!TypeCorrect` | `TypeOK` |
| `QuorumAckTrackerProofs!CommitSafe` | `CommitOnQuorum`: the commit offset stands for entries on a majority |
| `QuorumAckTrackerProofs!AnswersSafe` | `AnsweredOnQuorum`: so does every successful answer |
| `ShardReplicationProofs!TypeCorrect` | `TypeOK` |
| `ShardReplicationProofs!OneLeader` | `OneLeaderPerTerm` |
| `ShardReplicationProofs!EntryIdentity` | `EntriesUnique`: term and offset identify an entry |

*The tracker.* Neither property is inductive. A full bit set proves a quorum only
if every bit stands for a cursor that has acknowledged the entry (`BitsInv`), and
a cursor's position only if its follower stores that much (`CursorInv`). A
cursor's position may go back, and a snapshot may take entries from a follower,
but only from one whose cursor has no position yet: the argument counts what a
follower stores once its cursor has one (`mark`). `NotifyStep` and `AckStep` state once what the two inner calls
do; the proof has one step per action.

*The shard.* The invariant says that logs hold only written entries with
contiguous offsets (`LogInv`), that exactly the nodes in status `LEADER` have
cursors (`LeadInv`), that a stream joins a cursor and a follower, which may hang
(`ConnInv`), and
that requests on their way, leaders and entries agree with the one choice the
coordinator made for their term (`ElectInv`). One leader per term follows from
the last. It is also used inside the induction: without it the shards director
could close the controller of an acting leader for a follower of the same term.
Entries are unique because the log of an acting leader reaches beyond all that
was written in its term.

The theorems hold with everything in `Env`, including what the six
counterexamples use: what fails there is the durability of answers and the
agreement of logs, not the identity of leaders and entries.

Only model-checked: the liveness properties, and `CommitKeepsUp`, `DbFollowsLog`,
`CommitAdvances`, `LeaderHasAnswered`, `AckedIsStored`, `DatabasesAgree` and
`FollowerTermOk`, which hold only for restricted environments.

## Plan

In this order:

1. `Coordinator`: the stored cluster status with two shards, `InitiateLeaderElection`
   and `ElectedLeader` against restarts; is the assumption that a stored term is
   not lost true?
2. Changes of the ensemble in `ShardReplication`: `SwapNode`, removed nodes,
   `deleteShard`.
3. `Wal`: segments, sync, trimming, truncation across segments, recovery.
4. An abstract replicated log that `ShardReplication` implements in the
   environments where no answer is lost, with a refinement mapping.
5. `Sessions`: expiry, closing and leader changes against writes with ephemeral
   keys; the locks of the session manager.
6. `Db`: versions, conditional writes, sequence keys, notifications and their
   trimming.
7. `WriteStream` and `Batcher` of the client: pending requests, retries.
8. Rebalancing, cluster updates and the key order as pure operators, checked
   against reference definitions.

Theorems to follow: `DbFollowsLog` for streamed writes, monotonic commit offset,
`LeaderHasAnswered` for elections in which every node answers, and the safety of
the new modules.

## Not modelled

RPC plumbing, authentication, TLS, metrics, logging, command lines, the
performance tool and the Maelstrom adapter carry no state that replication
depends on. Reads are not modelled: they do not change state. The parts named in
the plan are listed as such in `PROJECT.json`.
