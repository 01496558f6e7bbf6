------------------------- MODULE MCQuorumAckTracker -------------------------
(* Instances of QuorumAckTracker for TLC.  The environment of each run is a  *)
(* set of EnvKinds, given in the configuration files.                        *)
EXTENDS QuorumAckTracker

\* Writes already in the log of the leader when it is elected: entry 0, which
\* its database has not applied.
NoCommit == -1
=============================================================================
