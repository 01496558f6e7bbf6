-------------------------- MODULE MCShardReplication --------------------------
EXTENDS ShardReplication, TLC

Symmetry == Permutations(Node)
=============================================================================
