-------------------------- MODULE MCTombstoneStore --------------------------
\* Model values for checking TombstoneStore with TLC: more sessions than a
\* store holds, names that repeat, a store that keeps nothing.
EXTENDS TombstoneStore

MCCapacities == {0, 1, 2}
=============================================================================
