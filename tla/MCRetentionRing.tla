--------------------------- MODULE MCRetentionRing ---------------------------
\* Model values for checking RetentionRing with TLC.
EXTENDS RetentionRing

MCCapacities == 0..3
=============================================================================
