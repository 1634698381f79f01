---------------------------- MODULE MC_SendQueue ----------------------------
\* Instances of SendQueue for TLC: up to two callers and three threads.
EXTENDS SendQueue

CONSTANTS c1, c2, t1, t2, t3
=============================================================================
