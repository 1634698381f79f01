-------------------------- MODULE MC_DisasterBackup --------------------------
\* Instances of DisasterBackup for TLC: three games, so that a lost half has
\* one game to go to, and two gates, one of which serves two addresses.
EXTENDS DisasterBackup

CONSTANTS g1, g2, g3, k1, k2

Mixed == [g \in Games |-> [a \in Games |-> IF a = g2 THEN k2 ELSE k1]]
=============================================================================
