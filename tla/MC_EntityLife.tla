---------------------------- MODULE MC_EntityLife ----------------------------
\* Instances of EntityLife for TLC: three games, so that the cell has two to
\* go to, and clients that log in one after the other or at once.
EXTENDS EntityLife

CONSTANTS g1, g2, g3
=============================================================================
