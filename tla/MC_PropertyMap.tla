--------------------------- MODULE MC_PropertyMap ---------------------------
\* Instances of PropertyMap for TLC: two keys and two values.
EXTENDS PropertyMap

CONSTANTS k1, k2, v1, v2
=============================================================================
