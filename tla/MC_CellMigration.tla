-------------------------- MODULE MC_CellMigration --------------------------
EXTENDS CellMigration

CONSTANTS g1, g2, g3, client, a, b

\* The base lives on another game than the one its cell is created on, as
\* the gate's create_cell_entity arranges; the client in its own process.
MCAt == [s \in {"base", "client"} |-> IF s = "base" THEN g2 ELSE client]
MCAtBase == [s \in {"base"} |-> g2]

\* How many rpcs the owners call.
NoCalls == [s \in Sources |-> 0]
TwoEach == [s \in Sources |-> 2]
TwoAndOne == [s \in Sources |-> IF s = "base" THEN 2 ELSE 1]

\* One gate for everything.
OneGate == [n \in Nodes |-> [m \in Nodes |-> a]]

\* Two gates, chosen by the address called: a for g1, b for the others.
TwoGates == [n \in Nodes |-> [m \in Nodes |-> IF m = g1 THEN a ELSE b]]
=============================================================================
