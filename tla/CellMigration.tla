---------------------------- MODULE CellMigration ----------------------------
(***************************************************************************)
(* The migration of the cell of one entity from game to game               *)
(* (engine/entity.cpp, engine/mailbox.h, game/ and                         *)
(* gate/framework/migrate_rpc.cpp).                                        *)
(*                                                                         *)
(*   cell               asks the owners of a mailbox on it (its base and,  *)
(*                      if it has one, its client) to migrate;             *)
(*   base, client       acknowledge and cache what they call from then on; *)
(*   cell               once all have acknowledged, serialises itself and  *)
(*                      sends the packet to the new game;                  *)
(*   new game           creates the new cell, which tells the owners its   *)
(*                      address (they flush their caches to it) and tells  *)
(*                      the old cell to destroy itself.                    *)
(*                                                                         *)
(* Every rpc goes through a gate: from a process to the gate it uses for   *)
(* that address, from the gate to the destination, and there through the   *)
(* queue g_rpc_manager that the network threads fill and the main thread   *)
(* empties.  Each leg is an ordered channel (module SendQueue).            *)
(*                                                                         *)
(* Connections and processes do not fail here, except that a process that  *)
(* executes a null rpc_imp is gone.  real_time_to_disaster_backup, which   *)
(* the base also calls in new_cell_migrate_in, belongs to the disaster     *)
(* backup and sends nothing that the migration waits for.                  *)
(***************************************************************************)
EXTENDS Naturals, Sequences, FiniteSets, SequencesExt

CONSTANTS Games,          \* addresses of the game processes
          Gates,
          Sources,        \* the owners of a mailbox on the cell: {"base"}
                          \* (CellEntity) or {"base", "client"}
                          \* (CellEntityWithClient)
          At,             \* At[s]: the process of owner s
          Home,           \* the game where the cell is created
          Fixed,          \* Fixed[n][m]: gate of get_fixed_session(m) in n
          ClientGate,     \* the gate the client is connected to
          NoCell,
          MaxCalls,       \* bound: gameplay rpcs each owner calls
          MaxMigrations,  \* bound: migrations begun
          MaxTimeouts     \* bound: migrate_check_timers that fire

Nodes == Games \cup {At[s] : s \in Sources}

ASSUME SourcesAssumption == Sources \in {{"base"}, {"base", "client"}}
ASSUME PlacesAssumption ==
    /\ Home \in Games /\ At["base"] \in Games
    /\ "client" \in Sources => At["client"] \notin Games
    /\ ClientGate \in Gates
    /\ Fixed \in [Nodes -> [Nodes -> Gates]]
ASSUME BoundsAssumption ==
    MaxCalls \in [Sources -> Nat] /\ MaxMigrations \in Nat /\ MaxTimeouts \in Nat

(* What a cell keeps running while it is in charge. *)
Belongings == {"timers", "events"}

CellType ==
    [state : {"None", "Prepare", "RealMigrate"}, acks : SUBSET Sources,
     newAddr : Games \cup {NoCell}, timer : BOOLEAN, dying : BOOLEAN,
     own : SUBSET Belongings, applied : [Sources -> Seq(Nat)]]

ASSUME NoCellAssumption == NoCell \notin Games \cup CellType

VARIABLES cells,        \* cells[g]: g_cell_entities of game g
          mb,           \* mb[s]: the cell mailbox of owner s
          up,           \* up[n][gate]: rpcs from process n to the gate
          down,         \* down[gate][n]: rpcs from the gate to process n
          imp,          \* imp[n]: the decoded rpcs, m_rpc_imp_queue
          crashed,      \* processes that executed a null rpc_imp
          issued,       \* issued[s]: gameplay rpcs called by s so far
          migrations, timeouts

net == <<up, down, imp>>
bounds == <<migrations, timeouts>>
vars == <<cells, mb, net, crashed, issued, bounds>>

-----------------------------------------------------------------------------
(* Letters: one rpc under way.  "to" is the entity it is for, or "game"    *)
(* for an rpc of the game process itself.                                  *)
Letter(via, dst, to, op, arg) ==
    [via |-> via, dst |-> dst, to |-> to, op |-> op, arg |-> arg]

(* base.call and client.call of the cell on g: the gate fixed by the       *)
(* base's address, the gate the client is connected to.                    *)
ToOwner(g, s, op) ==
    Letter(IF s = "client" THEN ClientGate ELSE Fixed[g][At[s]],
           At[s], s, op, g)

(* remote_rpc_call in process n on the connection to the letter's gate.    *)
Sent(queues, n, letter) ==
    [queues EXCEPT ![n][letter.via] = Append(@, letter)]

\* Variant: the CellEntity handler runs for a cell that has a client.
TellBaseOnly(queues, g, op) == Sent(queues, g, ToOwner(g, "base", op))

TellOwners(queues, g, op) ==
    LET told == Sent(queues, g, ToOwner(g, "base", op))
    IN  IF "client" \in Sources THEN Sent(told, g, ToOwner(g, "client", op))
                                ELSE told

(* A cell mailbox keeps the gate it chose for its first address, Home,     *)
(* also when its address changes (m_session_cache, m_remote_cache).        *)
CellGate(s) == IF s = "client" THEN ClientGate ELSE Fixed[At[s]][Home]

SendRpc(s, addr, rpc) == Letter(CellGate(s), addr, "cell", rpc.op, rpc.arg)

\* Variant: the address of the caller instead of the one called.
NewMailBoxCallSelf(g, addr, op) == Letter(Fixed[g][g], g, "cell", op, g)

(* A fresh cell mailbox chooses the gate fixed by the address. *)
NewMailBoxCall(g, addr, op) == Letter(Fixed[g][addr], addr, "cell", op, g)

\* Variant: is_rpc_cache is not looked at.
CallUncached(s, rpc) ==
    up' = Sent(up, At[s], SendRpc(s, mb[s].addr, rpc)) /\ UNCHANGED mb

(* call on the cell mailbox of s: cached, or sent. *)
Call(s, rpc) ==
    IF mb[s].caching
      THEN /\ mb' = [mb EXCEPT ![s].cache = Append(@, rpc)]
           /\ UNCHANGED up
      ELSE /\ up' = Sent(up, At[s], SendRpc(s, mb[s].addr, rpc))
           /\ UNCHANGED mb

NewCell(applied, own) ==
    [state |-> "None", acks |-> {}, newAddr |-> NoCell, timer |-> FALSE,
     dying |-> FALSE, own |-> own, applied |-> applied]

Init ==
    /\ cells = [g \in Games |->
                  IF g = Home THEN NewCell([s \in Sources |-> <<>>], Belongings)
                              ELSE NoCell]
    /\ mb = [s \in Sources |-> [addr |-> Home, caching |-> FALSE, cache |-> <<>>]]
    /\ up = [n \in Nodes |-> [gate \in Gates |-> <<>>]]
    /\ down = [gate \in Gates |-> [n \in Nodes |-> <<>>]]
    /\ imp = [n \in Nodes |-> <<>>]
    /\ crashed = {}
    /\ issued = [s \in Sources |-> 0]
    /\ migrations = 0 /\ timeouts = 0

Exists(g) == cells[g] # NoCell

-----------------------------------------------------------------------------
(* The gate takes the next rpc of process n from its queue and passes it   *)
(* on to the destination.                                                  *)
Forward(n, gate) ==
    /\ up[n][gate] # <<>>
    /\ up' = [up EXCEPT ![n][gate] = Tail(@)]
    /\ LET letter == Head(up[n][gate])
       IN  down' = [down EXCEPT ![gate][letter.dst] = Append(@, letter)]
    /\ UNCHANGED <<cells, mb, imp, crashed, issued, bounds>>

(* A network thread of process n decodes the next rpc.  The rpc inside a   *)
(* call_cell_entity is decoded by the cell: without one it stays null.     *)
Arrive(gate, n) ==
    /\ down[gate][n] # <<>> /\ n \notin crashed
    /\ down' = [down EXCEPT ![gate][n] = Tail(@)]
    /\ LET letter == Head(down[gate][n])
       IN  imp' = [imp EXCEPT ![n] = Append(@,
                    [letter |-> letter,
                     decoded |-> letter.to = "cell" => Exists(n)])]
    /\ UNCHANGED <<cells, mb, up, crashed, issued, bounds>>

(* The main thread of process n takes the next rpc, which is op for "to".  *)
Take(n, to, op) ==
    /\ imp[n] # <<>> /\ n \notin crashed
    /\ Head(imp[n]).letter.to = to /\ Head(imp[n]).letter.op = op
    /\ imp' = [imp EXCEPT ![n] = Tail(@)]

Arg(n) == Head(imp[n]).letter.arg

(* call_cell_entity finds the cell and its rpc. *)
TakeForCell(g, op) == Take(g, "cell", op) /\ Exists(g) /\ Head(imp[g]).decoded

CellOps == {"call", "ack", "finish"}

(* The cell is not, or no longer, here: the rpc is dropped. *)
NoSuchCell(g) ==
    /\ ~Exists(g)
    /\ \E op \in CellOps : Take(g, "cell", op)
    /\ UNCHANGED <<cells, mb, up, down, crashed, issued, bounds>>

(* The cell has been created between the decoding and the execution:       *)
(* call_cell_entity dereferences the null rpc_imp.                         *)
NullRpc(g) ==
    /\ Exists(g) /\ imp[g] # <<>> /\ ~Head(imp[g]).decoded
    /\ \E op \in CellOps : Take(g, "cell", op)
    /\ crashed' = crashed \cup {g}
    /\ UNCHANGED <<cells, mb, up, down, issued, bounds>>

-----------------------------------------------------------------------------
(* begin_migrate: an event of the entity calls it (avatar.cpp), or an rpc, *)
(* which needs no event.                                                   *)
BeginMigrate(g, newAddr) ==
    /\ migrations < MaxMigrations /\ g \notin crashed
    /\ Exists(g) /\ newAddr # g /\ cells[g].state = "None"
    /\ cells' = [cells EXCEPT ![g] = [@ EXCEPT !.state = "Prepare",
                                               !.timer = TRUE,
                                               !.newAddr = newAddr]]
    /\ up' = TellOwners(up, g, "migrate_req_from_cell")
    /\ migrations' = migrations + 1
    /\ UNCHANGED <<mb, down, imp, crashed, issued, timeouts>>

(* migrate_req_from_cell in the base or the client. *)
MigrateReqFromCell(s) ==
    /\ Take(At[s], s, "migrate_req_from_cell")
    /\ LET ack == [op |-> "ack", arg |-> s]
       IN  IF mb[s].caching
             THEN /\ mb' = [mb EXCEPT ![s].cache = Append(@, ack)]
                  /\ UNCHANGED up
             ELSE /\ mb' = [mb EXCEPT ![s].caching = TRUE]
                  /\ up' = Sent(up, At[s], SendRpc(s, mb[s].addr, ack))
    /\ UNCHANGED <<cells, down, crashed, issued, bounds>>

\* Variant: one acknowledgement is enough.
AckCompleteAny(c) == c.acks # {} /\ c.state = "Prepare"

\* Variant: the state is not advanced when the cell is sent.
SentAwayPrepared(c) == [c EXCEPT !.acks = {}, !.own = {}]

AckComplete(c) == c.acks = Sources /\ c.state = "Prepare"

(* migrate_reqack_from_base and _from_client, with the real_begin_migrate  *)
(* they end in: with the last acknowledgement the cell is serialised and   *)
(* sent through any gate; its timers, but migrate_check_timer, and its     *)
(* events are released, and the acknowledgements forgotten.                *)
SentAway(c) == [c EXCEPT !.state = "RealMigrate", !.acks = {}, !.own = {}]

MigrateReqack(g) ==
    /\ TakeForCell(g, "ack")
    /\ LET c == [cells[g] EXCEPT !.acks = @ \cup {Arg(g)}]
           packet == [oldAddr |-> g, applied |-> c.applied, own |-> c.own]
       IN  IF AckComplete(c)
             THEN /\ cells' = [cells EXCEPT ![g] = SentAway(c)]
                  /\ \E gate \in Gates :
                       up' = Sent(up, g, Letter(gate, c.newAddr, "game", "migrate", packet))
             ELSE cells' = [cells EXCEPT ![g] = c] /\ UNCHANGED up
    /\ UNCHANGED <<mb, down, crashed, issued, bounds>>

(* entity_property_migrate_from_oldcell on the new game: the new cell      *)
(* replaces whatever cell of the entity is there, tells the owners its     *)
(* address and the old cell to go.  A rollback tells the same of itself    *)
(* and of the new cell.                                                    *)
Announced(queues, g, other) ==
    Sent(TellOwners(queues, g, "new_cell_migrate_in"),
         g, NewMailBoxCall(g, other, "finish"))

MigrateFromOldCell(g) ==
    /\ Take(g, "game", "migrate")
    /\ LET packet == Arg(g)
       IN  /\ cells' = [cells EXCEPT ![g] = NewCell(packet.applied, packet.own)]
           /\ up' = Announced(up, g, packet.oldAddr)
    /\ UNCHANGED <<mb, down, crashed, issued, bounds>>

\* Variants: the cache is not emptied; the address is not changed.
StopCacheKeeps(box, addr) == [box EXCEPT !.addr = addr, !.caching = FALSE]
StopCacheThere(box, addr) == [box EXCEPT !.caching = FALSE, !.cache = <<>>]

(* new_cell_migrate_in in the base or the client, with stop_cache_rpc: the *)
(* cached rpcs are sent to the new address, the oldest first.              *)
StopCache(box, addr) == [addr |-> addr, caching |-> FALSE, cache |-> <<>>]

\* Variants: the youngest is sent first; none is sent (clear_cache_rpc).
FlushYoungestFirst(s, addr) ==
    LET rpcs == Reverse(mb[s].cache)
    IN  [i \in 1 .. Len(rpcs) |-> SendRpc(s, addr, rpcs[i])]
FlushNothing(s, addr) == <<>>

Flush(s, addr) ==
    [i \in 1 .. Len(mb[s].cache) |-> SendRpc(s, addr, mb[s].cache[i])]

NewCellMigrateIn(s) ==
    /\ Take(At[s], s, "new_cell_migrate_in")
    /\ LET addr == Arg(At[s])
       IN  /\ mb' = [mb EXCEPT ![s] = StopCache(@, addr)]
           /\ up' = [up EXCEPT ![At[s]][CellGate(s)] = @ \o Flush(s, addr)]
    /\ UNCHANGED <<cells, down, crashed, issued, bounds>>

(* on_new_cell_migrate_finish: destroy_self marks the cell. *)
NewCellMigrateFinish(g) ==
    /\ TakeForCell(g, "finish")
    /\ cells' = [cells EXCEPT ![g].dying = TRUE]
    /\ UNCHANGED <<mb, up, down, crashed, issued, bounds>>

(* entity_tick removes the marked cell after the rpcs of this tick ...     *)
DestroyCell(g) ==
    /\ Exists(g) /\ cells[g].dying /\ g \notin crashed
    /\ cells' = [cells EXCEPT ![g] = NoCell]
    /\ UNCHANGED <<mb, net, crashed, issued, bounds>>

(* ... and before that its timers fire.  migrate_check_timer rolls the     *)
(* migration back: the cell is in charge again, its timers restored but    *)
(* not its events, the owners are told, and so is a new cell, which is to  *)
(* destroy itself.                                                         *)
RolledBack(c) ==
    [c EXCEPT !.state = "None", !.timer = FALSE,
              !.own = IF c.state = "RealMigrate" THEN {"timers"} ELSE @]

\* Variant: a rollback before the packet is sent tells nobody.
RollbackToldLate(queues, g, c) ==
    IF c.state # "RealMigrate" THEN queues ELSE Announced(queues, g, c.newAddr)

RollbackTold(queues, g, c) ==
    CASE c.state = "None" -> queues
      [] c.state = "Prepare" -> TellOwners(queues, g, "new_cell_migrate_in")
      [] c.state = "RealMigrate" -> Announced(queues, g, c.newAddr)

MigrateCheckTimer(g) ==
    /\ timeouts < MaxTimeouts /\ g \notin crashed
    /\ Exists(g) /\ cells[g].timer
    /\ timeouts' = timeouts + 1
    /\ LET c == cells[g]
       IN  /\ cells' = [cells EXCEPT ![g] =
                          IF c.dying THEN NoCell ELSE RolledBack(c)]
           /\ up' = RollbackTold(up, g, c)
    /\ UNCHANGED <<mb, down, imp, crashed, issued, migrations>>

-----------------------------------------------------------------------------
(* Gameplay: an owner calls its n-th rpc of the cell ...                   *)
CallCell(s) ==
    /\ issued[s] < MaxCalls[s] /\ At[s] \notin crashed
    /\ issued' = [issued EXCEPT ![s] = @ + 1]
    /\ Call(s, [op |-> "call", arg |-> <<s, issued[s] + 1>>])
    /\ UNCHANGED <<cells, down, imp, crashed, bounds>>

(* ... and the cell executes it, whatever state its migration is in.       *)
ExecCall(g) ==
    /\ TakeForCell(g, "call")
    /\ cells' = [cells EXCEPT ![g].applied[Arg(g)[1]] = Append(@, Arg(g)[2])]
    /\ UNCHANGED <<mb, up, down, crashed, issued, bounds>>

-----------------------------------------------------------------------------
CellStep(g) ==
    \/ NoSuchCell(g) \/ NullRpc(g)
    \/ MigrateReqack(g) \/ NewCellMigrateFinish(g) \/ ExecCall(g)
    \/ MigrateFromOldCell(g)

OwnerStep(s) == MigrateReqFromCell(s) \/ NewCellMigrateIn(s)

(* The main thread of process n empties its queue. *)
RpcImpInputTick(n) ==
    \/ n \in Games /\ CellStep(n)
    \/ \E s \in Sources : At[s] = n /\ OwnerStep(s)

Transport ==
    \/ \E n \in Nodes, gate \in Gates : Forward(n, gate)
    \/ \E n \in Nodes, gate \in Gates : Arrive(gate, n)

Next ==
    \/ Transport
    \/ \E g \in Games : CellStep(g) \/ DestroyCell(g) \/ MigrateCheckTimer(g)
    \/ \E g, newAddr \in Games : BeginMigrate(g, newAddr)
    \/ \E s \in Sources : OwnerStep(s) \/ CallCell(s)

Spec == Init /\ [][Next]_vars

(* Gates and connections keep moving, and every process keeps ticking.     *)
(* Nothing obliges gameplay to call or to migrate, or a timer to be late.  *)
(* Every gate relays; as what is under way is finite it is enough that not *)
(* all of them stop.                                                       *)
Fairness ==
    /\ WF_vars(Transport)
    /\ \A n \in Nodes : WF_vars(RpcImpInputTick(n))
    /\ \A g \in Games : WF_vars(DestroyCell(g))

FairSpec == Spec /\ Fairness

-----------------------------------------------------------------------------
InNetwork ==
    (UNION {ToSet(up[n][gate]) : n \in Nodes, gate \in Gates})
    \cup (UNION {ToSet(down[gate][n]) : n \in Nodes, gate \in Gates})
    \cup {entry.letter : entry \in UNION {ToSet(imp[n]) : n \in Nodes}}

Packets == {letter \in InNetwork : letter.op = "migrate"}

(* The games with a cell that is in charge, and those with one that has    *)
(* been serialised and sent away.                                          *)
Live == {g \in Games : Exists(g) /\ cells[g].state # "RealMigrate"}
Frozen == {g \in Games : Exists(g) /\ cells[g].state = "RealMigrate"}

\* A call: its caller, and its number.
Calls == UNION {{s} \X (1 .. MaxCalls[s]) : s \in Sources}

IsCellRpc(op, arg) ==
    \/ op = "call" /\ arg \in Calls
    \/ op = "ack" /\ arg \in Sources
    \/ op = "finish" /\ arg \in Games

IsPacket(p) ==
    /\ p.oldAddr \in Games /\ p.own \subseteq Belongings
    /\ p.applied \in [Sources -> Seq(Nat)]

IsLetter(l) ==
    /\ l.via \in Gates /\ l.dst \in Nodes
    /\ \/ l.to = "cell" /\ IsCellRpc(l.op, l.arg)
       \/ l.to = "game" /\ l.op = "migrate" /\ IsPacket(l.arg)
       \/ /\ l.to \in Sources /\ l.arg \in Games
          /\ l.op \in {"migrate_req_from_cell", "new_cell_migrate_in"}

TypeOK ==
    /\ cells \in [Games -> CellType \cup {NoCell}]
    /\ \A s \in Sources :
          /\ mb[s].addr \in Games /\ mb[s].caching \in BOOLEAN
          /\ \A rpc \in ToSet(mb[s].cache) : IsCellRpc(rpc.op, rpc.arg)
          /\ ~mb[s].caching => mb[s].cache = <<>>
    /\ \A letter \in InNetwork : IsLetter(letter)
    /\ crashed \subseteq Games
    /\ issued \in [Sources -> Nat] /\ \A s \in Sources : issued[s] <= MaxCalls[s]
    /\ migrations \in 0 .. MaxMigrations /\ timeouts \in 0 .. MaxTimeouts

(* The entity is in charge of itself in exactly one place: one cell that   *)
(* has not been sent away, or one packet under way; only a cell that has   *)
(* been sent away is ever destroyed.                                       *)
OneAuthority ==
    /\ Cardinality(Live) + Cardinality(Packets) = 1
    /\ \A g \in Live : ~cells[g].dying

(* README.md, migration: base and client cache what they would send to the *)
(* old cell until the new one is there.  While the packet is under way     *)
(* every owner is caching and none of its rpcs is still on its way to a    *)
(* cell, so that nothing reaches a cell that has been sent away.           *)
OwnersCache ==
    Packets # {} =>
        /\ \A s \in Sources : mb[s].caching
        /\ \A letter \in InNetwork : letter.op # "call"

(* An owner that is not caching has the address of the cell in charge.     *)
MailBoxSound ==
    \A s \in Sources : ~mb[s].caching => mb[s].addr \in Live

(* A cell that has been sent away executes no gameplay rpc: the state it   *)
(* would change is not the entity's any more.                              *)
FrozenUntouched ==
    [][\A g \in Frozen \cap Frozen' : cells'[g].applied = cells[g].applied]_vars

(* No process executes an rpc that its network thread could not decode.    *)
NoNullRpc == crashed = {}

(* Every cell has executed the rpcs of each owner in the order of the      *)
(* calls and none twice, also when a migration is rolled back.             *)
NoRepeat ==
    \A g \in Games : Exists(g) =>
        \A s \in Sources : \A i, j \in DOMAIN cells[g].applied[s] :
            i < j => cells[g].applied[s][i] < cells[g].applied[s][j]

(* What the entity has executed, wherever it is. *)
Applied(s) ==
    IF Live # {} THEN cells[CHOOSE g \in Live : TRUE].applied[s]
                 ELSE (CHOOSE letter \in Packets : TRUE).arg.applied[s]

(* Seen from one owner the cell is one entity behind a reliable, ordered   *)
(* channel, however often it migrates: nothing is lost, reordered or       *)
(* executed twice, and everything called is executed eventually.           *)
Issued(s) == [i \in 1 .. issued[s] |-> i]

BaseChannel ==
    INSTANCE RpcChannel WITH Rpcs <- 1 .. MaxCalls["base"],
                             accepted <- Issued("base"),
                             delivered <- Applied("base"), up <- TRUE
ClientChannel ==
    INSTANCE RpcChannel WITH Rpcs <- 1 .. MaxCalls["client"],
                             accepted <- Issued("client"),
                             delivered <- Applied("client"), up <- TRUE

TransparentToBase == BaseChannel!FairSpec
TransparentToClient == ClientChannel!FairSpec

(* A migration that begins comes to its end: the cell is gone, or in       *)
(* charge again.                                                           *)
MigrationEnds ==
    \A g \in Games :
        (Exists(g) /\ cells[g].state # "None")
            ~> (~Exists(g) \/ cells[g].state = "None")

(* No owner caches for ever, also when a migration is rolled back. *)
CachesDrain == \A s \in Sources : mb[s].caching ~> ~mb[s].caching

(* entity.cpp, migrate_failed_rollback: the new cell is told to destroy    *)
(* itself because the old one takes over again.  One of them, or the       *)
(* packet, remains.                                                        *)
CellSurvives == Live \cup Frozen # {} \/ Packets # {}
=============================================================================
