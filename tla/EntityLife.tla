----------------------------- MODULE EntityLife -----------------------------
(***************************************************************************)
(* Creation, destruction and reconnection of an entity of the type         *)
(* BaseWithCellAndClient (README.md, 505-521 and 549-552; engine/          *)
(* entity.cpp, game/framework/game_rpc.cpp, gate/framework/gate_rpc.cpp,   *)
(* client/framework/client_rpc.cpp).  A client asks for the entity of its  *)
(* uuid.  A game that does not have it loads a base from the database, the *)
(* base has a cell created in another game and then its client; the client *)
(* being there, base, cell and client are told in this order that the      *)
(* entity is ready.  A game that has the base already takes the client for *)
(* one that reconnects.  What is not ready in 10 seconds destroys itself   *)
(* and tells the others; what has no counterpart any more does so after a  *)
(* minute (heart_beat_timer).                                              *)
(*                                                                         *)
(* Every process runs and every gate; clients come once and may go at any  *)
(* moment.  Rpcs between two processes pass the gate their addresses fix,  *)
(* so they keep their order, and gates relay them without further ado;     *)
(* create_entity and create_cell_entity go through random ones.            *)
(***************************************************************************)
EXTENDS Naturals, Sequences, SequencesExt

CONSTANTS Games,
          MaxClients,   \* bound: clients, each of which comes once
          Loads,        \* bound: the games get_rand_remote returns for
                        \* create_entity
          Nobody        \* no address

Clients == 1 .. MaxClients      \* in the order in which they come

ASSUME ProcessesAssumption ==
    /\ MaxClients \in Nat /\ Games \cap Clients = {}
    /\ Loads \subseteq Games /\ Nobody \notin Games \cup Clients

VARIABLES base,      \* base[g]: the base in g_base_entities of game g
          cell,      \* cell[g]: the cell in g_cell_entities of game g
          client,    \* client[c]: the client entity of client c
          conn,      \* conn[c]: the connection of client c
          net,       \* net[<<p, q>>]: rpcs from process p to process q
          orders,    \* create_entity and create_cell_entity under way
          lives,     \* how many times a base has been loaded
          kicked,    \* the clients that have been told on_kick
          missed,    \* those whose on_kick came when they had no entity
          log,       \* log[l]: the stages life l has reached, in order
          crossed    \* an rpc of one life was executed by an entity of another

tables == <<base, cell, client>>
vars == <<tables, conn, net, orders, lives, kicked, missed, log, crossed>>

Lives == 1 .. MaxClients        \* a client makes one attempt
Procs == Games \cup Clients
Links == {l \in Procs \X Procs : l[1] \in Games \/ l[2] \in Games}

\* An entity that is not there, and one that is.  addr: the address of the
\* cell in a base's mailbox, of the base in the others'; owner: the client;
\* doomed: need_destroy; check: it has a ready_check_timer.
None == [there |-> FALSE, ready |-> FALSE, life |-> 0]
Entity(life, addr, owner) ==
    [there |-> TRUE, life |-> life, addr |-> addr, owner |-> owner,
     ready |-> FALSE, doomed |-> FALSE, check |-> TRUE]
Entities == [there : {TRUE}, life : Lives, addr : Games \cup {Nobody},
             owner : Clients, ready : BOOLEAN, doomed : BOOLEAN, check : BOOLEAN]

\* to: "base", "cell" or "client"; who: the address that is its argument.
Rpc(to, name, life, who) == [to |-> to, name |-> name, life |-> life, who |-> who]
Names == {"create", "create_onreconnect", "on_cell_create", "ready",
          "on_reconnect_fromclient", "on_client_reconnect_success",
          "on_kick", "destroy_self"}
Rpcs == [to : {"base", "cell", "client"}, name : Names, life : Lives, who : Procs]
Orders == [name : {"entity"}, owner : Clients]
          \cup [name : {"cell"}, owner : Clients, base : Games, life : Lives]

Stages == <<"base", "cell", "client", "baseReady", "cellReady", "clientReady">>

TypeOK ==
    /\ base \in [Games -> Entities \cup {None}]
    /\ cell \in [Games -> Entities \cup {None}]
    /\ client \in [Clients -> Entities \cup {None}]
    /\ conn \in [Clients -> {"new", "on", "gone"}]
    /\ net \in [Links -> Seq(Rpcs)]
    /\ orders \subseteq Orders
    /\ lives \in 0 .. MaxClients
    /\ kicked \subseteq Clients /\ missed \subseteq Clients
    /\ log \in [Lives -> Seq(Range(Stages))]
    /\ crossed \in BOOLEAN

Init ==
    /\ base = [g \in Games |-> None] /\ cell = [g \in Games |-> None]
    /\ client = [c \in Clients |-> None]
    /\ conn = [c \in Clients |-> "new"]
    /\ net = [l \in Links |-> <<>>]
    /\ orders = {} /\ lives = 0 /\ kicked = {} /\ missed = {}
    /\ log = [l \in Lives |-> <<>>]
    /\ crossed = FALSE

\* The rpcs of q and m, from p to process d; a gate drops what is for a
\* client that has gone, a mailbox without address sends nothing.
Send(q, p, d, m) ==
    IF d = Nobody \/ (d \in Clients /\ conn[d] # "on") THEN q
    ELSE [q EXCEPT ![<<p, d>>] = Append(@, m)]

\* What an observer notes: nothing, or that life l has reached stage s.  Once
\* crossed, nobody asks any more.
Kept == IF crossed' THEN [l \in Lives |-> <<>>] ELSE log
Noted(l, s) == IF crossed' \/ s \in Range(log[l]) THEN Kept
               ELSE [log EXCEPT ![l] = Append(@, s)]

-----------------------------------------------------------------------------
(* Clients. *)

(* A client has connected and asks for the entity. *)
Connect(c) ==
    /\ conn[c] = "new" /\ \A d \in 1 .. c - 1 : conn[d] # "new"
    /\ conn' = [conn EXCEPT ![c] = "on"]
    /\ orders' = orders \cup {[name |-> "entity", owner |-> c]}
    /\ UNCHANGED <<tables, net, lives, kicked, missed, log, crossed>>

(* It goes, with its entity; what it has sent last may not arrive. *)
Disconnect(c) ==
    /\ conn[c] = "on"
    /\ conn' = [conn EXCEPT ![c] = "gone"]
    /\ client' = [client EXCEPT ![c] = None]
    /\ \E lost \in SUBSET {g \in Games : net[<<c, g>>] # <<>>} :
          net' = [l \in Links |-> IF l[2] = c \/ (l[1] = c /\ l[2] \in lost)
                                  THEN <<>> ELSE net[l]]
    /\ UNCHANGED <<base, cell, orders, lives, kicked, missed, log, crossed>>

-----------------------------------------------------------------------------
(* create_entity and create_cell_entity in a game. *)

(* create_base_entity_fromdb and on_create of the base. *)
CreateBase(g, c) ==
    /\ ~base[g].there
    /\ lives' = lives + 1
    /\ base' = [base EXCEPT ![g] = Entity(lives + 1, Nobody, c)]
    /\ orders' = (orders \ {[name |-> "entity", owner |-> c]})
          \cup {[name |-> "cell", owner |-> c, base |-> g, life |-> lives + 1]}
    /\ log' = Noted(lives + 1, "base")
    /\ UNCHANGED <<cell, client, net>>

(* entity_reconnect_fromclient: kick the old client, take the new one, *)
(* tell the cell.                                                      *)
Reconnect(g, c) ==
    LET b == base[g]
        kick == Send(net, g, b.owner, Rpc("client", "on_kick", b.life, g))
    IN  /\ b.there /\ b.ready
        /\ base' = [base EXCEPT ![g].owner = c]
        /\ net' = Send(kick, g, b.addr,
                       Rpc("cell", "on_reconnect_fromclient", b.life, c))
        /\ orders' = orders \ {[name |-> "entity", owner |-> c]}
        /\ UNCHANGED <<cell, client, lives, log>>

(* A base that is not ready yet: nothing happens. *)
NotYet(g, c) ==
    /\ base[g].there /\ ~base[g].ready
    /\ orders' = orders \ {[name |-> "entity", owner |-> c]}
    /\ UNCHANGED <<base, cell, client, net, lives, log>>

CreateEntity(g, c) ==
    /\ [name |-> "entity", owner |-> c] \in orders
    /\ UNCHANGED <<conn, kicked, missed, crossed>>
    /\ CreateBase(g, c) \/ Reconnect(g, c) \/ NotYet(g, c)

\* get_rand_remote_exclude: any game but a, and a if there is no other.
RandRemoteExclude(a) == IF Games = {a} THEN Games ELSE Games \ {a}

\* Variant: the client's address is taken for the cell's.
CreateCellSwapped(g) ==
    \E o \in orders :
       /\ o.name = "cell" /\ g \in RandRemoteExclude(o.base)
       /\ cell' = [cell EXCEPT ![g] = Entity(o.life, o.base, o.owner)]
       /\ net' = Send(net, g, o.base, Rpc("base", "on_cell_create", o.life, o.owner))
       /\ orders' = orders \ {o}
       /\ UNCHANGED <<base, client, conn, lives, kicked, missed, crossed>>
       /\ log' = Noted(o.life, "cell")

(* create_local_cell_entity, which replaces a cell that is there, and *)
(* on_create: tell the base.  The gate picks a random game.           *)
CreateCell(g) ==
    \E o \in orders :
       /\ o.name = "cell" /\ g \in RandRemoteExclude(o.base)
       /\ cell' = [cell EXCEPT ![g] = Entity(o.life, o.base, o.owner)]
       /\ net' = Send(net, g, o.base, Rpc("base", "on_cell_create", o.life, g))
       /\ orders' = orders \ {o}
       /\ UNCHANGED <<base, client, conn, lives, kicked, missed, crossed>>
       /\ log' = Noted(o.life, "cell")

-----------------------------------------------------------------------------
(* A base in game g executes rpc m; q is the network without m. *)

\* Variant: the cell is enough to be ready.
OnCellCreateReady(g, m, q) ==
    /\ m.name = "on_cell_create"
    /\ base' = [base EXCEPT ![g].addr = m.who, ![g].ready = TRUE]
    /\ net' = Send(Send(q, g, base[g].owner, Rpc("client", "create", base[g].life, g)),
                   g, m.who, Rpc("cell", "ready", base[g].life, g))
    /\ log' = Noted(base[g].life, "baseReady")

(* on_cell_create: have the client created. *)
OnCellCreate(g, m, q) ==
    /\ m.name = "on_cell_create"
    /\ base' = [base EXCEPT ![g].addr = m.who]
    /\ net' = Send(q, g, base[g].owner, Rpc("client", "create", base[g].life, g))
    /\ log' = Kept

(* ready; on_client_reconnect_success is the same as long as the base is *)
(* not ready.                                                            *)
BaseReady(g, m, q) ==
    /\ m.name \in {"ready", "on_client_reconnect_success"} /\ ~base[g].ready
    /\ base' = [base EXCEPT ![g].ready = TRUE]
    /\ net' = Send(q, g, base[g].addr, Rpc("cell", "ready", base[g].life, g))
    /\ log' = Noted(base[g].life, "baseReady")

OnClientReconnectSuccess(g, m, q) ==
    /\ m.name \in {"ready", "on_client_reconnect_success"} /\ base[g].ready
    /\ net' = IF m.name = "ready" THEN q
              ELSE Send(q, g, base[g].addr, Rpc("cell", m.name, base[g].life, g))
    /\ UNCHANGED base
    /\ log' = Kept

ExecBase(g, m, q) ==
    /\ m.to = "base" /\ base[g].there
    /\ \/ OnCellCreate(g, m, q) \/ BaseReady(g, m, q)
       \/ OnClientReconnectSuccess(g, m, q)
       \/ /\ m.name = "destroy_self"
          /\ base' = [base EXCEPT ![g].doomed = TRUE]
          /\ net' = q /\ log' = Kept
    /\ UNCHANGED <<cell, client, kicked>>

-----------------------------------------------------------------------------
(* A cell. *)

\* Variant: the old client stays in the mailbox.
OnReconnectKeepsOld(g, m, q) ==
    /\ m.name = "on_reconnect_fromclient"
    /\ net' = Send(q, g, m.who, Rpc("client", "create_onreconnect", cell[g].life, cell[g].addr))
    /\ UNCHANGED cell
    /\ log' = Kept

(* on_reconnect_fromclient: have the new client created. *)
OnReconnectFromClient(g, m, q) ==
    /\ m.name = "on_reconnect_fromclient"
    /\ cell' = [cell EXCEPT ![g].owner = m.who]
    /\ net' = Send(q, g, m.who, Rpc("client", "create_onreconnect", cell[g].life, cell[g].addr))
    /\ log' = Kept

(* ready, and on_client_reconnect_success: tell the client. *)
CellReady(g, m, q) ==
    /\ m.name \in {"ready", "on_client_reconnect_success"}
    /\ cell' = [cell EXCEPT ![g].ready = @ \/ m.name = "ready"]
    /\ net' = Send(q, g, cell[g].owner, Rpc("client", "ready", cell[g].life, g))
    /\ log' = IF m.name = "ready" THEN Noted(cell[g].life, "cellReady") ELSE Kept

ExecCell(g, m, q) ==
    /\ m.to = "cell" /\ cell[g].there
    /\ \/ OnReconnectFromClient(g, m, q) \/ CellReady(g, m, q)
       \/ /\ m.name = "destroy_self"
          /\ cell' = [cell EXCEPT ![g].doomed = TRUE]
          /\ net' = q /\ log' = Kept
    /\ UNCHANGED <<base, client, kicked>>

-----------------------------------------------------------------------------
(* A client. *)

(* create_client_entity and create_client_entity_onreconnect: a new entity *)
(* takes the place of one that is there; the latter does not go through    *)
(* Entity::on_create, which makes the timers.                              *)
CreateClient(c, m, q) ==
    /\ m.name \in {"create", "create_onreconnect"}
    /\ client' = [client EXCEPT ![c] =
          [Entity(m.life, m.who, c) EXCEPT !.check = (m.name = "create")]]
    /\ net' = Send(q, c, m.who,
                   Rpc("base", IF m.name = "create" THEN "ready"
                               ELSE "on_client_reconnect_success", m.life, c))
    /\ log' = Noted(m.life, "client")
    /\ UNCHANGED kicked

CallClient(c, m, q) ==
    /\ client[c].there /\ m.name \in {"ready", "on_kick", "destroy_self"}
    /\ client' = CASE m.name = "ready" -> [client EXCEPT ![c].ready = TRUE]
                   [] m.name = "on_kick" -> client
                   [] OTHER -> [client EXCEPT ![c].doomed = TRUE]
    /\ kicked' = IF m.name = "on_kick" THEN kicked \cup {c} ELSE kicked
    /\ log' = IF m.name = "ready" THEN Noted(client[c].life, "clientReady") ELSE Kept
    /\ net' = q

ExecClient(c, m, q) ==
    /\ m.to = "client"
    /\ CreateClient(c, m, q) \/ CallClient(c, m, q)
    /\ UNCHANGED <<base, cell>>

-----------------------------------------------------------------------------
\* The entity in process p an rpc is for.
Addressed(p, to) == CASE to = "base" -> base[p]
                      [] to = "cell" -> cell[p]
                      [] OTHER -> client[p]
Creates(m) == m.name \in {"create", "create_onreconnect"}

(* The main thread of process p executes the next rpc that has come from *)
(* process s; there may be no entity for it.                             *)
Exec(s, p) ==
    /\ net[<<s, p>>] # <<>>
    /\ LET m == Head(net[<<s, p>>])
           q == [net EXCEPT ![<<s, p>>] = Tail(@)]
           e == Addressed(p, m.to)
       IN  /\ crossed' = (crossed \/ (e.there /\ ~Creates(m) /\ e.life # m.life))
           /\ \/ p \in Games /\ (ExecBase(p, m, q) \/ ExecCell(p, m, q))
              \/ p \in Clients /\ ExecClient(p, m, q)
              \/ /\ ~e.there /\ ~Creates(m)
                 /\ net' = q /\ log' = Kept
                 /\ UNCHANGED <<tables, kicked>>
           /\ missed' = IF p \in Clients /\ ~e.there /\ m.name = "on_kick"
                        THEN missed \cup {p} ELSE missed
    /\ UNCHANGED <<conn, orders, lives>>

(* entity_tick: what has been told to destroy itself is destroyed. *)
Tick(p) ==
    /\ base' = [base EXCEPT ![p] = IF @.there /\ @.doomed THEN None ELSE @]
    /\ cell' = [cell EXCEPT ![p] = IF @.there /\ @.doomed THEN None ELSE @]
    /\ <<base, cell>>' # <<base, cell>>
    /\ UNCHANGED <<client, conn, net, orders, lives, kicked, missed, log, crossed>>

ClientTick(c) ==
    /\ client[c].there /\ client[c].doomed
    /\ client' = [client EXCEPT ![c] = None]
    /\ UNCHANGED <<base, cell, conn, net, orders, lives, kicked, missed, log, crossed>>

(* ready_check_timer, 10 seconds after on_create, and the rest of the *)
(* entity_tick that fires it.                                         *)
BaseReadyCheck(g) ==
    LET b == base[g]
    IN  /\ b.there /\ ~b.ready
        /\ base' = [base EXCEPT ![g] = None]
        /\ net' = Send(Send(net, g, b.addr, Rpc("cell", "destroy_self", b.life, g)),
                       g, b.owner, Rpc("client", "destroy_self", b.life, g))
        /\ UNCHANGED <<cell, client, conn, orders, lives, kicked, missed, log, crossed>>

CellReadyCheck(g) ==
    LET e == cell[g]
    IN  /\ e.there /\ ~e.ready
        /\ cell' = [cell EXCEPT ![g] = None]
        /\ net' = Send(Send(net, g, e.addr, Rpc("base", "destroy_self", e.life, g)),
                       g, e.owner, Rpc("client", "destroy_self", e.life, g))
        /\ UNCHANGED <<base, client, conn, orders, lives, kicked, missed, log, crossed>>

ClientReadyCheck(c) ==
    /\ client[c].there /\ ~client[c].ready /\ client[c].check
    /\ client' = [client EXCEPT ![c] = None]
    /\ UNCHANGED <<base, cell, conn, net, orders, lives, kicked, missed, log, crossed>>

\* Variant: only the base has this timer.
LoseTouchBase(g) ==
    /\ base[g].ready /\ ~\E h \in Games : cell[h].there /\ cell[h].addr = g
    /\ base' = [base EXCEPT ![g] = None]
    /\ UNCHANGED <<cell, client, conn, net, orders, lives, kicked, missed, log, crossed>>

(* heart_beat_timer of a base or cell that is ready, when nobody has sent *)
(* it a respect_from_... for a minute.                                    *)
LoseTouch(g) ==
    /\ \/ /\ base[g].ready /\ ~\E h \in Games : cell[h].there /\ cell[h].addr = g
          /\ base' = [base EXCEPT ![g] = None]
          /\ UNCHANGED cell
       \/ /\ cell[g].ready /\ ~\E h \in Games : base[h].there /\ base[h].addr = g
          /\ cell' = [cell EXCEPT ![g] = None]
          /\ UNCHANGED base
    /\ UNCHANGED <<client, conn, net, orders, lives, kicked, missed, log, crossed>>

-----------------------------------------------------------------------------
Progress ==
    \/ \E g \in Loads, c \in Clients : CreateEntity(g, c)
    \/ \E l \in Links : Exec(l[1], l[2])
    \/ \E g \in Games : \/ CreateCell(g) \/ Tick(g) \/ BaseReadyCheck(g) \/ CellReadyCheck(g)
                        \/ LoseTouch(g)
    \/ \E c \in Clients : ClientTick(c) \/ ClientReadyCheck(c)

Next == Progress \/ \E c \in Clients : Connect(c) \/ Disconnect(c)

Spec == Init /\ [][Next]_vars

(* Games and clients execute what they receive and their timers fire: each *)
(* does in the end, but here it is enough that not all of them stop.       *)
FairSpec == Spec /\ WF_<<tables, net, orders>>(Progress)

-----------------------------------------------------------------------------
(* README.md, 513-521: whatever happens, the entity is created and told    *)
(* that it is ready in the order base, cell, client; base, cell, client.   *)
InStages == ~crossed => \A l \in Lives : IsPrefix(log[l], Stages)

Quiet ==
    /\ orders = {} /\ \A l \in Links : net[l] = <<>>
    /\ \A g \in Games : ~(base[g].there /\ base[g].doomed)
                        /\ ~(cell[g].there /\ cell[g].doomed)

Linked(g) == base[g].there /\ base[g].addr \in Games
             /\ cell[base[g].addr].there /\ cell[base[g].addr].addr = g

(* README.md, 549-550: when a reconnection is through, base and cell have  *)
(* the same client in their mailboxes, it has been told that the entity is *)
(* ready, and every other client that has the entity has been told to go,  *)
(* unless the kick came before it had the entity and was lost.             *)
Handover ==
    Quiet /\ ~crossed =>
       \A g \in Games : Linked(g) /\ base[g].ready =>
          /\ cell[base[g].addr].owner = base[g].owner
          /\ \A c \in Clients : client[c].there /\ client[c].life = base[g].life =>
                IF c = base[g].owner THEN client[c].ready ELSE c \in kicked \cup missed

(* No half of an entity is left alone: however creation and destruction    *)
(* cross, in the end each base and each cell is ready and has the other.   *)
NoHalf ==
    <>[](\A g \in Games :
           /\ base[g].there => base[g].ready /\ Linked(g)
           /\ cell[g].there => /\ cell[g].ready /\ cell[g].addr \in Games
                               /\ base[cell[g].addr].there
                               /\ base[cell[g].addr].addr = g)

(* README.md, 549-550: a new client's coming is announced to the old one. *)
OldClientTold ==
    Quiet => \A c, d \in Clients :
                client[c].ready /\ client[d].ready /\ c # d => {c, d} \cap kicked # {}
=============================================================================
