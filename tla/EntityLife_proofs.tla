-------------------------- MODULE EntityLife_proofs --------------------------
(***************************************************************************)
(* Proofs about EntityLife for every set of games, every number of clients *)
(* and every set of games that may load the entity: type correctness, that *)
(* the stages of a life are reached in their order, and that a             *)
(* reconnection hands the entity over.                                     *)
(***************************************************************************)
EXTENDS EntityLife, FiniteSetTheorems, SequenceTheorems, TLAPS

-----------------------------------------------------------------------------
(* Type correctness. *)

(* What an rpc's argument is depends on its name. *)
Letters ==
    {m \in Rpcs :
        /\ m.name \in {"on_cell_create", "create", "create_onreconnect"} => m.who \in Games
        /\ m.name = "on_reconnect_fromclient" => m.who \in Clients}

(* The clients whose request a game has dealt with: each can have loaded *)
(* one base.                                                             *)
Served == {c \in Clients :
             conn[c] # "new" /\ [name |-> "entity", owner |-> c] \notin orders}

Tables ==
    /\ base \in [Games -> Entities \cup {None}]
    /\ cell \in [Games -> Entities \cup {None}]
    /\ client \in [Clients -> Entities \cup {None}]
    /\ \A g \in Games : cell[g].there => cell[g].addr \in Games

Counting ==
    /\ conn \in [Clients -> {"new", "on", "gone"}]
    /\ orders \subseteq Orders
    /\ \A c \in Clients :
          [name |-> "entity", owner |-> c] \in orders => conn[c] # "new"
    /\ lives \in 0 .. MaxClients /\ lives <= Cardinality(Served)

Notes ==
    /\ kicked \subseteq Clients /\ missed \subseteq Clients /\ crossed \in BOOLEAN
    /\ log \in [Lives -> Seq(Range(Stages))]

Sent == net \in [Links -> Seq(Letters)]

TypeInv == Tables /\ Counting /\ Notes /\ Sent

LEMMA StageNames ==
    /\ Range(Stages) = {"base", "cell", "client", "baseReady", "cellReady", "clientReady"}
    /\ Len(Stages) = 6
<1>1. DOMAIN Stages = 1 .. 6
    BY DEF Stages
<1>2. Range(Stages) = {Stages[i] : i \in 1 .. 6}
    BY <1>1, Zenon DEF Range
<1>3. \A x : (\E i \in 1 .. 6 : Stages[i] = x) <=>
             x \in {"base", "cell", "client", "baseReady", "cellReady", "clientReady"}
    BY DEF Stages
<1>4. Range(Stages) = {"base", "cell", "client", "baseReady", "cellReady", "clientReady"}
    BY <1>2, <1>3
<1>5. Len(Stages) = 6
    BY DEF Stages
<1> QED BY <1>4, <1>5

(* A sent rpc is appended to one queue, or to none. *)
LEMMA SendAt ==
    ASSUME NEW q \in [Links -> Seq(Letters)], NEW p, NEW d, NEW m \in Letters
    PROVE  /\ Send(q, p, d, m) \in [Links -> Seq(Letters)]
           /\ \A l \in Links :
                 \/ Send(q, p, d, m)[l] = q[l]
                 \/ l = <<p, d>> /\ Send(q, p, d, m)[l] = Append(q[l], m)
<1> DEFINE k == <<p, d>>
           e == [q EXCEPT ![k] = Append(@, m)]
<1>1. Send(q, p, d, m) \in {q, e}
    BY DEF Send
<1>2. \A l \in Links : e[l] = IF l = k THEN Append(q[l], m) ELSE q[l]
  <2> HIDE DEF k
  <2> QED OBVIOUS
<1>3. e \in [Links -> Seq(Letters)]
  <2> HIDE DEF k
  <2>1. k \in Links => Append(q[k], m) \in Seq(Letters)
      OBVIOUS
  <2> QED BY <2>1
<1> HIDE DEF e
<1> QED BY <1>1, <1>2, <1>3

(* The observer's notes are sequences of stages. *)
LEMMA NotedType ==
    ASSUME log \in [Lives -> Seq(Range(Stages))], NEW l \in Lives, NEW s \in Range(Stages)
    PROVE  /\ Kept \in [Lives -> Seq(Range(Stages))]
           /\ Noted(l, s) \in [Lives -> Seq(Range(Stages))]
<1> DEFINE S == Range(Stages)
<1>1. log \in [Lives -> Seq(S)] /\ s \in S
    OBVIOUS
<1>2. Kept \in [Lives -> Seq(S)]
    <2> HIDE DEF S
    <2> QED BY <1>1 DEF Kept
<1>3. Noted(l, s) \in [Lives -> Seq(S)]
    <2> HIDE DEF S
    <2> QED BY <1>1, <1>2 DEF Noted
<1> QED BY <1>2, <1>3

LEMMA TypeInvImplies == TypeInv => TypeOK
<1> SUFFICES ASSUME TypeInv PROVE TypeOK
    OBVIOUS
<1>1. Letters \subseteq Rpcs
    BY DEF Letters
<1>2. net \in [Links -> Seq(Rpcs)]
    BY <1>1 DEF TypeInv, Sent
<1> QED BY <1>2 DEF TypeInv, Tables, Counting, Notes, TypeOK

(* What is known of an entity that is there. *)
LEMMA ThereIs ==
    ASSUME TypeInv
    PROVE  /\ \A g \in Games : base[g].there =>
                 /\ base[g] \in Entities /\ base[g].life \in Lives
                 /\ base[g].addr \in Games \cup {Nobody} /\ base[g].owner \in Clients
           /\ \A g \in Games : cell[g].there =>
                 /\ cell[g] \in Entities /\ cell[g].life \in Lives
                 /\ cell[g].addr \in Games /\ cell[g].owner \in Clients
           /\ \A c \in Clients : client[c].there =>
                 client[c] \in Entities /\ client[c].life \in Lives
<1>1. \A e \in Entities \cup {None} : e.there =>
         /\ e \in Entities /\ e.life \in Lives
         /\ e.addr \in Games \cup {Nobody} /\ e.owner \in Clients
  <2>1. \A e \in Entities : e.life \in Lives
                          /\ e.addr \in Games \cup {Nobody} /\ e.owner \in Clients
      BY DEF Entities
  <2>2. ~None.there
      BY DEF None
  <2> QED BY <2>1, <2>2
<1>2. \A g \in Games : base[g] \in Entities \cup {None} /\ cell[g] \in Entities \cup {None}
                       /\ (cell[g].there => cell[g].addr \in Games)
    BY DEF TypeInv, Tables
<1>3. \A c \in Clients : client[c] \in Entities \cup {None}
    BY DEF TypeInv, Tables
<1> HIDE DEF Entities, None
<1>4. \A g \in Games : base[g].there =>
         /\ base[g] \in Entities /\ base[g].life \in Lives
         /\ base[g].addr \in Games \cup {Nobody} /\ base[g].owner \in Clients
    BY <1>1, <1>2
<1>5. \A g \in Games : cell[g].there =>
         /\ cell[g] \in Entities /\ cell[g].life \in Lives
         /\ cell[g].addr \in Games /\ cell[g].owner \in Clients
    BY <1>1, <1>2
<1>6. \A c \in Clients : client[c].there =>
         client[c] \in Entities /\ client[c].life \in Lives
    BY <1>1, <1>3
<1> QED BY <1>4, <1>5, <1>6

LEMMA RpcType ==
    ASSUME NEW to \in {"base", "cell", "client"}, NEW name \in Names,
           NEW life \in Lives, NEW who \in Procs,
           name \in {"on_cell_create", "create", "create_onreconnect"} => who \in Games,
           name = "on_reconnect_fromclient" => who \in Clients
    PROVE  Rpc(to, name, life, who) \in Letters
    BY DEF Rpc, Rpcs, Letters

LEMMA LetterType ==
    ASSUME NEW m \in Letters
    PROVE  /\ m.to \in {"base", "cell", "client"} /\ m.name \in Names
           /\ m.life \in Lives /\ m.who \in Procs
           /\ m.name \in {"on_cell_create", "create", "create_onreconnect"} => m.who \in Games
           /\ m.name = "on_reconnect_fromclient" => m.who \in Clients
    BY DEF Rpcs, Letters

(* The queue Exec takes an rpc from. *)
LEMMA HeadType ==
    ASSUME Sent, NEW l \in Links, net[l] # <<>>
    PROVE  /\ Head(net[l]) \in Letters
           /\ [net EXCEPT ![l] = Tail(@)] \in [Links -> Seq(Letters)]
<1>1. net[l] \in Seq(Letters)
    BY DEF Sent
<1>2. Head(net[l]) \in Letters /\ Tail(net[l]) \in Seq(Letters)
    BY <1>1, HeadTailProperties
<1> QED BY <1>2 DEF Sent

LEMMA InitType == Init => TypeInv
<1> SUFFICES ASSUME Init PROVE TypeInv
    OBVIOUS
<1>1. MaxClients \in Nat /\ 0 \in 0 .. MaxClients
    BY ProcessesAssumption
<1>2. Sent
  <2> DEFINE S == Seq(Letters)
  <2>1. net = [l \in Links |-> <<>>] /\ <<>> \in S
      BY DEF Init
  <2> HIDE DEF S
  <2>2. net \in [Links -> S]
      BY <2>1
  <2> QED BY <2>2 DEF Sent, S
<1>3. Notes
  <2> DEFINE S == Seq(Range(Stages))
  <2>1. log = [l \in Lives |-> <<>>] /\ <<>> \in S
      BY DEF Init
  <2> HIDE DEF S
  <2>2. log \in [Lives -> S]
      BY <2>1
  <2>3. kicked \subseteq Clients /\ missed \subseteq Clients /\ crossed \in BOOLEAN
      BY DEF Init
  <2> QED BY <2>2, <2>3 DEF Notes, S
<1>4. Tables
  <2>1. /\ base = [g \in Games |-> None] /\ cell = [g \in Games |-> None]
        /\ client = [c \in Clients |-> None]
      BY DEF Init
  <2>2. base \in [Games -> Entities \cup {None}] /\ cell \in [Games -> Entities \cup {None}]
        /\ client \in [Clients -> Entities \cup {None}]
      BY <2>1
  <2>3. \A g \in Games : cell[g] = None
      BY <2>1
  <2>4. ~None.there
      BY DEF None
  <2> QED BY <2>2, <2>3, <2>4 DEF Tables
<1>5. lives <= Cardinality(Served)
  <2>1. IsFiniteSet(Clients)
      BY <1>1, FS_Interval DEF Clients
  <2>2. IsFiniteSet(Served)
      BY <2>1, FS_Subset DEF Served
  <2> QED BY <2>2, FS_CardinalityType DEF Init
<1>6. Counting
    BY <1>1, <1>5 DEF Init, Counting
<1> QED BY <1>2, <1>3, <1>4, <1>6 DEF TypeInv

LEMMA CountingStep ==
    ASSUME TypeInv, Next
    PROVE  Counting'
<1> USE DEF Counting, TypeInv
<1> DEFINE E(c) == [name |-> "entity", owner |-> c]
<1>1. ASSUME NEW c \in Clients, Connect(c) PROVE Counting'
  <2>1. orders' \subseteq Orders
      BY <1>1 DEF Connect, Orders
  <2>2. conn' \in [Clients -> {"new", "on", "gone"}] /\ conn'[c] = "on"
        /\ \A d \in Clients : d # c => conn'[d] = conn[d]
      BY <1>1 DEF Connect
  <2>3. \A d \in Clients : E(d) \in orders' <=> E(d) \in orders \/ d = c
      BY <1>1 DEF Connect
  <2>4. Served' = Served
    <3>1. \A d \in Clients : (conn'[d] # "new" /\ E(d) \notin orders')
                             <=> (conn[d] # "new" /\ E(d) \notin orders)
        BY <1>1, <2>2, <2>3 DEF Connect
    <3> QED BY <3>1 DEF Served
  <2>5. lives' = lives
      BY <1>1 DEF Connect
  <2> QED BY <2>1, <2>2, <2>3, <2>4, <2>5
<1>2. ASSUME NEW c \in Clients, Disconnect(c) PROVE Counting'
  <2>1. conn' \in [Clients -> {"new", "on", "gone"}] /\ conn'[c] # "new"
        /\ \A d \in Clients : d # c => conn'[d] = conn[d]
      BY <1>2 DEF Disconnect
  <2>2. UNCHANGED <<orders, lives>>
      BY <1>2 DEF Disconnect
  <2>3. conn[c] = "on"
      BY <1>2 DEF Disconnect
  <2>4. Served' = Served
    <3>1. \A d \in Clients : (conn'[d] # "new" /\ E(d) \notin orders')
                             <=> (conn[d] # "new" /\ E(d) \notin orders)
        BY <2>1, <2>2, <2>3
    <3> QED BY <3>1 DEF Served
  <2> QED BY <2>1, <2>2, <2>4
<1>3. ASSUME NEW g \in Loads, NEW c \in Clients, CreateEntity(g, c) PROVE Counting'
  <2>1. E(c) \in orders /\ conn' = conn /\ conn[c] # "new"
      BY <1>3 DEF CreateEntity
  <2>2. /\ \A d \in Clients : E(d) \in orders' <=> E(d) \in orders /\ d # c
        /\ lives' = lives \/ lives' = lives + 1
      BY <1>3 DEF CreateEntity, CreateBase, Reconnect, NotYet
  <2>3. Served' = Served \cup {c} /\ c \notin Served
      BY <2>1, <2>2 DEF Served
  <2>4. IsFiniteSet(Served) /\ MaxClients \in Nat /\ Cardinality(Served') <= MaxClients
    <3>1. IsFiniteSet(Clients) /\ Cardinality(Clients) = MaxClients
        BY ProcessesAssumption, FS_Interval DEF Clients
    <3>2. Served \in SUBSET Clients /\ Served' \in SUBSET Clients
        BY DEF Served
    <3> QED BY <3>1, <3>2, FS_Subset, ProcessesAssumption
  <2>5. Cardinality(Served) \in Nat /\ Cardinality(Served') = Cardinality(Served) + 1
      BY <2>3, <2>4, FS_CardinalityType, FS_AddElement
  <2>6. lives' \in 0 .. MaxClients /\ lives' <= Cardinality(Served')
      BY <2>2, <2>4, <2>5
  <2>7. orders' \subseteq Orders
    <3>1. CASE CreateBase(g, c)
      <4>1. g \in Games /\ lives + 1 \in Lives
        <5>1. g \in Games
            BY ProcessesAssumption
        <5>2. lives + 1 <= MaxClients
            BY <2>4, <2>5
        <5> QED BY <5>1, <5>2 DEF Lives
      <4> QED BY <3>1, <4>1 DEF CreateBase, Orders
    <3>2. CASE Reconnect(g, c)
        BY <3>2 DEF Reconnect
    <3>3. CASE NotYet(g, c)
        BY <3>3 DEF NotYet
    <3> QED BY <1>3, <3>1, <3>2, <3>3 DEF CreateEntity
  <2> QED BY <2>1, <2>2, <2>6, <2>7
<1>4. ASSUME NEW g \in Games, CreateCell(g) PROVE Counting'
  <2>1. UNCHANGED <<conn, lives>> /\ orders' \subseteq orders
        /\ \A d \in Clients : E(d) \in orders' <=> E(d) \in orders
      BY <1>4 DEF CreateCell
  <2>2. Served' = Served
      BY <2>1 DEF Served
  <2> QED BY <2>1, <2>2
<1>5. ASSUME UNCHANGED <<conn, orders, lives>> PROVE Counting'
    BY <1>5 DEF Served
<1>6. ASSUME NEW l \in Links, Exec(l[1], l[2]) PROVE UNCHANGED <<conn, orders, lives>>
    BY <1>6 DEF Exec
<1>7. ASSUME NEW g \in Games, Tick(g) \/ BaseReadyCheck(g) \/ CellReadyCheck(g) \/ LoseTouch(g)
      PROVE  UNCHANGED <<conn, orders, lives>>
    BY <1>7 DEF Tick, BaseReadyCheck, CellReadyCheck, LoseTouch
<1>8. ASSUME NEW c \in Clients, ClientTick(c) \/ ClientReadyCheck(c)
      PROVE  UNCHANGED <<conn, orders, lives>>
    BY <1>8 DEF ClientTick, ClientReadyCheck
<1> QED BY <1>1, <1>2, <1>3, <1>4, <1>5, <1>6, <1>7, <1>8 DEF Next, Progress

LEMMA NotesStep ==
    ASSUME TypeInv, Next
    PROVE  Notes'
<1> DEFINE L == [Lives -> Seq(Range(Stages))]
<1>0. log \in L /\ Kept \in L
      /\ \A l \in Lives : \A s \in Range(Stages) : Noted(l, s) \in L
  <2>1. Kept \in L
    <3>1. log \in [Lives -> Seq(Range(Stages))] BY DEF TypeInv, Notes
    <3> QED BY <3>1 DEF Kept
  <2> QED BY <2>1, NotedType DEF TypeInv, Notes
<1>1. {"base", "cell", "client", "baseReady", "cellReady", "clientReady"} = Range(Stages)
    BY StageNames
<1> HIDE DEF L
<1>2. ASSUME UNCHANGED <<kicked, missed, crossed, log>> PROVE Notes'
    BY <1>2 DEF TypeInv, Notes
<1>3. ASSUME UNCHANGED <<kicked, missed, crossed>>, log' \in L PROVE Notes'
    BY <1>3 DEF TypeInv, Notes, L
<1>4. ASSUME NEW c \in Clients, Connect(c) \/ Disconnect(c) PROVE Notes'
    BY <1>2, <1>4 DEF Connect, Disconnect
<1>5. ASSUME NEW g \in Loads, NEW c \in Clients, CreateEntity(g, c) PROVE Notes'
  <2>1. CASE CreateBase(g, c)
    <3>1. lives + 1 \in Lives
        BY CountingStep, <2>1 DEF CreateBase, TypeInv, Counting, Lives
    <3>2. log' \in L
        BY <1>0, <1>1, <2>1, <3>1 DEF CreateBase
    <3> QED BY <1>3, <1>5, <3>2 DEF CreateEntity
  <2>2. CASE Reconnect(g, c) \/ NotYet(g, c)
      BY <1>2, <1>5, <2>2 DEF CreateEntity, Reconnect, NotYet
  <2> QED BY <1>5, <2>1, <2>2 DEF CreateEntity
<1>6. ASSUME NEW g \in Games, CreateCell(g) PROVE Notes'
  <2>1. PICK o \in orders : o.name = "cell" /\ log' = Noted(o.life, "cell")
      BY <1>6 DEF CreateCell
  <2>2. o.life \in Lives
      BY <2>1 DEF TypeInv, Counting, Orders
  <2> QED BY <1>0, <1>1, <1>3, <1>6, <2>1, <2>2 DEF CreateCell
<1>7. ASSUME NEW k \in Links, Exec(k[1], k[2]) PROVE Notes'
  <2> DEFINE m == Head(net[k])
             q == [net EXCEPT ![k] = Tail(@)]
             p == k[2]
  <2>1. k = <<k[1], k[2]>> /\ k[1] \in Procs /\ p \in Procs
      BY DEF Links
  <2>2. net[k] # <<>> /\ crossed' \in BOOLEAN /\ missed' \subseteq Clients
    <3>1. missed \subseteq Clients
        BY DEF TypeInv, Notes
    <3> QED BY <1>7, <2>1, <3>1 DEF Exec
  <2>3. m \in Letters /\ m.life \in Lives
      BY <2>2, HeadType, LetterType DEF TypeInv
  <2>4. \/ p \in Games /\ (ExecBase(p, m, q) \/ ExecCell(p, m, q))
        \/ p \in Clients /\ ExecClient(p, m, q)
        \/ log' = Kept /\ kicked' = kicked
      BY <1>7, <2>1 DEF Exec
  <2> HIDE DEF m, q, p
  <2>5. ASSUME log' \in L, kicked' \subseteq Clients PROVE Notes'
      BY <2>2, <2>5 DEF Notes, L
  <2>6. kicked \subseteq Clients
      BY DEF TypeInv, Notes
  <2>7. CASE p \in Games /\ ExecBase(p, m, q)
    <3>1. base[p].life \in Lives /\ kicked' = kicked
        BY <2>7, ThereIs DEF ExecBase
    <3>2. log' \in {Kept, Noted(base[p].life, "baseReady")}
        BY <2>7 DEF ExecBase, OnCellCreate, BaseReady, OnClientReconnectSuccess
    <3> QED BY <1>0, <1>1, <2>5, <2>6, <3>1, <3>2
  <2>8. CASE p \in Games /\ ExecCell(p, m, q)
    <3>1. cell[p].life \in Lives /\ kicked' = kicked
        BY <2>8, ThereIs DEF ExecCell
    <3>2. log' \in {Kept, Noted(cell[p].life, "cellReady")}
        BY <2>8 DEF ExecCell, OnReconnectFromClient, CellReady
    <3> QED BY <1>0, <1>1, <2>5, <2>6, <3>1, <3>2
  <2>9. CASE p \in Clients /\ ExecClient(p, m, q)
    <3>1. CASE CreateClient(p, m, q)
      <4>1. log' = Noted(m.life, "client") /\ kicked' = kicked
          BY <3>1 DEF CreateClient
      <4> QED BY <1>0, <1>1, <2>3, <2>5, <2>6, <4>1
    <3>2. CASE CallClient(p, m, q)
      <4>1. client[p].life \in Lives
          BY <2>9, <3>2, ThereIs DEF CallClient
      <4>2. log' \in {Kept, Noted(client[p].life, "clientReady")}
          BY <3>2 DEF CallClient
      <4>3. kicked' \subseteq Clients
          BY <2>6, <2>9, <3>2 DEF CallClient
      <4> QED BY <1>0, <1>1, <2>5, <4>1, <4>2, <4>3
    <3> QED BY <2>9, <3>1, <3>2 DEF ExecClient
  <2>10. CASE log' = Kept /\ kicked' = kicked
      BY <1>0, <2>5, <2>6, <2>10
  <2> QED BY <2>4, <2>7, <2>8, <2>9, <2>10
<1>8. ASSUME NEW g \in Games, Tick(g) \/ BaseReadyCheck(g) \/ CellReadyCheck(g) \/ LoseTouch(g)
      PROVE  Notes'
    BY <1>2, <1>8 DEF Tick, BaseReadyCheck, CellReadyCheck, LoseTouch
<1>9. ASSUME NEW c \in Clients, ClientTick(c) \/ ClientReadyCheck(c)
      PROVE  Notes'
    BY <1>2, <1>9 DEF ClientTick, ClientReadyCheck
<1> QED BY <1>4, <1>5, <1>6, <1>7, <1>8, <1>9 DEF Next, Progress

LEMMA EntityType ==
    ASSUME NEW life \in Lives, NEW addr \in Games \cup {Nobody}, NEW owner \in Clients
    PROVE  /\ Entity(life, addr, owner) \in Entities
           /\ Entity(life, addr, owner).addr = addr
    BY DEF Entity, Entities

LEMMA EntityUpdate ==
    ASSUME NEW e \in Entities
    PROVE  /\ \A c \in Clients : [e EXCEPT !.owner = c] \in Entities
                                 /\ [e EXCEPT !.owner = c].addr = e.addr
           /\ \A a \in Games : [e EXCEPT !.addr = a] \in Entities
           /\ \A b \in BOOLEAN : /\ [e EXCEPT !.ready = b] \in Entities
                                 /\ [e EXCEPT !.ready = b].addr = e.addr
                                 /\ [e EXCEPT !.doomed = b] \in Entities
                                 /\ [e EXCEPT !.doomed = b].addr = e.addr
           /\ e.ready \in BOOLEAN
    BY DEF Entities

(* What a step may do to the tables. *)
LEMMA TablesSet ==
    ASSUME Tables, NEW e \in Entities \cup {None}
    PROVE  /\ \A g \in Games : [base EXCEPT ![g] = e] \in [Games -> Entities \cup {None}]
           /\ \A g \in Games : [cell EXCEPT ![g] = e] \in [Games -> Entities \cup {None}]
           /\ \A c \in Clients : [client EXCEPT ![c] = e] \in [Clients -> Entities \cup {None}]
           /\ (e.there => e.addr \in Games) =>
                 \A g, h \in Games : [cell EXCEPT ![g] = e][h].there
                                       => [cell EXCEPT ![g] = e][h].addr \in Games
<1> DEFINE E == Entities \cup {None}
<1>1. /\ base \in [Games -> E] /\ cell \in [Games -> E] /\ client \in [Clients -> E]
      /\ \A g \in Games : cell[g].there => cell[g].addr \in Games
      /\ e \in E
    BY DEF Tables
<1> HIDE DEF E
<1>2. /\ \A g \in Games : [base EXCEPT ![g] = e] \in [Games -> E]
      /\ \A g \in Games : [cell EXCEPT ![g] = e] \in [Games -> E]
      /\ \A c \in Clients : [client EXCEPT ![c] = e] \in [Clients -> E]
    BY <1>1
<1>3. (e.there => e.addr \in Games) =>
         \A g, h \in Games : [cell EXCEPT ![g] = e][h].there
                               => [cell EXCEPT ![g] = e][h].addr \in Games
    BY <1>1
<1> QED BY <1>2, <1>3 DEF E

LEMMA BaseSet ==
    ASSUME Tables, NEW g \in Games, NEW e \in Entities \cup {None},
           base' = [base EXCEPT ![g] = e], UNCHANGED <<cell, client>>
    PROVE  Tables'
    BY TablesSet DEF Tables

LEMMA CellSet ==
    ASSUME Tables, NEW g \in Games, NEW e \in Entities \cup {None}, e.there => e.addr \in Games,
           cell' = [cell EXCEPT ![g] = e], UNCHANGED <<base, client>>
    PROVE  Tables'
    BY TablesSet DEF Tables

LEMMA ClientSet ==
    ASSUME Tables, NEW c \in Clients, NEW e \in Entities \cup {None},
           client' = [client EXCEPT ![c] = e], UNCHANGED <<base, cell>>
    PROVE  Tables'
    BY TablesSet DEF Tables

LEMMA TablesStep ==
    ASSUME TypeInv, Next
    PROVE  Tables'
<1>1. Tables
    BY DEF TypeInv
<1>2. ~None.there /\ None \in Entities \cup {None}
    BY DEF None
<1>3. ASSUME UNCHANGED tables PROVE Tables'
    BY <1>1, <1>3 DEF tables, Tables
<1>4. ASSUME NEW c \in Clients, Connect(c) \/ Disconnect(c) PROVE Tables'
    BY <1>1, <1>2, <1>3, <1>4, ClientSet DEF Connect, Disconnect
<1>5. ASSUME NEW g \in Loads, NEW c \in Clients, CreateEntity(g, c) PROVE Tables'
  <2>0. g \in Games
      BY ProcessesAssumption
  <2>1. CASE CreateBase(g, c)
    <3>1. lives + 1 \in Lives
        BY CountingStep, <2>1 DEF CreateBase, TypeInv, Counting, Lives
    <3>2. Entity(lives + 1, Nobody, c) \in Entities
        BY <3>1, EntityType
    <3> QED BY <1>1, <2>0, <2>1, <3>2, BaseSet DEF CreateBase
  <2>2. CASE Reconnect(g, c)
    <3>1. base[g] \in Entities
        BY <2>0, <2>2, ThereIs DEF Reconnect
    <3>2. base' = [base EXCEPT ![g] = [base[g] EXCEPT !.owner = c]]
        BY <2>2 DEF Reconnect
    <3> QED BY <1>1, <2>0, <2>2, <3>1, <3>2, EntityUpdate, BaseSet DEF Reconnect
  <2>3. CASE NotYet(g, c)
      BY <1>3, <2>3 DEF NotYet, tables
  <2> QED BY <1>5, <2>1, <2>2, <2>3 DEF CreateEntity
<1>6. ASSUME NEW g \in Games, CreateCell(g) PROVE Tables'
  <2>1. PICK o \in orders : /\ o.name = "cell"
                            /\ cell' = [cell EXCEPT ![g] = Entity(o.life, o.base, o.owner)]
      BY <1>6 DEF CreateCell
  <2>2. o.life \in Lives /\ o.base \in Games /\ o.owner \in Clients
      BY <2>1 DEF TypeInv, Counting, Orders
  <2>3. Entity(o.life, o.base, o.owner) \in Entities
        /\ Entity(o.life, o.base, o.owner).addr \in Games
      BY <2>2, EntityType
  <2> QED BY <1>1, <1>6, <2>1, <2>3, CellSet DEF CreateCell
<1>7. ASSUME NEW k \in Links, Exec(k[1], k[2]) PROVE Tables'
  <2> DEFINE m == Head(net[k])
             q == [net EXCEPT ![k] = Tail(@)]
             p == k[2]
  <2>1. k = <<k[1], k[2]>>
      BY DEF Links
  <2>2. net[k] # <<>>
      BY <1>7, <2>1 DEF Exec
  <2>3. m \in Letters /\ m.life \in Lives /\ (m.name = "on_cell_create" => m.who \in Games)
        /\ (m.name \in {"create", "create_onreconnect"} => m.who \in Games)
        /\ (m.name = "on_reconnect_fromclient" => m.who \in Clients)
      BY <2>2, HeadType, LetterType DEF TypeInv
  <2>4. \/ p \in Games /\ (ExecBase(p, m, q) \/ ExecCell(p, m, q))
        \/ p \in Clients /\ ExecClient(p, m, q)
        \/ UNCHANGED tables
      BY <1>7, <2>1 DEF Exec
  <2> HIDE DEF m, q, p
  <2>5. CASE p \in Games /\ ExecBase(p, m, q)
    <3>1. base[p] \in Entities /\ UNCHANGED <<cell, client>>
        BY <2>5, ThereIs DEF ExecBase
    <3>2. \/ m.name = "on_cell_create" /\ base' = [base EXCEPT ![p] = [base[p] EXCEPT !.addr = m.who]]
          \/ base' = [base EXCEPT ![p] = [base[p] EXCEPT !.ready = TRUE]]
          \/ base' = [base EXCEPT ![p] = [base[p] EXCEPT !.doomed = TRUE]]
          \/ base' = base
        BY <2>5 DEF ExecBase, OnCellCreate, BaseReady, OnClientReconnectSuccess
    <3>3. CASE base' = base
        BY <1>3, <3>1, <3>3 DEF tables
    <3> QED BY <1>1, <2>3, <2>5, <3>1, <3>2, <3>3, EntityUpdate, BaseSet
  <2>6. CASE p \in Games /\ ExecCell(p, m, q)
    <3>1. cell[p] \in Entities /\ cell[p].addr \in Games /\ UNCHANGED <<base, client>>
        BY <2>6, ThereIs DEF ExecCell
    <3>2. \/ /\ m.name = "on_reconnect_fromclient"
             /\ cell' = [cell EXCEPT ![p] = [cell[p] EXCEPT !.owner = m.who]]
          \/ cell' = [cell EXCEPT ![p] = [cell[p] EXCEPT !.ready = cell[p].ready \/ m.name = "ready"]]
          \/ cell' = [cell EXCEPT ![p] = [cell[p] EXCEPT !.doomed = TRUE]]
        BY <2>6 DEF ExecCell, OnReconnectFromClient, CellReady
    <3>3. (cell[p].ready \/ m.name = "ready") \in BOOLEAN
        OBVIOUS
    <3> QED BY <1>1, <2>3, <2>6, <3>1, <3>2, <3>3, EntityUpdate, CellSet
  <2>7. CASE p \in Clients /\ ExecClient(p, m, q)
    <3>1. UNCHANGED <<base, cell>>
        BY <2>7 DEF ExecClient
    <3>2. CASE CreateClient(p, m, q)
      <4> DEFINE e == Entity(m.life, m.who, p)
      <4>1. m.who \in Games
          BY <2>3, <3>2 DEF CreateClient
      <4>2. e \in Entities /\ \A b \in BOOLEAN : [e EXCEPT !.check = b] \in Entities
          BY <2>3, <2>7, <4>1 DEF Entity, Entities
      <4>3. client' = [client EXCEPT ![p] = [e EXCEPT !.check = (m.name = "create")]]
          BY <3>2 DEF CreateClient
      <4>4. (m.name = "create") \in BOOLEAN
          OBVIOUS
      <4> HIDE DEF e
      <4>5. [e EXCEPT !.check = (m.name = "create")] \in Entities
          BY <4>2, <4>4
      <4> QED BY <1>1, <2>7, <3>1, <4>3, <4>5, ClientSet
    <3>3. CASE CallClient(p, m, q)
      <4>1. client[p] \in Entities
          BY <2>7, <3>3, ThereIs DEF CallClient
      <4>2. \/ client' = [client EXCEPT ![p] = [client[p] EXCEPT !.ready = TRUE]]
            \/ client' = [client EXCEPT ![p] = [client[p] EXCEPT !.doomed = TRUE]]
            \/ client' = client
          BY <3>3 DEF CallClient
      <4>3. CASE client' = client
          BY <1>3, <3>1, <4>3 DEF tables
      <4> QED BY <1>1, <2>7, <3>1, <4>1, <4>2, <4>3, EntityUpdate, ClientSet
    <3> QED BY <2>7, <3>2, <3>3 DEF ExecClient
  <2> QED BY <1>3, <2>4, <2>5, <2>6, <2>7
<1>8. ASSUME NEW g \in Games, Tick(g) PROVE Tables'
  <2>1. /\ base' = [base EXCEPT ![g] = IF base[g].there /\ base[g].doomed THEN None ELSE base[g]]
        /\ cell' = [cell EXCEPT ![g] = IF cell[g].there /\ cell[g].doomed THEN None ELSE cell[g]]
        /\ client' = client
      BY <1>8 DEF Tick
  <2>2. base[g] \in Entities \cup {None} /\ cell[g] \in Entities \cup {None}
        /\ (cell[g].there => cell[g].addr \in Games)
      BY <1>1 DEF Tables
  <2> QED BY <1>1, <1>2, <2>1, <2>2, TablesSet DEF Tables
<1>9. ASSUME NEW g \in Games, BaseReadyCheck(g) \/ CellReadyCheck(g) \/ LoseTouch(g)
      PROVE  Tables'
    BY <1>1, <1>2, <1>9, BaseSet, CellSet DEF BaseReadyCheck, CellReadyCheck, LoseTouch
<1>10. ASSUME NEW c \in Clients, ClientTick(c) \/ ClientReadyCheck(c)
      PROVE  Tables'
    BY <1>1, <1>2, <1>10, ClientSet DEF ClientTick, ClientReadyCheck
<1> QED BY <1>4, <1>5, <1>6, <1>7, <1>8, <1>9, <1>10 DEF Next, Progress

LEMMA SentStep ==
    ASSUME TypeInv, Next
    PROVE  Sent'
<1> DEFINE N == [Links -> Seq(Letters)]
<1>1. net \in N
    BY DEF TypeInv, Sent
<1>2. \A q \in N : \A m \in Letters : \A x, y : Send(q, x, y, m) \in N
    BY SendAt
<1>3. Games \subseteq Procs /\ Clients \subseteq Procs
    BY DEF Procs
<1>4. SUFFICES net' \in N
    BY DEF Sent
<1> HIDE DEF N
<1>5. ASSUME NEW c \in Clients, Connect(c) PROVE net' \in N
    BY <1>1, <1>5 DEF Connect
<1>6. ASSUME NEW c \in Clients, Disconnect(c) PROVE net' \in N
  <2>1. PICK lost : net' = [l \in Links |-> IF l[2] = c \/ (l[1] = c /\ l[2] \in lost)
                                          THEN <<>> ELSE net[l]]
      BY <1>6 DEF Disconnect
  <2> DEFINE S == Seq(Letters)
  <2>2. <<>> \in S /\ \A l \in Links : net[l] \in S
      BY <1>1 DEF N
  <2> HIDE DEF S
  <2>3. net' \in [Links -> S]
      BY <2>1, <2>2
  <2> QED BY <2>3 DEF N, S
<1>7. ASSUME NEW g \in Loads, NEW c \in Clients, CreateEntity(g, c) PROVE net' \in N
  <2>0. g \in Games
      BY ProcessesAssumption
  <2>1. CASE Reconnect(g, c)
    <3>1. base[g].life \in Lives
        BY <2>0, <2>1, ThereIs DEF Reconnect
    <3>2. /\ Rpc("client", "on_kick", base[g].life, g) \in Letters
          /\ Rpc("cell", "on_reconnect_fromclient", base[g].life, c) \in Letters
        BY <1>3, <2>0, <3>1, RpcType DEF Names
    <3> QED BY <1>1, <1>2, <2>1, <3>2 DEF Reconnect
  <2>2. CASE CreateBase(g, c) \/ NotYet(g, c)
      BY <1>1, <2>2 DEF CreateBase, NotYet
  <2> QED BY <1>7, <2>1, <2>2 DEF CreateEntity
<1>8. ASSUME NEW g \in Games, CreateCell(g) PROVE net' \in N
  <2>1. PICK o \in orders :
           /\ o.name = "cell"
           /\ net' = Send(net, g, o.base, Rpc("base", "on_cell_create", o.life, g))
      BY <1>8 DEF CreateCell
  <2>2. o.life \in Lives
      BY <2>1 DEF TypeInv, Counting, Orders
  <2>3. Rpc("base", "on_cell_create", o.life, g) \in Letters
      BY <1>3, <2>2, RpcType DEF Names
  <2> QED BY <1>1, <1>2, <2>1, <2>3
<1>9. ASSUME NEW k \in Links, Exec(k[1], k[2]) PROVE net' \in N
  <2> DEFINE m == Head(net[k])
             q == [net EXCEPT ![k] = Tail(@)]
             p == k[2]
  <2>1. k = <<k[1], k[2]>> /\ p \in Procs
      BY DEF Links
  <2>2. net[k] # <<>>
      BY <1>9, <2>1 DEF Exec
  <2>3. m \in Letters /\ m.life \in Lives
        /\ (m.name \in {"on_cell_create", "create", "create_onreconnect"} => m.who \in Games)
        /\ (m.name = "on_reconnect_fromclient" => m.who \in Clients)
      BY <2>2, HeadType, LetterType DEF TypeInv
  <2>4. q \in N
      BY <2>2, HeadType DEF TypeInv, N
  <2>5. \/ p \in Games /\ (ExecBase(p, m, q) \/ ExecCell(p, m, q))
        \/ p \in Clients /\ ExecClient(p, m, q)
        \/ net' = q
      BY <1>9, <2>1 DEF Exec
  <2> HIDE DEF m, q, p
  <2>6. CASE p \in Games /\ ExecBase(p, m, q)
    <3> DEFINE l == base[p].life
    <3>1. l \in Lives
        BY <2>6, ThereIs DEF ExecBase
    <3> HIDE DEF l
    <3>2. /\ Rpc("client", "create", l, p) \in Letters
          /\ Rpc("cell", "ready", l, p) \in Letters
          /\ Rpc("cell", "on_client_reconnect_success", l, p) \in Letters
        BY <1>3, <2>6, <3>1, RpcType DEF Names
    <3>3. \/ net' = q
          \/ net' = Send(q, p, base[p].owner, Rpc("client", "create", l, p))
          \/ net' = Send(q, p, base[p].addr, Rpc("cell", "ready", l, p))
          \/ net' = Send(q, p, base[p].addr, Rpc("cell", "on_client_reconnect_success", l, p))
        BY <2>6 DEF ExecBase, OnCellCreate, BaseReady, OnClientReconnectSuccess, l
    <3> QED BY <1>2, <2>4, <3>2, <3>3
  <2>7. CASE p \in Games /\ ExecCell(p, m, q)
    <3> DEFINE l == cell[p].life
    <3>1. l \in Lives /\ cell[p].addr \in Games
        BY <2>7, ThereIs DEF ExecCell
    <3> HIDE DEF l
    <3>2. /\ Rpc("client", "create_onreconnect", l, cell[p].addr) \in Letters
          /\ Rpc("client", "ready", l, p) \in Letters
        BY <1>3, <2>7, <3>1, RpcType DEF Names
    <3>3. \/ net' = q
          \/ net' = Send(q, p, m.who, Rpc("client", "create_onreconnect", l, cell[p].addr))
          \/ net' = Send(q, p, cell[p].owner, Rpc("client", "ready", l, p))
        BY <2>7 DEF ExecCell, OnReconnectFromClient, CellReady, l
    <3> QED BY <1>2, <2>4, <3>2, <3>3
  <2>8. CASE p \in Clients /\ ExecClient(p, m, q)
    <3>1. /\ Rpc("base", "ready", m.life, p) \in Letters
          /\ Rpc("base", "on_client_reconnect_success", m.life, p) \in Letters
        BY <1>3, <2>3, <2>8, RpcType DEF Names
    <3>2. \/ net' = q
          \/ net' = Send(q, p, m.who, Rpc("base", "ready", m.life, p))
          \/ net' = Send(q, p, m.who, Rpc("base", "on_client_reconnect_success", m.life, p))
        BY <2>8 DEF ExecClient, CreateClient, CallClient
    <3> QED BY <1>2, <2>4, <3>1, <3>2
  <2> QED BY <2>4, <2>5, <2>6, <2>7, <2>8
<1>10. ASSUME NEW g \in Games, Tick(g) \/ LoseTouch(g) PROVE net' \in N
    BY <1>1, <1>10 DEF Tick, LoseTouch
<1>11. ASSUME NEW g \in Games, BaseReadyCheck(g) PROVE net' \in N
  <2>1. base[g].life \in Lives
      BY <1>11, ThereIs DEF BaseReadyCheck
  <2>2. /\ Rpc("cell", "destroy_self", base[g].life, g) \in Letters
        /\ Rpc("client", "destroy_self", base[g].life, g) \in Letters
      BY <1>3, <2>1, RpcType DEF Names
  <2> QED BY <1>1, <1>2, <1>11, <2>2 DEF BaseReadyCheck
<1>12. ASSUME NEW g \in Games, CellReadyCheck(g) PROVE net' \in N
  <2>1. cell[g].life \in Lives
      BY <1>12, ThereIs DEF CellReadyCheck
  <2>2. /\ Rpc("base", "destroy_self", cell[g].life, g) \in Letters
        /\ Rpc("client", "destroy_self", cell[g].life, g) \in Letters
      BY <1>3, <2>1, RpcType DEF Names
  <2> QED BY <1>1, <1>2, <1>12, <2>2 DEF CellReadyCheck
<1>13. ASSUME NEW c \in Clients, ClientTick(c) \/ ClientReadyCheck(c)
       PROVE  net' \in N
    BY <1>1, <1>13 DEF ClientTick, ClientReadyCheck
<1> QED BY <1>5, <1>6, <1>7, <1>8, <1>9, <1>10, <1>11, <1>12, <1>13 DEF Next, Progress

LEMMA TypeStep == TypeInv /\ [Next]_vars => TypeInv'
<1> SUFFICES ASSUME TypeInv, [Next]_vars PROVE TypeInv'
    OBVIOUS
<1>1. CASE Next
    BY <1>1, CountingStep, NotesStep, TablesStep, SentStep DEF TypeInv
<1>2. CASE UNCHANGED vars
    BY <1>2 DEF vars, tables, TypeInv, Tables, Counting, Notes, Sent, Served
<1> QED BY <1>1, <1>2

(* Every variable keeps to its type, whatever is created, destroyed and *)
(* reconnected: the addresses in the mailboxes are those of games, the  *)
(* arguments of the rpcs are what their handlers take them for.         *)
THEOREM TypeCorrect == Spec => []TypeOK
<1>1. Init => TypeInv
    BY InitType
<1>2. TypeInv /\ [Next]_vars => TypeInv'
    BY TypeStep
<1>3. TypeInv => TypeOK
    BY TypeInvImplies
<1> QED BY <1>1, <1>2, <1>3, PTL DEF Spec

-----------------------------------------------------------------------------
(* The order of the stages.  In what follows q is a network, lg a log, ce  *)
(* and ba are the tables of cells and bases, before or after a step.       *)

IsCell(ce, h, l) == ce[h].there /\ ce[h].life = l
IsBase(ba, g, l) == ba[g].there /\ ba[g].life = l

(* How many stages a life has behind it when an rpc of it is under way. *)
Needs(m) ==
    CASE m.name = "on_cell_create" -> 2
      [] m.name = "create" -> 2
      [] m.name = "create_onreconnect" -> 3
      [] m.name = "on_client_reconnect_success" /\ m.to = "base" -> 3
      [] m.name = "on_client_reconnect_success" /\ m.to = "cell" -> 4
      [] m.name = "on_reconnect_fromclient" -> 4
      [] m.name = "ready" /\ m.to = "base" -> 3
      [] m.name = "ready" /\ m.to = "cell" -> 4
      [] m.name = "ready" /\ m.to = "client" -> 5
      [] OTHER -> 0

IsReady(m, l) == m.to = "cell" /\ m.name = "ready" /\ m.life = l
IsSuccess(m) == m.to = "cell" /\ m.name = "on_client_reconnect_success"

(* An rpc under way to process p comes late enough, and, if the cell it is *)
(* for or from is still there, that cell is the only one.                  *)
Timely(p, m, lg, ce, ba) ==
    /\ Len(lg[m.life]) >= Needs(m)
    /\ m.to = "cell" /\ m.name \in {"ready", "on_client_reconnect_success"} =>
          p \in Games /\ \A h \in Games : IsCell(ce, h, m.life) => h = p
    /\ m.name = "on_cell_create" => \A h \in Games : IsCell(ce, h, m.life) => h = m.who
    /\ m.name = "create" => \A g \in Games : IsBase(ba, g, m.life) => ba[g].addr # Nobody

(* The cell of life l has been told that it is ready, it will be by one of *)
(* the first n rpcs of s, or it is no more.                                *)
Told(s, n, l, lg, ce) ==
    \/ Len(lg[l]) >= 5
    \/ \A h \in Games : ~IsCell(ce, h, l)
    \/ \E i \in 1 .. n : IsReady(s[i], l)

(* The rpcs s under way to process p. *)
QueueInv(p, s, lg, ce, ba) ==
    \A i \in 1 .. Len(s) :
        /\ Timely(p, s[i], lg, ce, ba)
        /\ IsSuccess(s[i]) => Told(s, i - 1, s[i].life, lg, ce)

NetInv(q, lg, ce, ba) == \A l \in Links : QueueInv(l[2], q[l], lg, ce, ba)

CellsInv(lg, ce) ==
    /\ \A h \in Games : ce[h].there => Len(lg[ce[h].life]) >= 2
    /\ \A h, k \in Games : ce[h].there /\ ce[k].there /\ ce[h].life = ce[k].life => h = k

BasesInv(q, lg, ce, ba) ==
    /\ \A g \in Games : ba[g].there => Len(lg[ba[g].life]) >= 1
    /\ \A g, k \in Games : ba[g].there /\ ba[k].there /\ ba[g].life = ba[k].life => g = k
    /\ \A g \in Games : ba[g].there =>
          IF ba[g].addr = Nobody THEN Len(lg[ba[g].life]) <= 2
          ELSE /\ Len(lg[ba[g].life]) >= 2
               /\ \A h \in Games : IsCell(ce, h, ba[g].life) => h = ba[g].addr
    /\ \A g \in Games : ba[g].there /\ ba[g].ready =>
          /\ Len(lg[ba[g].life]) >= 4
          /\ Told(q[<<g, ba[g].addr>>], Len(q[<<g, ba[g].addr>>]), ba[g].life, lg, ce)

LogInv(lg, n) ==
    \A l \in Lives :
        /\ Len(lg[l]) <= 6 /\ \A i \in 1 .. Len(lg[l]) : lg[l][i] = Stages[i]
        /\ l > n => lg[l] = <<>>

OrdersInv(ors, lg) ==
    \A o \in ors : o.name = "cell" =>
        /\ Len(lg[o.life]) = 1
        /\ \A r \in ors : r.name = "cell" /\ r.life = o.life => r = o

Core(q, lg, ce, ba) ==
    CellsInv(lg, ce) /\ BasesInv(q, lg, ce, ba) /\ NetInv(q, lg, ce, ba)

StageInv ==
    LogInv(log, lives) /\ OrdersInv(orders, log) /\ Core(net, log, cell, base)

Inv == TypeInv /\ (~crossed => StageInv)
-----------------------------------------------------------------------------
(* What a step may do to a log and to the tables. *)
Sized(lg) == \A l \in Lives : Len(lg[l]) \in Nat
Grown(lg, lg2) == \A l \in Lives : Len(lg2[l]) >= Len(lg[l])
Fewer(lg, ce, ce2) ==
    \A h \in Games, l \in Lives : IsCell(ce2, h, l) => IsCell(ce, h, l) \/ Len(lg[l]) <= 1
Based(lg, ba, ba2) ==
    \A g \in Games, l \in Lives :
        IsBase(ba2, g, l) /\ ba2[g].addr = Nobody =>
            (IsBase(ba, g, l) /\ ba[g].addr = Nobody) \/ Len(lg[l]) <= 1
Placed(ba) ==
    \A g \in Games : ba[g].there =>
        ba[g].life \in Lives /\ ba[g].addr \in Games \cup {Nobody}

LEMMA NeedsType ==
    ASSUME NEW m \in Letters
    PROVE  /\ Needs(m) \in 0 .. 5
           /\ m.name \in {"on_cell_create", "create"} => Needs(m) >= 2
           /\ m.to = "cell" /\ m.name \in {"ready", "on_client_reconnect_success"} => Needs(m) >= 4
<1>1. m.to \in {"base", "cell", "client"} /\ m.name \in Names
    BY LetterType
<1>2. Needs(m) \in 0 .. 5
    BY <1>1 DEF Needs, Names
<1>3. m.name \in {"on_cell_create", "create"} => Needs(m) >= 2
    BY <1>1 DEF Needs, Names
<1>4. m.to = "cell" /\ m.name \in {"ready", "on_client_reconnect_success"} => Needs(m) >= 4
    BY <1>1 DEF Needs, Names
<1> QED BY <1>2, <1>3, <1>4

LEMMA ToldMore ==
    ASSUME NEW s \in Seq(Letters), NEW m \in Letters, NEW n \in 0 .. Len(s),
           NEW l, NEW lg, NEW ce, Told(s, n, l, lg, ce)
    PROVE  /\ Told(Append(s, m), n, l, lg, ce)
           /\ \A k \in n .. Len(s) + 1 : Told(Append(s, m), k, l, lg, ce)
<1>1. \A i \in 1 .. n : Append(s, m)[i] = s[i]
    OBVIOUS
<1>2. \A k \in n .. Len(s) + 1 : 1 .. n \subseteq 1 .. k
    OBVIOUS
<1> QED BY <1>1, <1>2 DEF Told

LEMMA ToldLater ==
    ASSUME NEW s, NEW n, NEW l \in Lives, NEW lg, NEW lg2, NEW ce, NEW ce2,
           Sized(lg), Sized(lg2), Grown(lg, lg2), Fewer(lg, ce, ce2),
           Len(lg[l]) >= 2, Told(s, n, l, lg, ce)
    PROVE  Told(s, n, l, lg2, ce2)
<1>1. Len(lg[l]) \in Nat /\ Len(lg2[l]) \in Nat /\ Len(lg2[l]) >= Len(lg[l])
    BY DEF Sized, Grown
<1>2. \A h \in Games : IsCell(ce2, h, l) => IsCell(ce, h, l)
    BY <1>1 DEF Fewer
<1> QED BY <1>1, <1>2 DEF Told

LEMMA QueueLater ==
    ASSUME NEW p, NEW s \in Seq(Letters), NEW lg, NEW lg2, NEW ce, NEW ce2, NEW ba, NEW ba2,
           Sized(lg), Sized(lg2), Grown(lg, lg2), Fewer(lg, ce, ce2), Based(lg, ba, ba2),
           QueueInv(p, s, lg, ce, ba)
    PROVE  QueueInv(p, s, lg2, ce2, ba2)
<1> SUFFICES ASSUME NEW i \in 1 .. Len(s)
             PROVE  /\ Timely(p, s[i], lg2, ce2, ba2)
                    /\ IsSuccess(s[i]) => Told(s, i - 1, s[i].life, lg2, ce2)
    BY DEF QueueInv
<1> DEFINE m == s[i]
           l == m.life
<1>1. m \in Letters /\ l \in Lives
    BY LetterType
<1>2. Timely(p, m, lg, ce, ba) /\ (IsSuccess(m) => Told(s, i - 1, l, lg, ce))
    BY DEF QueueInv
<1> HIDE DEF m, l
<1>3. /\ Len(lg[l]) \in Nat /\ Len(lg2[l]) \in Nat /\ Len(lg2[l]) >= Len(lg[l])
      /\ Needs(m) \in Nat
    BY <1>1, NeedsType DEF Sized, Grown
<1>4. Len(lg[l]) >= Needs(m)
    BY <1>2 DEF Timely, l
<1>5. Len(lg[l]) >= 2 => /\ \A h \in Games : IsCell(ce2, h, l) => IsCell(ce, h, l)
                         /\ \A g \in Games : IsBase(ba2, g, l) /\ ba2[g].addr = Nobody =>
                                                IsBase(ba, g, l) /\ ba[g].addr = Nobody
    BY <1>1, <1>3 DEF Fewer, Based
<1>6. Timely(p, m, lg2, ce2, ba2)
  <2>1. Len(lg2[l]) >= Needs(m)
      BY <1>3, <1>4
  <2>2. m.name \in {"on_cell_create", "create"} => Len(lg[l]) >= 2
      BY <1>1, <1>3, <1>4, NeedsType
  <2>3. m.to = "cell" /\ m.name \in {"ready", "on_client_reconnect_success"} => Len(lg[l]) >= 2
      BY <1>1, <1>3, <1>4, NeedsType
  <2> QED BY <1>2, <1>5, <2>1, <2>2, <2>3 DEF Timely, l
<1>7. IsSuccess(m) => Told(s, i - 1, l, lg2, ce2)
  <2>1. IsSuccess(m) => Len(lg[l]) >= 2
      BY <1>1, <1>3, <1>4, NeedsType DEF IsSuccess
  <2> QED BY <1>1, <1>2, <2>1, ToldLater
<1> QED BY <1>6, <1>7 DEF m, l

LEMMA QueueAppend ==
    ASSUME NEW p, NEW s \in Seq(Letters), NEW m \in Letters, NEW lg, NEW ce, NEW ba,
           QueueInv(p, s, lg, ce, ba), Timely(p, m, lg, ce, ba),
           IsSuccess(m) => Told(s, Len(s), m.life, lg, ce)
    PROVE  QueueInv(p, Append(s, m), lg, ce, ba)
<1> SUFFICES ASSUME NEW i \in 1 .. Len(s) + 1
             PROVE  /\ Timely(p, Append(s, m)[i], lg, ce, ba)
                    /\ IsSuccess(Append(s, m)[i]) =>
                          Told(Append(s, m), i - 1, Append(s, m)[i].life, lg, ce)
    BY DEF QueueInv
<1>1. CASE i = Len(s) + 1
  <2>1. Append(s, m)[i] = m /\ i - 1 = Len(s) /\ Len(s) \in 0 .. Len(s)
      BY <1>1
  <2>2. IsSuccess(m) => Told(Append(s, m), Len(s), m.life, lg, ce)
      BY <2>1, ToldMore
  <2> QED BY <2>1, <2>2
<1>2. CASE i \in 1 .. Len(s)
  <2>1. Append(s, m)[i] = s[i] /\ i - 1 \in 0 .. Len(s)
      BY <1>2
  <2>2. Timely(p, s[i], lg, ce, ba) /\ (IsSuccess(s[i]) => Told(s, i - 1, s[i].life, lg, ce))
      BY <1>2 DEF QueueInv
  <2>3. IsSuccess(s[i]) => Told(Append(s, m), i - 1, s[i].life, lg, ce)
      BY <2>1, <2>2, ToldMore
  <2> QED BY <2>1, <2>2, <2>3
<1> QED BY <1>1, <1>2

(* An rpc that says ready leaves the queue when it has done its work, or *)
(* when there is no cell any more.                                       *)
Spent(m, lg, ce) ==
    \A l \in Lives : IsReady(m, l) => Len(lg[l]) >= 5 \/ \A h \in Games : ~IsCell(ce, h, l)

LEMMA ToldTail ==
    ASSUME NEW s \in Seq(Letters), s # <<>>, NEW n \in 1 .. Len(s), NEW l \in Lives,
           NEW lg, NEW ce, Spent(Head(s), lg, ce), Told(s, n, l, lg, ce)
    PROVE  Told(Tail(s), n - 1, l, lg, ce)
<1>1. /\ Len(Tail(s)) = Len(s) - 1
      /\ \A i \in 1 .. Len(Tail(s)) : Tail(s)[i] = s[i + 1]
    BY HeadTailProperties
<1>2. ASSUME NEW i \in 1 .. n, IsReady(s[i], l)
      PROVE  Told(Tail(s), n - 1, l, lg, ce)
  <2>1. CASE i = 1
      BY <1>2, <2>1 DEF Spent, Told
  <2>2. CASE i # 1
    <3>1. i - 1 \in 1 .. n - 1 /\ i - 1 \in 1 .. Len(Tail(s)) /\ (i - 1) + 1 = i
        BY <1>1, <2>2
    <3>2. Tail(s)[i - 1] = s[i]
        BY <1>1, <3>1
    <3> QED BY <1>2, <3>1, <3>2 DEF Told
  <2> QED BY <2>1, <2>2
<1> QED BY <1>2 DEF Told

LEMMA QueueTail ==
    ASSUME NEW p, NEW s \in Seq(Letters), s # <<>>, NEW lg, NEW ce, NEW ba,
           QueueInv(p, s, lg, ce, ba), Spent(Head(s), lg, ce)
    PROVE  QueueInv(p, Tail(s), lg, ce, ba)
<1>1. /\ Tail(s) \in Seq(Letters) /\ Len(Tail(s)) = Len(s) - 1
      /\ \A i \in 1 .. Len(Tail(s)) : Tail(s)[i] = s[i + 1]
    BY HeadTailProperties
<1> SUFFICES ASSUME NEW i \in 1 .. Len(Tail(s))
             PROVE  /\ Timely(p, Tail(s)[i], lg, ce, ba)
                    /\ IsSuccess(Tail(s)[i]) => Told(Tail(s), i - 1, Tail(s)[i].life, lg, ce)
    BY DEF QueueInv
<1>2. i + 1 \in 1 .. Len(s) /\ i \in 1 .. Len(s) /\ Tail(s)[i] = s[i + 1] /\ (i + 1) - 1 = i
    BY <1>1
<1>3. /\ Timely(p, s[i + 1], lg, ce, ba)
      /\ IsSuccess(s[i + 1]) => Told(s, i, s[i + 1].life, lg, ce)
    BY <1>2 DEF QueueInv
<1>4. s[i + 1].life \in Lives
    BY <1>2, LetterType
<1> QED BY <1>2, <1>3, <1>4, ToldTail

-----------------------------------------------------------------------------
(* What a step may do to the tables besides: entities go, but none comes *)
(* and no base changes.                                                  *)
Left(ce, ce2) ==
    \A h \in Games : ce2[h].there => ce[h].there /\ ce2[h].life = ce[h].life
Stay(ba, ba2) ==
    \A g \in Games : ba2[g].there =>
        /\ ba[g].there /\ ba2[g].life = ba[g].life /\ ba2[g].addr = ba[g].addr
        /\ ba2[g].ready => ba[g].ready

LEMMA ReadyPlaced ==
    ASSUME NEW q, NEW lg, NEW ce, NEW ba, Sized(lg), Placed(ba), BasesInv(q, lg, ce, ba),
           NEW g \in Games, ba[g].there, ba[g].ready
    PROVE  ba[g].addr \in Games
<1>1. Len(lg[ba[g].life]) \in Nat /\ Len(lg[ba[g].life]) >= 4
    BY DEF Sized, Placed, BasesInv
<1>2. ba[g].addr = Nobody => Len(lg[ba[g].life]) <= 2
    BY DEF BasesInv
<1> QED BY <1>1, <1>2 DEF Placed

LEMMA NetLater ==
    ASSUME NEW q \in [Links -> Seq(Letters)], NEW lg, NEW lg2, NEW ce, NEW ce2, NEW ba, NEW ba2,
           Sized(lg), Sized(lg2), Grown(lg, lg2), Fewer(lg, ce, ce2), Based(lg, ba, ba2),
           NetInv(q, lg, ce, ba)
    PROVE  NetInv(q, lg2, ce2, ba2)
<1>1. SUFFICES ASSUME NEW l \in Links PROVE QueueInv(l[2], q[l], lg2, ce2, ba2)
    BY DEF NetInv
<1>2. q[l] \in Seq(Letters) /\ QueueInv(l[2], q[l], lg, ce, ba)
    BY DEF NetInv
<1> QED BY <1>2, QueueLater

LEMMA BasesLater ==
    ASSUME NEW q, NEW lg, NEW lg2, NEW ce, NEW ce2, NEW ba, NEW ba2,
           Sized(lg), Sized(lg2), Grown(lg, lg2), Fewer(lg, ce, ce2), Stay(ba, ba2), Placed(ba),
           \A g \in Games : ba2[g].there /\ ba2[g].addr = Nobody => Len(lg2[ba2[g].life]) <= 2,
           BasesInv(q, lg, ce, ba)
    PROVE  BasesInv(q, lg2, ce2, ba2)
<1>1. \A l \in Lives : /\ Len(lg[l]) \in Nat /\ Len(lg2[l]) \in Nat
                       /\ Len(lg2[l]) >= Len(lg[l])
    BY DEF Sized, Grown
<1>2. ASSUME NEW g \in Games, ba2[g].there
      PROVE  /\ Len(lg2[ba2[g].life]) >= 1
             /\ IF ba2[g].addr = Nobody THEN Len(lg2[ba2[g].life]) <= 2
                ELSE /\ Len(lg2[ba2[g].life]) >= 2
                     /\ \A h \in Games : IsCell(ce2, h, ba2[g].life) => h = ba2[g].addr
             /\ ba2[g].ready =>
                   /\ Len(lg2[ba2[g].life]) >= 4
                   /\ Told(q[<<g, ba2[g].addr>>], Len(q[<<g, ba2[g].addr>>]),
                           ba2[g].life, lg2, ce2)
  <2> DEFINE l == ba[g].life
             a == ba[g].addr
             s == q[<<g, a>>]
  <2>1. /\ ba[g].there /\ ba2[g].life = l /\ ba2[g].addr = a
        /\ ba2[g].ready => ba[g].ready
      BY <1>2 DEF Stay
  <2>2. l \in Lives
      BY <2>1 DEF Placed
  <2>3. /\ Len(lg[l]) >= 1
        /\ a # Nobody => /\ Len(lg[l]) >= 2
                         /\ \A h \in Games : IsCell(ce, h, l) => h = a
        /\ ba[g].ready => Len(lg[l]) >= 4 /\ Told(s, Len(s), l, lg, ce)
      BY <2>1 DEF BasesInv
  <2>4. a = Nobody => Len(lg2[l]) <= 2
      BY <1>2, <2>1
  <2> HIDE DEF l, a, s
  <2>5. a # Nobody => \A h \in Games : IsCell(ce2, h, l) => h = a
      BY <1>1, <2>2, <2>3 DEF Fewer
  <2>6. ba[g].ready => Told(s, Len(s), l, lg2, ce2)
    <3>1. ba[g].ready => Len(lg[l]) >= 2
        BY <1>1, <2>2, <2>3
    <3> QED BY <2>2, <2>3, <3>1, ToldLater
  <2>7. /\ Len(lg2[l]) >= 1 /\ (a # Nobody => Len(lg2[l]) >= 2)
        /\ (ba[g].ready => Len(lg2[l]) >= 4)
      BY <1>1, <2>2, <2>3
  <2> QED BY <2>1, <2>4, <2>5, <2>6, <2>7 DEF s
<1>3. \A g, k \in Games : ba2[g].there /\ ba2[k].there /\ ba2[g].life = ba2[k].life => g = k
    BY DEF Stay, BasesInv
<1> QED BY <1>2, <1>3 DEF BasesInv

LEMMA CoreLater ==
    ASSUME NEW q \in [Links -> Seq(Letters)], NEW lg, NEW lg2, NEW ce, NEW ce2, NEW ba, NEW ba2,
           Sized(lg), Sized(lg2), Grown(lg, lg2), Left(ce, ce2), Stay(ba, ba2), Placed(ba),
           \A h \in Games : ce[h].there => ce[h].life \in Lives,
           \A g \in Games : ba2[g].there /\ ba2[g].addr = Nobody => Len(lg2[ba2[g].life]) <= 2,
           Core(q, lg, ce, ba)
    PROVE  Core(q, lg2, ce2, ba2)
<1>1. Fewer(lg, ce, ce2) /\ Based(lg, ba, ba2)
    BY DEF Fewer, Based, Left, Stay, IsCell, IsBase
<1>2. \A l \in Lives : /\ Len(lg[l]) \in Nat /\ Len(lg2[l]) \in Nat
                       /\ Len(lg2[l]) >= Len(lg[l])
    BY DEF Sized, Grown
<1>3. CellsInv(lg2, ce2)
  <2>1. ASSUME NEW h \in Games, ce2[h].there PROVE Len(lg2[ce2[h].life]) >= 2
    <3>1. ce[h].there /\ ce2[h].life = ce[h].life /\ ce[h].life \in Lives
        BY <2>1 DEF Left
    <3>2. Len(lg[ce[h].life]) >= 2
        BY <3>1 DEF Core, CellsInv
    <3> QED BY <1>2, <3>1, <3>2
  <2>2. \A h, k \in Games : ce2[h].there /\ ce2[k].there /\ ce2[h].life = ce2[k].life => h = k
      BY DEF Left, Core, CellsInv
  <2> QED BY <2>1, <2>2 DEF CellsInv
<1>4. NetInv(q, lg2, ce2, ba2)
    BY <1>1, NetLater DEF Core
<1>5. BasesInv(q, lg2, ce2, ba2)
    BY <1>1, BasesLater DEF Core
<1> QED BY <1>3, <1>4, <1>5 DEF Core

(* The next rpc is taken from queue k. *)
LEMMA CoreTail ==
    ASSUME NEW q \in [Links -> Seq(Letters)], NEW k \in Links, q[k] # <<>>,
           NEW lg, NEW ce, NEW ba, Sized(lg), Placed(ba),
           Spent(Head(q[k]), lg, ce), Core(q, lg, ce, ba)
    PROVE  Core([q EXCEPT ![k] = Tail(@)], lg, ce, ba)
<1> DEFINE r == [q EXCEPT ![k] = Tail(@)]
<1>1. \A l \in Links : r[l] = IF l = k THEN Tail(q[l]) ELSE q[l]
    OBVIOUS
<1>2. \A l \in Links : q[l] \in Seq(Letters)
    OBVIOUS
<1> HIDE DEF r
<1>3. NetInv(r, lg, ce, ba)
  <2>1. SUFFICES ASSUME NEW l \in Links PROVE QueueInv(l[2], r[l], lg, ce, ba)
      BY DEF NetInv
  <2>2. QueueInv(l[2], q[l], lg, ce, ba)
      BY DEF Core, NetInv
  <2>3. CASE l = k
      BY <1>1, <1>2, <2>2, <2>3, QueueTail
  <2>4. CASE l # k
      BY <1>1, <2>2, <2>4
  <2> QED BY <2>3, <2>4
<1>4. ASSUME NEW g \in Games, ba[g].there, ba[g].ready
      PROVE  Told(r[<<g, ba[g].addr>>], Len(r[<<g, ba[g].addr>>]), ba[g].life, lg, ce)
  <2> DEFINE l == <<g, ba[g].addr>>
             n == ba[g].life
  <2>1. l \in Links /\ n \in Lives
      BY <1>4, ReadyPlaced DEF Core, Placed, Links, Procs
  <2>2. Told(q[l], Len(q[l]), n, lg, ce)
      BY <1>4 DEF Core, BasesInv
  <2> HIDE DEF l, n
  <2>3. CASE l = k
    <3>0. q[l] \in Seq(Letters) /\ q[l] # <<>> /\ r[l] = Tail(q[l])
        BY <1>1, <1>2, <2>1, <2>3
    <3>1. r[l] = Tail(q[l]) /\ Len(q[l]) \in 1 .. Len(q[l]) /\ Len(r[l]) = Len(q[l]) - 1
        BY <3>0, HeadTailProperties
    <3> QED BY <1>2, <2>1, <2>2, <2>3, <3>1, ToldTail DEF l, n
  <2>4. CASE l # k
      BY <1>1, <2>1, <2>2, <2>4 DEF l, n
  <2> QED BY <2>3, <2>4
<1>5. BasesInv(r, lg, ce, ba)
    BY <1>4 DEF Core, BasesInv
<1> QED BY <1>3, <1>5 DEF Core, r

(* An rpc is sent. *)
LEMMA CoreSend ==
    ASSUME NEW q \in [Links -> Seq(Letters)], NEW x, NEW y, NEW m \in Letters,
           NEW lg, NEW ce, NEW ba, Sized(lg), Placed(ba), Core(q, lg, ce, ba),
           <<x, y>> \in Links => Timely(y, m, lg, ce, ba),
           <<x, y>> \in Links /\ IsSuccess(m) =>
               Told(q[<<x, y>>], Len(q[<<x, y>>]), m.life, lg, ce)
    PROVE  Core(Send(q, x, y, m), lg, ce, ba)
<1> DEFINE r == Send(q, x, y, m)
<1>1. \A l \in Links : r[l] = q[l] \/ (l = <<x, y>> /\ r[l] = Append(q[l], m))
    BY SendAt
<1>2. \A l \in Links : q[l] \in Seq(Letters)
    OBVIOUS
<1> HIDE DEF r
<1>3. NetInv(r, lg, ce, ba)
  <2>1. SUFFICES ASSUME NEW l \in Links PROVE QueueInv(l[2], r[l], lg, ce, ba)
      BY DEF NetInv
  <2>2. QueueInv(l[2], q[l], lg, ce, ba)
      BY DEF Core, NetInv
  <2>3. CASE r[l] = q[l]
      BY <2>2, <2>3
  <2>4. CASE l = <<x, y>> /\ r[l] = Append(q[l], m)
    <3>1. l[2] = y /\ Timely(y, m, lg, ce, ba)
          /\ (IsSuccess(m) => Told(q[l], Len(q[l]), m.life, lg, ce))
        BY <2>4
    <3> QED BY <1>2, <2>2, <2>4, <3>1, QueueAppend
  <2> QED BY <1>1, <2>3, <2>4
<1>4. ASSUME NEW g \in Games, ba[g].there, ba[g].ready
      PROVE  Told(r[<<g, ba[g].addr>>], Len(r[<<g, ba[g].addr>>]), ba[g].life, lg, ce)
  <2> DEFINE l == <<g, ba[g].addr>>
             n == ba[g].life
  <2>1. l \in Links
      BY <1>4, ReadyPlaced DEF Core, Links, Procs
  <2>2. Told(q[l], Len(q[l]), n, lg, ce)
      BY <1>4 DEF Core, BasesInv
  <2> HIDE DEF l, n
  <2>3. CASE r[l] = Append(q[l], m)
    <3>1. /\ Len(q[l]) \in 0 .. Len(q[l]) /\ Len(r[l]) = Len(q[l]) + 1
          /\ Len(r[l]) \in Len(q[l]) .. Len(q[l]) + 1
        BY <1>2, <2>1, <2>3
    <3> QED BY <1>2, <2>1, <2>2, <2>3, <3>1, ToldMore DEF l, n
  <2>4. CASE r[l] = q[l]
      BY <2>2, <2>4 DEF l, n
  <2> QED BY <1>1, <2>1, <2>3, <2>4
<1>5. BasesInv(r, lg, ce, ba)
    BY <1>4 DEF Core, BasesInv
<1> QED BY <1>3, <1>5 DEF Core, r

-----------------------------------------------------------------------------
(* Every action keeps the invariant, as long as no rpc has crossed over *)
(* from one life to another.                                            *)
Going == TypeInv /\ StageInv /\ ~crossed'

LEMMA Facts ==
    ASSUME TypeInv
    PROVE  /\ net \in [Links -> Seq(Letters)] /\ Sized(log) /\ Placed(base)
           /\ \A h \in Games : cell[h].there => cell[h].life \in Lives
           /\ lives \in Nat /\ MaxClients \in Nat
           /\ Games \subseteq Procs /\ Clients \subseteq Procs /\ Games \cap Clients = {}
           /\ Nobody \notin Games
<1>1. Sized(log)
  <2> DEFINE S == Range(Stages)
  <2>1. \A l \in Lives : log[l] \in Seq(S)
      BY DEF TypeInv, Notes
  <2> HIDE DEF S
  <2>2. \A l \in Lives : Len(log[l]) \in Nat
      BY <2>1
  <2> QED BY <2>2 DEF Sized
<1>2. lives \in Nat /\ MaxClients \in Nat
    BY ProcessesAssumption DEF TypeInv, Counting
<1>3. Placed(base)
    BY ThereIs DEF Placed
<1> QED BY <1>1, <1>2, <1>3, ThereIs, ProcessesAssumption DEF TypeInv, Sent, Procs

LEMMA NeedsOf ==
    ASSUME NEW life, NEW who
    PROVE  /\ Needs(Rpc("base", "on_cell_create", life, who)) = 2
           /\ Needs(Rpc("client", "create", life, who)) = 2
           /\ Needs(Rpc("client", "create_onreconnect", life, who)) = 3
           /\ Needs(Rpc("base", "ready", life, who)) = 3
           /\ Needs(Rpc("cell", "ready", life, who)) = 4
           /\ Needs(Rpc("client", "ready", life, who)) = 5
           /\ Needs(Rpc("base", "on_client_reconnect_success", life, who)) = 3
           /\ Needs(Rpc("cell", "on_client_reconnect_success", life, who)) = 4
           /\ Needs(Rpc("cell", "on_reconnect_fromclient", life, who)) = 4
           /\ Needs(Rpc("client", "on_kick", life, who)) = 0
           /\ \A to : Needs(Rpc(to, "destroy_self", life, who)) = 0
    BY DEF Needs, Rpc

(* When nothing is noted and no base or cell comes. *)
LEMMA CoreQuiet ==
    ASSUME TypeInv, NEW q \in [Links -> Seq(Letters)], Core(q, log, cell, base),
           Left(cell, cell'), Stay(base, base')
    PROVE  Core(q, log, cell', base')
<1>1. Grown(log, log)
    BY Facts DEF Sized, Grown
<1>2. \A g \in Games : base'[g].there /\ base'[g].addr = Nobody => Len(log[base'[g].life]) <= 2
    BY DEF Stay, Core, BasesInv
<1> QED BY <1>1, <1>2, Facts, CoreLater

LEMMA StageInjective ==
    \A i, j \in 1 .. 6 : Stages[i] = Stages[j] => i = j
    BY DEF Stages

(* When life l reaches its k-th stage and has the one before. *)
LEMMA NotedLater ==
    ASSUME TypeInv, ~crossed', NEW n \in Nat, LogInv(log, n), NEW l \in Lives, l <= n,
           NEW k \in 1 .. 6, Len(log[l]) >= k - 1, log' = Noted(l, Stages[k])
    PROVE  /\ LogInv(log', n) /\ Sized(log') /\ Grown(log, log') /\ Len(log'[l]) >= k
           /\ \A x \in Lives : x # l => log'[x] = log[x]
           /\ Len(log[l]) >= k => log' = log
           /\ Len(log'[l]) \in {k, Len(log[l])}
<1> DEFINE S == Range(Stages)
<1>1. /\ log \in [Lives -> Seq(S)] /\ Stages[k] \in S
      /\ \A x \in Lives : log[x] \in Seq(S) /\ Len(log[x]) \in Nat
  <2>1. \A x \in Lives : log[x] \in Seq(S)
      BY DEF TypeInv, Notes
  <2>2. Stages[k] \in S
    <3>1. DOMAIN Stages = 1 .. 6
        BY DEF Stages
    <3> QED BY <3>1 DEF Range
  <2> QED BY <2>1, <2>2, Facts DEF TypeInv, Notes, Sized
<1>2. \A x \in Lives : Len(log[x]) <= 6 /\ \A i \in 1 .. Len(log[x]) : log[x][i] = Stages[i]
    BY DEF LogInv
<1>3. log' = IF Stages[k] \in Range(log[l]) THEN log ELSE [log EXCEPT ![l] = Append(@, Stages[k])]
    BY DEF Noted, Kept
<1>4. Stages[k] \in Range(log[l]) <=> Len(log[l]) >= k
  <2>1. Stages[k] \in Range(log[l]) <=> \E i \in 1 .. Len(log[l]) : log[l][i] = Stages[k]
    <3>1. DOMAIN log[l] = 1 .. Len(log[l])
        BY <1>1
    <3> QED BY <3>1 DEF Range
  <2>2. \A i \in 1 .. Len(log[l]) : i \in 1 .. 6 /\ log[l][i] = Stages[i]
      BY <1>1, <1>2
  <2>3. ASSUME NEW i \in 1 .. Len(log[l]), log[l][i] = Stages[k] PROVE Len(log[l]) >= k
    <3>1. i = k
        BY <2>2, <2>3, StageInjective
    <3> QED BY <1>1, <3>1
  <2>4. Len(log[l]) >= k => log[l][k] = Stages[k] /\ k \in 1 .. Len(log[l])
      BY <1>1, <2>2
  <2> QED BY <2>1, <2>3, <2>4
<1> HIDE DEF S
<1>5. CASE Len(log[l]) >= k
  <2>1. log' = log
      BY <1>3, <1>4, <1>5
  <2> QED BY <1>1, <1>5, <2>1 DEF Sized, Grown, LogInv
<1>6. CASE ~(Len(log[l]) >= k)
  <2>1. Len(log[l]) = k - 1
      BY <1>1, <1>6
  <2>2. log' = [log EXCEPT ![l] = Append(@, Stages[k])]
      BY <1>3, <1>4, <1>6
  <2>3. /\ log'[l] = Append(log[l], Stages[k]) /\ \A x \in Lives : x # l => log'[x] = log[x]
      BY <1>1, <2>2
  <2>4. Len(log'[l]) = k /\ log'[l][k] = Stages[k]
        /\ \A i \in 1 .. Len(log[l]) : log'[l][i] = log[l][i]
      BY <1>1, <2>1, <2>3
  <2>5. \A i \in 1 .. Len(log'[l]) : log'[l][i] = Stages[i]
    <3>1. \A i \in 1 .. k : i = k \/ i \in 1 .. Len(log[l])
        BY <2>1
    <3> QED BY <1>2, <2>4, <3>1
  <2>6. Sized(log') /\ Grown(log, log')
    <3>1. \A x \in Lives : Len(log'[x]) \in Nat /\ Len(log'[x]) >= Len(log[x])
      <4>1. Len(log'[l]) \in Nat /\ Len(log'[l]) >= Len(log[l])
          BY <2>1, <2>4
      <4>2. \A x \in Lives : x # l => Len(log'[x]) \in Nat /\ Len(log'[x]) >= Len(log[x])
          BY <1>1, <2>3
      <4> QED BY <4>1, <4>2
    <3> QED BY <3>1 DEF Sized, Grown
  <2>7. LogInv(log', n)
    <3>1. Len(log'[l]) <= 6 /\ ~(l > n)
        BY <2>4, Facts DEF Lives
    <3>2. \A x \in Lives : x # l =>
             /\ Len(log'[x]) <= 6 /\ \A i \in 1 .. Len(log'[x]) : log'[x][i] = Stages[i]
             /\ x > n => log'[x] = <<>>
        BY <2>3 DEF LogInv
    <3> QED BY <2>5, <3>1, <3>2 DEF LogInv
  <2> QED BY <1>6, <2>1, <2>3, <2>4, <2>6, <2>7
<1> QED BY <1>5, <1>6

LEMMA OrdersLater ==
    ASSUME NEW ors, NEW ors2 \in SUBSET ors, NEW lg, NEW lg2, OrdersInv(ors, lg),
           \A o \in ors2 : o.name = "cell" => lg2[o.life] = lg[o.life]
    PROVE  OrdersInv(ors2, lg2)
    BY DEF OrdersInv

LEMMA NotedStep ==
    ASSUME Going, UNCHANGED <<orders, lives>>, NEW l \in Lives, NEW k \in 3 .. 6,
           Len(log[l]) >= k - 1, log' = Noted(l, Stages[k])
    PROVE  /\ LogInv(log', lives') /\ OrdersInv(orders', log')
           /\ Sized(log') /\ Grown(log, log') /\ Len(log'[l]) >= k
           /\ \A x \in Lives : x # l => log'[x] = log[x]
           /\ Len(log[l]) >= k => log' = log
<1>0. Len(log[l]) \in Nat /\ Len(log[l]) >= 2 /\ Len(log[l]) # 1
  <2> DEFINE n == Len(log[l])
  <2>1. n \in Nat /\ n >= k - 1
      BY Facts DEF Going, Sized
  <2> HIDE DEF n
  <2>2. n >= 2 /\ n # 1
      BY <2>1
  <2> QED BY <2>1, <2>2 DEF n
<1>1. lives \in Nat /\ l \in Nat
    BY Facts DEF Going, Lives
<1>2. LogInv(log, lives) /\ OrdersInv(orders, log)
    BY DEF Going, StageInv
<1>3. l <= lives
  <2>1. l > lives => log[l] = <<>>
      BY <1>2 DEF LogInv
  <2>2. log[l] # <<>>
      BY <1>0
  <2> QED BY <1>1, <2>1, <2>2
<1>4. k \in 1 .. 6
    OBVIOUS
<1>5. /\ LogInv(log', lives) /\ Sized(log') /\ Grown(log, log') /\ Len(log'[l]) >= k
      /\ \A x \in Lives : x # l => log'[x] = log[x]
      /\ Len(log[l]) >= k => log' = log
    BY <1>1, <1>2, <1>3, <1>4, NotedLater DEF Going
<1>6. OrdersInv(orders, log')
  <2>1. ASSUME NEW o \in orders, o.name = "cell" PROVE log'[o.life] = log[o.life]
    <3>1. o.life \in Lives
        BY <2>1 DEF Going, TypeInv, Counting, Orders
    <3>2. Len(log[o.life]) = 1
        BY <1>2, <2>1 DEF OrdersInv
    <3>3. o.life # l
        BY <1>0, <3>2, Zenon
    <3> QED BY <1>5, <3>1, <3>3
  <2> QED BY <1>2, <2>1, OrdersLater
<1> QED BY <1>5, <1>6

LEMMA KeptStep ==
    ASSUME Going, UNCHANGED <<orders, lives>>, log' \in {log, Kept}
    PROVE  log' = log /\ LogInv(log', lives') /\ OrdersInv(orders', log')
<1>1. log' = log
    BY DEF Going, Kept
<1> QED BY <1>1 DEF Going, StageInv

(* No entity comes or goes but by connections, and no rpc is executed. *)
LEMMA OutsideStep ==
    ASSUME Going, NEW c \in Clients, Connect(c) \/ Disconnect(c)
    PROVE  StageInv'
<1>1. CASE Connect(c)
  <2>1. UNCHANGED <<net, log, cell, base, lives>>
        /\ orders' = orders \cup {[name |-> "entity", owner |-> c]}
      BY <1>1 DEF Connect, tables
  <2>2. OrdersInv(orders', log)
      BY <2>1 DEF Going, StageInv, OrdersInv
  <2> QED BY <2>1, <2>2 DEF Going, StageInv
<1>2. CASE Disconnect(c)
  <2>1. UNCHANGED <<log, cell, base, lives, orders>>
      BY <1>2 DEF Disconnect
  <2>2. /\ \A l \in Links : net'[l] = net[l] \/ net'[l] = <<>>
        /\ \A l \in Links : l[1] \in Games /\ l[2] \in Games => net'[l] = net[l]
    <3>1. PICK lost : net' = [l \in Links |-> IF l[2] = c \/ (l[1] = c /\ l[2] \in lost)
                                            THEN <<>> ELSE net[l]]
        BY <1>2 DEF Disconnect
    <3>2. c \notin Games
        BY Facts DEF Going
    <3> QED BY <3>1, <3>2
  <2>3. Core(net, log, cell, base)
      BY DEF Going, StageInv
  <2>4. NetInv(net', log, cell, base)
    <3>1. SUFFICES ASSUME NEW l \in Links PROVE QueueInv(l[2], net'[l], log, cell, base)
        BY DEF NetInv
    <3>2. QueueInv(l[2], net[l], log, cell, base) /\ QueueInv(l[2], <<>>, log, cell, base)
        BY <2>3 DEF Core, NetInv, QueueInv
    <3> QED BY <2>2, <3>2
  <2>5. BasesInv(net', log, cell, base)
    <3>1. ASSUME NEW g \in Games, base[g].there, base[g].ready
          PROVE  net'[<<g, base[g].addr>>] = net[<<g, base[g].addr>>]
      <4>1. base[g].addr \in Games
          BY <2>3, <3>1, Facts, ReadyPlaced DEF Going, Core
      <4> QED BY <2>2, <4>1 DEF Links, Procs
    <3> QED BY <2>3, <3>1 DEF Core, BasesInv
  <2> QED BY <2>1, <2>3, <2>4, <2>5 DEF Going, StageInv, Core
<1> QED BY <1>1, <1>2

(* Entities go. *)
LEMMA TimerStep ==
    ASSUME Going, NEW g \in Games,
           Tick(g) \/ BaseReadyCheck(g) \/ CellReadyCheck(g) \/ LoseTouch(g)
    PROVE  StageInv'
<1>1. UNCHANGED <<orders, lives, log>>
    BY DEF Tick, BaseReadyCheck, CellReadyCheck, LoseTouch
<1>2. LogInv(log', lives') /\ OrdersInv(orders', log')
    BY <1>1 DEF Going, StageInv
<1>3. ~None.there
    BY DEF None
<1>4. Left(cell, cell') /\ Stay(base, base')
  <2>1. \A h \in Games : (cell'[h] = cell[h] \/ cell'[h] = None)
                       /\ (base'[h] = base[h] \/ base'[h] = None)
    <3>1. DOMAIN cell = Games /\ DOMAIN base = Games
          /\ cell = [h \in Games |-> cell[h]] /\ base = [h \in Games |-> base[h]]
        BY DEF Going, TypeInv, Tables
    <3> QED BY <3>1 DEF Tick, BaseReadyCheck, CellReadyCheck, LoseTouch
  <2> QED BY <1>3, <2>1 DEF Left, Stay
<1>5. Core(net, log, cell', base')
    BY <1>4, Facts, CoreQuiet DEF Going, StageInv
<1> DEFINE N == [Links -> Seq(Letters)]
<1>6. Placed(base')
    BY <1>4, Facts DEF Placed, Stay, Going
<1>7. \A q \in N : \A m \in Letters : \A x, y :
         Core(q, log, cell', base') /\ m.name = "destroy_self" /\ Needs(m) = 0
            => Core(Send(q, x, y, m), log, cell', base')
  <2> SUFFICES ASSUME NEW q \in N, NEW m \in Letters, NEW x, NEW y,
                      Core(q, log, cell', base'), m.name = "destroy_self", Needs(m) = 0
               PROVE  Core(Send(q, x, y, m), log, cell', base')
      OBVIOUS
  <2>1. Timely(y, m, log, cell', base') /\ ~IsSuccess(m)
    <3>1. Len(log[m.life]) >= 0
        BY LetterType, Facts DEF Going, Sized
    <3> QED BY <3>1 DEF Timely, IsSuccess
  <2> QED BY <1>6, <2>1, Facts, CoreSend DEF Going
<1>8. Core(net', log, cell', base')
  <2>1. CASE Tick(g) \/ LoseTouch(g)
      BY <1>5, <2>1 DEF Tick, LoseTouch
  <2>2. ASSUME NEW l \in Lives, NEW to, NEW x, NEW y, to \in {"base", "cell"},
               net' = Send(Send(net, g, x, Rpc(to, "destroy_self", l, g)),
                           g, y, Rpc("client", "destroy_self", l, g))
        PROVE  Core(net', log, cell', base')
    <3> DEFINE m == Rpc(to, "destroy_self", l, g)
               n == Rpc("client", "destroy_self", l, g)
    <3>1. m \in Letters /\ n \in Letters
        BY <2>2, Facts, RpcType DEF Names, Going
    <3>2. m.name = "destroy_self" /\ n.name = "destroy_self" /\ Needs(m) = 0 /\ Needs(n) = 0
        BY NeedsOf DEF Rpc
    <3>3. net \in N /\ net' = Send(Send(net, g, x, m), g, y, n)
        BY <2>2, Facts DEF Going
    <3> HIDE DEF m, n, N
    <3>4. Send(net, g, x, m) \in N
        BY <3>1, <3>3, SendAt DEF N
    <3> QED BY <1>5, <1>7, <3>1, <3>2, <3>3, <3>4
  <2>3. CASE BaseReadyCheck(g)
    <3>1. base[g].life \in Lives
        BY <2>3, ThereIs DEF BaseReadyCheck, Going
    <3>2. net' = Send(Send(net, g, base[g].addr, Rpc("cell", "destroy_self", base[g].life, g)),
                      g, base[g].owner, Rpc("client", "destroy_self", base[g].life, g))
        BY <2>3 DEF BaseReadyCheck
    <3> QED BY <2>2, <3>1, <3>2
  <2>4. CASE CellReadyCheck(g)
    <3>1. cell[g].life \in Lives
        BY <2>4, ThereIs DEF CellReadyCheck, Going
    <3>2. net' = Send(Send(net, g, cell[g].addr, Rpc("base", "destroy_self", cell[g].life, g)),
                      g, cell[g].owner, Rpc("client", "destroy_self", cell[g].life, g))
        BY <2>4 DEF CellReadyCheck
    <3> QED BY <2>2, <3>1, <3>2
  <2> QED BY <2>1, <2>3, <2>4
<1> QED BY <1>1, <1>2, <1>8 DEF StageInv

LEMMA CreateEntityStep ==
    ASSUME Going, Next, NEW g \in Loads, NEW c \in Clients, CreateEntity(g, c)
    PROVE  StageInv'
<1>0. g \in Games
    BY ProcessesAssumption
<1>1. /\ Core(net, log, cell, base) /\ LogInv(log, lives) /\ OrdersInv(orders, log)
      /\ TypeInv
    BY DEF Going, StageInv
<1>2. CASE NotYet(g, c)
  <2>1. UNCHANGED <<net, log, cell, base, lives>> /\ orders' \subseteq orders
      BY <1>2 DEF NotYet
  <2> QED BY <1>1, <2>1, OrdersLater DEF StageInv
<1>3. CASE Reconnect(g, c)
  <2> DEFINE l == base[g].life
             kick == Rpc("client", "on_kick", l, g)
             come == Rpc("cell", "on_reconnect_fromclient", l, c)
             q == Send(net, g, base[g].owner, kick)
             N == [Links -> Seq(Letters)]
  <2>1. /\ base[g].there /\ base[g].ready /\ UNCHANGED <<log, cell, lives>>
        /\ base' = [base EXCEPT ![g].owner = c] /\ orders' \subseteq orders
        /\ net' = Send(q, g, base[g].addr, come)
      BY <1>3 DEF Reconnect
  <2>2. l \in Lives /\ Len(log[l]) \in Nat /\ Len(log[l]) >= 4
      BY <1>0, <1>1, <2>1, Facts, ThereIs DEF Core, BasesInv, Sized
  <2>3. kick \in Letters /\ come \in Letters
      BY <1>0, <1>1, <2>2, Facts, RpcType DEF Names
  <2>4. Left(cell, cell') /\ Stay(base, base')
    <3>1. \A h \in Games : /\ base'[h].there = base[h].there /\ base'[h].life = base[h].life
                          /\ base'[h].addr = base[h].addr /\ base'[h].ready = base[h].ready
      <4>1. base \in [Games -> Entities \cup {None}] /\ base[g] \in Entities
          BY <1>0, <1>1, <2>1, ThereIs DEF TypeInv, Tables
      <4> QED BY <2>1, <4>1 DEF Entities
    <3> QED BY <2>1, <3>1 DEF Left, Stay
  <2>5. Core(net, log, cell', base')
      BY <1>1, <2>4, Facts, CoreQuiet
  <2>6. Placed(base')
      BY <1>1, <2>4, Facts DEF Placed, Stay
  <2>7. /\ \A y : Timely(y, kick, log, cell', base')
        /\ \A y : Timely(y, come, log, cell', base')
        /\ ~IsSuccess(kick) /\ ~IsSuccess(come)
    <3>1. Needs(kick) = 0 /\ Needs(come) = 4 /\ kick.life = l /\ come.life = l
          /\ kick.name = "on_kick" /\ come.name = "on_reconnect_fromclient"
        BY NeedsOf DEF Rpc
    <3>2. Len(log[l]) >= 0 /\ Len(log[l]) >= 4
        BY <2>2
    <3> HIDE DEF kick, come, l
    <3> QED BY <3>1, <3>2 DEF Timely, IsSuccess
  <2> HIDE DEF kick, come, l, N
  <2>8. net \in N /\ q \in N /\ Sized(log)
      BY <1>1, <2>3, Facts, SendAt DEF N
  <2>9. Core(q, log, cell', base')
      BY <2>3, <2>5, <2>6, <2>7, <2>8, CoreSend DEF N
  <2> HIDE DEF q
  <2>10. Core(net', log, cell', base')
      BY <2>1, <2>3, <2>6, <2>7, <2>8, <2>9, CoreSend DEF N
  <2> QED BY <1>1, <2>1, <2>10, OrdersLater DEF StageInv
<1>4. CASE CreateBase(g, c)
  <2> DEFINE l == lives + 1
             o == [name |-> "cell", owner |-> c, base |-> g, life |-> l]
  <2>1. /\ UNCHANGED <<net, cell>> /\ lives' = l /\ log' = Noted(l, "base")
        /\ base' = [base EXCEPT ![g] = Entity(l, Nobody, c)]
        /\ \A r \in orders' : r.name = "cell" => r \in orders \/ r = o
      BY <1>4 DEF CreateBase
  <2>2. l \in Lives /\ l \in Nat /\ lives \in Nat
      BY <1>1, <2>1, CountingStep, Facts DEF Counting, Lives
  <2>3. log[l] = <<>> /\ Len(log[l]) = 0
      BY <1>1, <2>2 DEF LogInv
  <2>4. LogInv(log, l)
      BY <1>1, <2>2 DEF LogInv, Lives
  <2> HIDE DEF l
  <2>5. /\ LogInv(log', l) /\ Sized(log') /\ Grown(log, log') /\ Len(log'[l]) = 1
        /\ \A x \in Lives : x # l => log'[x] = log[x]
    <3> DEFINE n == Len(log[l])
               k == Len(log'[l])
    <3>1. 1 \in 1 .. 6 /\ Stages[1] = "base" /\ l <= l /\ Len(log[l]) >= 1 - 1
        BY <2>2, <2>3 DEF Stages
    <3>2. /\ LogInv(log', l) /\ Sized(log') /\ Grown(log, log') /\ k >= 1 /\ k \in {1, n}
          /\ \A x \in Lives : x # l => log'[x] = log[x]
        BY <1>1, <2>1, <2>2, <2>4, <3>1, NotedLater DEF Going
    <3>3. n = 0
        BY <2>3
    <3> HIDE DEF n, k
    <3>4. k = 1
        BY <3>2, <3>3
    <3> QED BY <3>2, <3>4 DEF k
  <2>6. OrdersInv(orders', log')
    <3>1. ASSUME NEW r \in orders, r.name = "cell"
          PROVE  r.life \in Lives /\ Len(log[r.life]) = 1 /\ r.life # l
      <4>1. r.life \in Lives
          BY <1>1, <3>1 DEF TypeInv, Counting, Orders
      <4>2. Len(log[r.life]) = 1
          BY <1>1, <3>1 DEF OrdersInv
      <4>3. Len(log[l]) # 1
          BY <2>3
      <4>4. r.life # l
          BY <4>2, <4>3, Zenon
      <4> QED BY <4>1, <4>2, <4>4
    <3>2. o.life = l
        OBVIOUS
    <3> HIDE DEF o
    <3>3. ASSUME NEW r \in orders', r.name = "cell"
          PROVE  /\ Len(log'[r.life]) = 1
                 /\ \A t \in orders' : t.name = "cell" /\ t.life = r.life => t = r
      <4>1. CASE r = o
          BY <2>1, <2>5, <3>1, <3>2, <4>1
      <4>2. CASE r \in orders
        <5>1. Len(log'[r.life]) = 1 /\ r.life # l
            BY <2>5, <3>1, <3>3, <4>2
        <5>2. \A t \in orders : t.name = "cell" /\ t.life = r.life => t = r
            BY <1>1, <3>3, <4>2 DEF OrdersInv
        <5> QED BY <2>1, <3>2, <5>1, <5>2
      <4> QED BY <2>1, <3>3, <4>1, <4>2
    <3> QED BY <3>3 DEF OrdersInv
  <2>7. \A h \in Games :
           /\ base[h].there => base[h].life \in Lives /\ base[h].life # l
           /\ cell[h].there => cell[h].life \in Lives /\ cell[h].life # l
    <3>1. \A h \in Games :
             /\ base[h].there => base[h].life \in Lives /\ Len(log[base[h].life]) >= 1
             /\ cell[h].there => cell[h].life \in Lives /\ Len(log[cell[h].life]) >= 2
        BY <1>1, Facts DEF Core, CellsInv, BasesInv, Placed
    <3>2. ~(Len(log[l]) >= 1) /\ ~(Len(log[l]) >= 2)
        BY <2>3
    <3> QED BY <3>1, <3>2, Zenon
  <2>8. Core(net, log', cell, base)
    <3>1. Left(cell, cell) /\ Stay(base, base)
        BY DEF Left, Stay
    <3>2. ASSUME NEW h \in Games, base[h].there, base[h].addr = Nobody
          PROVE  Len(log'[base[h].life]) <= 2
      <4>1. Len(log[base[h].life]) <= 2
          BY <1>1, <3>2 DEF Core, BasesInv
      <4>2. log'[base[h].life] = log[base[h].life]
          BY <2>5, <2>7, <3>2, Zenon
      <4> QED BY <4>1, <4>2, Zenon
    <3> QED BY <1>1, <2>5, <3>1, <3>2, Facts, CoreLater
  <2>9. /\ base'[g].there /\ ~base'[g].ready /\ base'[g].life = l /\ base'[g].addr = Nobody
        /\ \A h \in Games : h # g => base'[h] = base[h]
    <3>1. base \in [Games -> Entities \cup {None}]
        BY <1>1 DEF TypeInv, Tables
    <3>2. base'[g] = Entity(l, Nobody, c) /\ \A h \in Games : h # g => base'[h] = base[h]
        BY <1>0, <2>1, <3>1
    <3> DEFINE e == Entity(l, Nobody, c)
    <3>3. e.there /\ ~e.ready /\ e.life = l /\ e.addr = Nobody
        BY DEF Entity
    <3> HIDE DEF e
    <3> QED BY <3>2, <3>3, Zenon DEF e
  <2>10. NetInv(net, log', cell, base')
    <3>1. Fewer(log', cell, cell) /\ Grown(log', log')
        BY <2>5 DEF Fewer, Grown, Sized
    <3>2. Based(log', base, base')
      <4>1. Len(log'[l]) <= 1
          BY <2>5
      <4>2. ASSUME NEW h \in Games, NEW x \in Lives, IsBase(base', h, x), base'[h].addr = Nobody
            PROVE  (IsBase(base, h, x) /\ base[h].addr = Nobody) \/ Len(log'[x]) <= 1
        <5>1. CASE h = g
            BY <2>9, <4>1, <4>2, <5>1, Zenon DEF IsBase
        <5>2. CASE h # g
            BY <2>9, <4>2, <5>2, Zenon DEF IsBase
        <5> QED BY <5>1, <5>2
      <4> QED BY <4>2 DEF Based
    <3> QED BY <1>1, <2>5, <2>8, <3>1, <3>2, Facts, NetLater DEF Core
  <2>11. BasesInv(net, log', cell, base')
    <3>1. Len(log'[l]) >= 1 /\ Len(log'[l]) <= 2
        BY <2>5
    <3> QED BY <2>7, <2>8, <2>9, <3>1 DEF Core, BasesInv
  <2> QED BY <2>1, <2>5, <2>6, <2>8, <2>10, <2>11 DEF StageInv, Core, l
<1> QED BY <1>2, <1>3, <1>4 DEF CreateEntity

LEMMA CreateCellStep ==
    ASSUME Going, NEW g \in Games, CreateCell(g)
    PROVE  StageInv'
<1>1. /\ Core(net, log, cell, base) /\ LogInv(log, lives) /\ OrdersInv(orders, log)
      /\ TypeInv
    BY DEF Going, StageInv
<1>2. PICK o \in orders :
         /\ o.name = "cell" /\ cell' = [cell EXCEPT ![g] = Entity(o.life, o.base, o.owner)]
         /\ net' = Send(net, g, o.base, Rpc("base", "on_cell_create", o.life, g))
         /\ orders' = orders \ {o} /\ log' = Noted(o.life, "cell")
         /\ UNCHANGED <<base, lives>>
    BY DEF CreateCell
<1> DEFINE l == o.life
           m == Rpc("base", "on_cell_create", l, g)
<1>3. l \in Lives
    BY <1>1, <1>2 DEF TypeInv, Counting, Orders
<1>4. Len(log[l]) = 1
    BY <1>1, <1>2 DEF OrdersInv
<1>5. l <= lives /\ lives \in Nat /\ l \in Nat
  <2>1. lives \in Nat /\ l \in Nat
      BY <1>1, <1>3, Facts DEF Lives
  <2>2. log[l] # <<>>
      BY <1>4
  <2>3. l > lives => log[l] = <<>>
      BY <1>1, <1>3 DEF LogInv
  <2> QED BY <2>1, <2>2, <2>3
<1>6. log' = Noted(l, "cell") /\ m \in Letters /\ net' = Send(net, g, o.base, m)
      /\ Needs(m) = 2 /\ m.life = l /\ m.who = g /\ m.name = "on_cell_create" /\ m.to = "base"
    BY <1>1, <1>2, <1>3, Facts, RpcType, NeedsOf DEF Names, Rpc
<1>7. /\ cell'[g].there /\ cell'[g].life = l
      /\ \A h \in Games : h # g => cell'[h] = cell[h]
  <2> DEFINE e == Entity(l, o.base, o.owner)
  <2>1. cell' = [cell EXCEPT ![g] = e] /\ cell \in [Games -> Entities \cup {None}]
      BY <1>1, <1>2 DEF TypeInv, Tables
  <2>2. e.there /\ e.life = l
      BY DEF Entity
  <2> HIDE DEF e, l
  <2>3. cell'[g] = e /\ \A h \in Games : h # g => cell'[h] = cell[h]
      BY <2>1
  <2> QED BY <2>2, <2>3, Zenon
<1>8. OrdersInv(orders, log) /\ \A r \in orders' : r \in orders
                           /\ (r.name = "cell" => r.life \in Lives /\ r.life # l)
  <2>1. ASSUME NEW r \in orders', r.name = "cell" PROVE r.life \in Lives /\ r.life # l
    <3>1. r \in orders /\ r # o
        BY <1>2
    <3>2. r.life \in Lives
        BY <1>1, <2>1, <3>1 DEF TypeInv, Counting, Orders
    <3>3. r.life # o.life
        BY <1>1, <1>2, <2>1, <3>1 DEF OrdersInv
    <3> QED BY <3>2, <3>3
  <2> QED BY <1>1, <1>2, <2>1
<1> HIDE DEF l, m
<1>9. /\ LogInv(log', lives) /\ Sized(log') /\ Grown(log, log') /\ Len(log'[l]) = 2
      /\ \A x \in Lives : x # l => log'[x] = log[x]
  <2> DEFINE n == Len(log[l])
             k == Len(log'[l])
  <2>1. 2 \in 1 .. 6 /\ Stages[2] = "cell" /\ Len(log[l]) >= 2 - 1
      BY <1>4 DEF Stages
  <2>2. /\ LogInv(log', lives) /\ Sized(log') /\ Grown(log, log') /\ k >= 2 /\ k \in {2, n}
        /\ \A x \in Lives : x # l => log'[x] = log[x]
      BY <1>1, <1>3, <1>5, <1>6, <2>1, NotedLater DEF Going
  <2>3. n = 1
      BY <1>4
  <2> HIDE DEF n, k
  <2>4. k = 2
      BY <2>2, <2>3
  <2> QED BY <2>2, <2>4 DEF k
<1>10. OrdersInv(orders', log')
  <2>1. orders' \in SUBSET orders
      BY <1>2
  <2> QED BY <1>8, <1>9, <2>1, OrdersLater
<1>11. Fewer(log, cell, cell')
  <2> SUFFICES ASSUME NEW h \in Games, NEW x \in Lives, IsCell(cell', h, x)
               PROVE  IsCell(cell, h, x) \/ Len(log[x]) <= 1
      BY DEF Fewer
  <2>1. CASE h = g
    <3>1. x = l
        BY <1>7, <2>1 DEF IsCell
    <3>2. Len(log[l]) <= 1
        BY <1>4
    <3> QED BY <3>1, <3>2
  <2>2. CASE h # g
      BY <1>7, <2>2, Zenon DEF IsCell
  <2> QED BY <2>1, <2>2
<1>12. \A h \in Games : h # g /\ cell'[h].there =>
          cell[h].there /\ cell'[h].life = cell[h].life /\ cell'[h].life \in Lives
          /\ cell'[h].life # l /\ Len(log[cell[h].life]) >= 2
  <2> SUFFICES ASSUME NEW h \in Games, h # g, cell'[h].there
               PROVE  cell[h].there /\ cell'[h].life = cell[h].life /\ cell'[h].life \in Lives
                      /\ cell'[h].life # l /\ Len(log[cell[h].life]) >= 2
      OBVIOUS
  <2>1. cell'[h] = cell[h]
      BY <1>7
  <2>2. cell[h].life \in Lives /\ Len(log[cell[h].life]) >= 2
      BY <1>1, <2>1, Facts DEF Core, CellsInv
  <2>3. ~(Len(log[l]) >= 2)
      BY <1>4
  <2>4. cell[h].life # l
      BY <2>2, <2>3, Zenon
  <2> QED BY <2>1, <2>2, <2>4
<1>13. CellsInv(log', cell')
  <2>1. ASSUME NEW h \in Games, cell'[h].there PROVE Len(log'[cell'[h].life]) >= 2
    <3>1. CASE h = g
        BY <1>7, <1>9, <3>1
    <3>2. CASE h # g
        BY <1>9, <1>12, <2>1, <3>2
    <3> QED BY <3>1, <3>2
  <2>2. ASSUME NEW h \in Games, NEW k \in Games, cell'[h].there, cell'[k].there,
               cell'[h].life = cell'[k].life
        PROVE  h = k
    <3>1. CASE h # g /\ k # g
        BY <1>1, <1>12, <2>2, <3>1 DEF Core, CellsInv
    <3>2. CASE h = g \/ k = g
        BY <1>7, <1>12, <2>2, <3>2
    <3> QED BY <3>1, <3>2
  <2> QED BY <2>1, <2>2 DEF CellsInv
<1>14. Core(net, log', cell', base)
  <2>1. Based(log, base, base) /\ Stay(base, base)
      BY DEF Based, Stay
  <2>2. NetInv(net, log', cell', base)
      BY <1>1, <1>9, <1>11, <2>1, Facts, NetLater DEF Core
  <2>3. ASSUME NEW h \in Games, base[h].there, base[h].addr = Nobody
        PROVE  Len(log'[base[h].life]) <= 2
    <3>1. Len(log[base[h].life]) <= 2 /\ base[h].life \in Lives
        BY <1>1, <2>3, Facts DEF Core, BasesInv, Placed
    <3>2. Len(log'[l]) <= 2
        BY <1>9
    <3>3. CASE base[h].life = l
        BY <3>2, <3>3, Zenon
    <3>4. CASE base[h].life # l
        BY <1>9, <3>1, <3>4
    <3> QED BY <3>3, <3>4
  <2>4. BasesInv(net, log', cell', base)
      BY <1>1, <1>9, <1>11, <2>1, <2>3, Facts, BasesLater DEF Core
  <2> QED BY <1>13, <2>2, <2>4 DEF Core
<1>15. Core(net', log', cell', base)
  <2>1. \A h \in Games : IsCell(cell', h, l) => h = g
      BY <1>7, <1>12 DEF IsCell
  <2>2. Len(log'[l]) >= 2
      BY <1>9
  <2>3. Timely(o.base, m, log', cell', base) /\ ~IsSuccess(m)
      BY <1>6, <2>1, <2>2 DEF Timely, IsSuccess
  <2> QED BY <1>1, <1>6, <1>9, <1>14, <2>3, Facts, CoreSend
<1> QED BY <1>2, <1>9, <1>10, <1>15 DEF StageInv

(* Rpc m is taken from queue k, what is left is q. *)
Taking(k, m, q) ==
    net[k] # <<>> /\ m = Head(net[k]) /\ q = [net EXCEPT ![k] = Tail(@)]

LEMMA Taken ==
    ASSUME Going, NEW k \in Links, NEW m, NEW q, Taking(k, m, q)
    PROVE  /\ m \in Letters /\ m.life \in Lives /\ q \in [Links -> Seq(Letters)]
           /\ Timely(k[2], m, log, cell, base) /\ Len(log[m.life]) >= Needs(m)
           /\ IsSuccess(m) => Len(log[m.life]) >= 5
                              \/ \A h \in Games : ~IsCell(cell, h, m.life)
<1> DEFINE s == net[k]
<1>1. m \in Letters /\ q \in [Links -> Seq(Letters)]
    BY HeadType DEF Taking, Going, TypeInv
<1>2. s \in Seq(Letters) /\ s # <<>> /\ m = Head(s)
    BY Facts DEF Going, Taking
<1>3. QueueInv(k[2], s, log, cell, base)
    BY DEF Going, StageInv, Core, NetInv
<1> HIDE DEF s
<1>4. 1 \in 1 .. Len(s) /\ m = s[1] /\ 1 - 1 = 0
    BY <1>2
<1>5. Timely(k[2], m, log, cell, base) /\ (IsSuccess(m) => Told(s, 0, m.life, log, cell))
    BY <1>3, <1>4 DEF QueueInv
<1>6. 1 .. 0 = {}
    OBVIOUS
<1> QED BY <1>1, <1>5, <1>6, LetterType DEF Timely, Told

(* It has been executed, and no base or cell has come. *)
LEMMA TakenLater ==
    ASSUME Going, NEW k \in Links, NEW m, NEW q, Taking(k, m, q), NEW lg, NEW ce, NEW ba,
           Sized(lg), Grown(log, lg), Left(cell, ce), Stay(base, ba),
           \A g \in Games : ba[g].there /\ ba[g].addr = Nobody => Len(lg[ba[g].life]) <= 2,
           Spent(m, lg, ce)
    PROVE  Core(q, lg, ce, ba)
<1>1. Core(net, lg, ce, ba)
    BY Facts, CoreLater DEF Going, StageInv
<1>2. Placed(ba)
    BY Facts DEF Placed, Stay, Going
<1> QED BY <1>1, <1>2, Facts, CoreTail DEF Going, Taking

LEMMA TakenQuiet ==
    ASSUME Going, NEW k \in Links, NEW m, NEW q, Taking(k, m, q), NEW ce, NEW ba,
           Left(cell, ce), Stay(base, ba), Spent(m, log, ce)
    PROVE  Core(q, log, ce, ba)
<1>1. Grown(log, log)
    BY Facts DEF Sized, Grown, Going
<1>2. \A g \in Games : ba[g].there /\ ba[g].addr = Nobody => Len(log[ba[g].life]) <= 2
    BY DEF Stay, Going, StageInv, Core, BasesInv
<1> QED BY <1>1, <1>2, Facts, TakenLater DEF Going

(* An rpc that finds no entity. *)
LEMMA DropStep ==
    ASSUME Going, UNCHANGED <<orders, lives>>, NEW k \in Links, NEW m, NEW q, Taking(k, m, q),
           ~Addressed(k[2], m.to).there, net' = q, log' = Kept, UNCHANGED <<cell, base>>
    PROVE  StageInv'
<1>1. log' = log /\ LogInv(log', lives') /\ OrdersInv(orders', log')
    BY KeptStep
<1>2. Spent(m, log, cell)
  <2> SUFFICES ASSUME NEW l \in Lives, IsReady(m, l), NEW h \in Games, IsCell(cell, h, l)
               PROVE  FALSE
      BY DEF Spent
  <2>1. k[2] \in Games /\ h = k[2]
      BY Taken DEF Timely, IsReady
  <2> QED BY <2>1 DEF Addressed, IsReady, IsCell
<1>3. Left(cell, cell) /\ Stay(base, base)
    BY DEF Left, Stay
<1>4. Core(q, log, cell, base)
    BY <1>2, <1>3, TakenQuiet
<1> QED BY <1>1, <1>4 DEF StageInv

(* What is sent to a game arrives there. *)
LEMMA SendGame ==
    ASSUME NEW q \in [Links -> Seq(Letters)],
           NEW p \in Games, NEW d \in Games, NEW m \in Letters
    PROVE  /\ <<p, d>> \in Links
           /\ Send(q, p, d, m)[<<p, d>>] = Append(q[<<p, d>>], m)
<1>1. <<p, d>> \in Links
    BY DEF Links, Procs
<1>2. d # Nobody /\ d \notin Clients
    BY ProcessesAssumption
<1> QED BY <1>1, <1>2 DEF Send

(* The base learns where its cell is. *)
LEMMA OnCellCreateStep ==
    ASSUME Going, UNCHANGED <<orders, lives, cell>>, NEW k \in Links, NEW m, NEW q,
           Taking(k, m, q), NEW g \in Games, base[g].there, base[g].life = m.life,
           m.to = "base", OnCellCreate(g, m, q)
    PROVE  StageInv'
<1> DEFINE l == m.life
           a == m.who
           r == Rpc("client", "create", l, g)
<1>1. log' = log /\ LogInv(log', lives') /\ OrdersInv(orders', log')
    BY KeptStep DEF OnCellCreate
<1>2. /\ m \in Letters /\ l \in Lives /\ a \in Games /\ q \in [Links -> Seq(Letters)]
      /\ \A h \in Games : IsCell(cell, h, l) => h = a
      /\ Len(log[l]) >= Needs(m) /\ Needs(m) >= 2 /\ Needs(m) \in Nat
    BY Taken, LetterType, NeedsType DEF OnCellCreate, Timely
<1>3. Len(log[l]) \in Nat /\ Len(log[l]) >= 2
    BY <1>2, Facts DEF Sized, Going
<1>4. net' = Send(q, g, base[g].owner, r) /\ r \in Letters /\ Needs(r) = 2 /\ r.life = l
      /\ r.name = "create" /\ r.to = "client"
  <2>1. r \in Letters
      BY <1>2, Facts, RpcType DEF Names, Going
  <2>2. Needs(r) = 2 /\ r.life = l /\ r.name = "create" /\ r.to = "client"
      BY NeedsOf DEF Rpc
  <2>3. net' = Send(q, g, base[g].owner, r)
      BY DEF OnCellCreate
  <2> QED BY <2>1, <2>2, <2>3
<1>5. Core(q, log, cell, base)
  <2>1. Spent(m, log, cell)
      BY DEF Spent, IsReady
  <2>2. Left(cell, cell) /\ Stay(base, base)
      BY DEF Left, Stay
  <2> QED BY <2>1, <2>2, TakenQuiet
<1>6. /\ base'[g].there /\ base'[g].life = l /\ base'[g].addr = a
      /\ base'[g].ready = base[g].ready /\ a # Nobody
      /\ \A h \in Games : h # g => base'[h] = base[h]
  <2>1. base \in [Games -> Entities \cup {None}] /\ base[g] \in Entities
      BY ThereIs DEF Going, TypeInv, Tables
  <2>2. base' = [base EXCEPT ![g].addr = a]
      BY DEF OnCellCreate
  <2>3. base'[g] = [base[g] EXCEPT !.addr = a] /\ \A h \in Games : h # g => base'[h] = base[h]
      BY <2>1, <2>2
  <2>4. base'[g].there = base[g].there /\ base'[g].life = base[g].life /\ base'[g].addr = a
        /\ base'[g].ready = base[g].ready
      BY <2>1, <2>3 DEF Entities
  <2> QED BY <1>2, <2>3, <2>4, ProcessesAssumption
<1>7. /\ Sized(log) /\ Placed(base) /\ Placed(base')
  <2>1. Sized(log) /\ Placed(base)
      BY Facts DEF Going
  <2> QED BY <1>2, <1>6, <2>1 DEF Placed
<1> HIDE DEF l, a, r
<1>8. NetInv(q, log, cell, base')
  <2>1. Grown(log, log) /\ Fewer(log, cell, cell)
      BY <1>7 DEF Sized, Grown, Fewer
  <2>2. Based(log, base, base')
      BY <1>6 DEF Based, IsBase
  <2> QED BY <1>2, <1>5, <1>7, <2>1, <2>2, NetLater DEF Core
<1>9. base[g].ready => Len(log[l]) >= 4 /\ Told(q[<<g, a>>], Len(q[<<g, a>>]), l, log, cell)
  <2> SUFFICES ASSUME base[g].ready
               PROVE  Len(log[l]) >= 4 /\ Told(q[<<g, a>>], Len(q[<<g, a>>]), l, log, cell)
      OBVIOUS
  <2> DEFINE d == base[g].addr
  <2>1. Len(log[l]) >= 4 /\ Told(q[<<g, d>>], Len(q[<<g, d>>]), l, log, cell)
      BY <1>5 DEF Core, BasesInv, l
  <2>2. d \in Games
      BY <1>5, <1>7, ReadyPlaced DEF Core
  <2>3. \A h \in Games : IsCell(cell, h, l) => h = d
    <3>1. d # Nobody
        BY <2>2, ProcessesAssumption
    <3> QED BY <1>5, <3>1 DEF Core, BasesInv, l
  <2> HIDE DEF d
  <2>4. d = a \/ \A h \in Games : ~IsCell(cell, h, l)
      BY <1>2, <2>3
  <2> QED BY <2>1, <2>4 DEF Told
<1>10. BasesInv(q, log, cell, base')
  <2>1. \A h, j \in Games : base'[h].there /\ base'[j].there /\ base'[h].life = base'[j].life
                            => h = j
    <3>1. \A h \in Games : base'[h].there => base[h].there /\ base'[h].life = base[h].life
        BY <1>6 DEF l
    <3> QED BY <1>5, <3>1 DEF Core, BasesInv
  <2>2. ASSUME NEW h \in Games, base'[h].there
        PROVE  /\ Len(log[base'[h].life]) >= 1
               /\ IF base'[h].addr = Nobody THEN Len(log[base'[h].life]) <= 2
                  ELSE /\ Len(log[base'[h].life]) >= 2
                       /\ \A j \in Games : IsCell(cell, j, base'[h].life) => j = base'[h].addr
               /\ base'[h].ready =>
                     /\ Len(log[base'[h].life]) >= 4
                     /\ Told(q[<<h, base'[h].addr>>], Len(q[<<h, base'[h].addr>>]),
                             base'[h].life, log, cell)
    <3>1. CASE h # g
        BY <1>5, <1>6, <2>2, <3>1 DEF Core, BasesInv
    <3>2. CASE h = g
      <4>1. Len(log[l]) >= 1
          BY <1>3
      <4> QED BY <1>2, <1>3, <1>6, <1>9, <3>2, <4>1
    <3> QED BY <3>1, <3>2
  <2> QED BY <2>1, <2>2 DEF BasesInv
<1>11. Core(q, log, cell, base')
    BY <1>5, <1>8, <1>10 DEF Core
<1>12. Core(net', log, cell, base')
  <2>1. \A h \in Games : IsBase(base', h, l) => base'[h].addr # Nobody
    <3>1. \A h \in Games : IsBase(base', h, l) => h = g
        BY <1>6, <1>10 DEF BasesInv, IsBase
    <3> QED BY <1>6, <3>1
  <2>2. \A y : Timely(y, r, log, cell, base') /\ ~IsSuccess(r)
      BY <1>3, <1>4, <2>1 DEF Timely, IsSuccess
  <2> QED BY <1>2, <1>4, <1>7, <1>11, <2>2, CoreSend
<1> QED BY <1>1, <1>12 DEF StageInv

(* The base is told that its client is there. *)
LEMMA BaseReadyStep ==
    ASSUME Going, UNCHANGED <<orders, lives, cell>>, NEW k \in Links, NEW m, NEW q,
           Taking(k, m, q), NEW g \in Games, base[g].there, base[g].life = m.life,
           m.to = "base", BaseReady(g, m, q)
    PROVE  StageInv'
<1> DEFINE l == m.life
           d == base[g].addr
           r == Rpc("cell", "ready", l, g)
<1>1. /\ m \in Letters /\ l \in Lives /\ q \in [Links -> Seq(Letters)]
      /\ Len(log[l]) >= Needs(m) /\ Needs(m) = 3
    BY Taken DEF BaseReady, Needs
<1>2. log' = Noted(l, Stages[4]) /\ 4 \in 3 .. 6
    BY DEF BaseReady, Stages
<1>3. Sized(log) /\ Placed(base)
    BY Facts DEF Going
<1> HIDE DEF l
<1>4. Len(log[l]) \in Nat /\ Len(log[l]) >= 4 - 1 /\ Len(log[l]) >= 3
    BY <1>1, <1>3 DEF Sized
<1>5. /\ LogInv(log', lives') /\ OrdersInv(orders', log')
      /\ Sized(log') /\ Grown(log, log') /\ Len(log'[l]) >= 4
      /\ \A x \in Lives : x # l => log'[x] = log[x]
    BY <1>1, <1>2, <1>4, NotedStep
<1>6. d \in Games /\ \A h \in Games : IsCell(cell, h, l) => h = d
  <2>1. /\ d = Nobody => Len(log[l]) <= 2
        /\ d # Nobody => \A h \in Games : IsCell(cell, h, l) => h = d
      BY DEF Going, StageInv, Core, BasesInv, l
  <2>2. d # Nobody
      BY <1>4, <2>1
  <2> QED BY <1>3, <2>1, <2>2 DEF Placed
<1>7. Core(q, log', cell, base)
  <2>1. Spent(m, log', cell)
      BY DEF Spent, IsReady
  <2>2. Left(cell, cell) /\ Stay(base, base)
      BY DEF Left, Stay
  <2>3. ASSUME NEW h \in Games, base[h].there, base[h].addr = Nobody
        PROVE  Len(log'[base[h].life]) <= 2
    <3>1. Len(log[base[h].life]) <= 2 /\ base[h].life \in Lives
        BY <1>3, <2>3 DEF Going, StageInv, Core, BasesInv, Placed
    <3>2. ~(Len(log[l]) <= 2)
        BY <1>4
    <3>3. base[h].life # l
        BY <3>1, <3>2, Zenon
    <3> QED BY <1>5, <3>1, <3>3
  <2> QED BY <1>5, <2>1, <2>2, <2>3, TakenLater
<1>8. /\ net' = Send(q, g, d, r) /\ r \in Letters /\ Needs(r) = 4 /\ r.life = l
      /\ r.name = "ready" /\ r.to = "cell"
  <2>1. r \in Letters
      BY <1>1, Facts, RpcType DEF Names, Going, l
  <2>2. Needs(r) = 4 /\ r.life = l /\ r.name = "ready" /\ r.to = "cell"
      BY NeedsOf DEF Rpc, l
  <2>3. net' = Send(q, g, d, r)
      BY <1>1 DEF BaseReady, l
  <2> QED BY <2>1, <2>2, <2>3
<1> HIDE DEF d, r
<1>9. Core(net', log', cell, base)
  <2>1. Timely(d, r, log', cell, base) /\ ~IsSuccess(r)
      BY <1>5, <1>6, <1>8 DEF Timely, IsSuccess
  <2> QED BY <1>1, <1>3, <1>5, <1>7, <1>8, <2>1, CoreSend
<1>10. /\ base'[g].there /\ base'[g].life = l /\ base'[g].addr = d
       /\ \A h \in Games : h # g => base'[h] = base[h]
  <2>1. base \in [Games -> Entities \cup {None}] /\ base[g] \in Entities
      BY ThereIs DEF Going, TypeInv, Tables
  <2>2. base' = [base EXCEPT ![g].ready = TRUE]
      BY DEF BaseReady
  <2>3. base'[g] = [base[g] EXCEPT !.ready = TRUE] /\ \A h \in Games : h # g => base'[h] = base[h]
      BY <2>1, <2>2
  <2>4. base'[g].there = base[g].there /\ base'[g].life = base[g].life
        /\ base'[g].addr = base[g].addr
      BY <2>1, <2>3 DEF Entities
  <2> QED BY <2>3, <2>4 DEF l, d
<1>11. net' \in [Links -> Seq(Letters)]
    BY <1>1, <1>8, SendAt
<1>12. NetInv(net', log', cell, base')
  <2>1. Grown(log', log') /\ Fewer(log', cell, cell)
      BY <1>5 DEF Sized, Grown, Fewer
  <2>2. Based(log', base, base')
      BY <1>10 DEF Based, IsBase, l, d
  <2> QED BY <1>5, <1>9, <1>11, <2>1, <2>2, NetLater DEF Core
<1>13. Told(net'[<<g, d>>], Len(net'[<<g, d>>]), l, log', cell)
  <2> DEFINE s == q[<<g, d>>]
             t == net'[<<g, d>>]
  <2>1. t = Append(s, r) /\ s \in Seq(Letters)
      BY <1>1, <1>6, <1>8, SendGame
  <2> HIDE DEF s, t
  <2>2. Len(t) \in 1 .. Len(t) /\ t[Len(t)] = r
      BY <1>8, <2>1
  <2>3. IsReady(t[Len(t)], l)
      BY <1>8, <2>2 DEF IsReady
  <2> QED BY <2>2, <2>3 DEF Told, t
<1>14. BasesInv(net', log', cell, base')
  <2>1. \A h, j \in Games : base'[h].there /\ base'[j].there /\ base'[h].life = base'[j].life
                            => h = j
    <3>1. \A h \in Games : base'[h].there => base[h].there /\ base'[h].life = base[h].life
        BY <1>10 DEF l
    <3> QED BY <1>9, <3>1 DEF Core, BasesInv
  <2>2. ASSUME NEW h \in Games, base'[h].there
        PROVE  /\ Len(log'[base'[h].life]) >= 1
               /\ IF base'[h].addr = Nobody THEN Len(log'[base'[h].life]) <= 2
                  ELSE /\ Len(log'[base'[h].life]) >= 2
                       /\ \A j \in Games : IsCell(cell, j, base'[h].life) => j = base'[h].addr
               /\ base'[h].ready =>
                     /\ Len(log'[base'[h].life]) >= 4
                     /\ Told(net'[<<h, base'[h].addr>>], Len(net'[<<h, base'[h].addr>>]),
                             base'[h].life, log', cell)
    <3>1. CASE h # g
        BY <1>9, <1>10, <2>2, <3>1 DEF Core, BasesInv
    <3>2. CASE h = g
      <4>1. Len(log'[l]) >= 1 /\ Len(log'[l]) >= 2 /\ d # Nobody
        <5>1. Len(log'[l]) \in Nat
            BY <1>1, <1>5 DEF Sized
        <5>2. d # Nobody
            BY <1>6, ProcessesAssumption
        <5> QED BY <1>5, <5>1, <5>2
      <4> QED BY <1>5, <1>6, <1>10, <1>13, <3>2, <4>1
    <3> QED BY <3>1, <3>2
  <2> QED BY <2>1, <2>2 DEF BasesInv
<1>15. Core(net', log', cell, base')
    BY <1>9, <1>12, <1>14 DEF Core
<1> QED BY <1>5, <1>15 DEF StageInv

(* The base is told that its next client is there, or to destroy itself. *)
BaseQuietStep(g, m, q) ==
    \/ OnClientReconnectSuccess(g, m, q)
    \/ m.name = "destroy_self" /\ base' = [base EXCEPT ![g].doomed = TRUE]
       /\ net' = q /\ log' = Kept

LEMMA BaseOtherStep ==
    ASSUME Going, UNCHANGED <<orders, lives, cell>>, NEW k \in Links, NEW m, NEW q,
           Taking(k, m, q), NEW g \in Games, base[g].there,
           m.to = "base", BaseQuietStep(g, m, q)
    PROVE  StageInv'
<1> DEFINE l == base[g].life
           d == base[g].addr
           r == Rpc("cell", "on_client_reconnect_success", l, g)
<1>1. log' = log /\ LogInv(log', lives') /\ OrdersInv(orders', log')
    BY KeptStep DEF BaseQuietStep, OnClientReconnectSuccess
<1>2. m \in Letters /\ q \in [Links -> Seq(Letters)] /\ l \in Lives
    BY Taken, ThereIs DEF Going
<1>3. Sized(log) /\ Placed(base) /\ Left(cell, cell) /\ Stay(base, base)
    BY Facts DEF Going, Left, Stay
<1>4. Spent(m, log, cell)
    BY DEF Spent, IsReady
<1>5. Core(q, log, cell, base)
    BY <1>3, <1>4, TakenQuiet
<1>6. CASE m.name = "destroy_self" /\ base' = [base EXCEPT ![g].doomed = TRUE] /\ net' = q
  <2>1. \A h \in Games : /\ base'[h].there = base[h].there /\ base'[h].life = base[h].life
                        /\ base'[h].addr = base[h].addr /\ base'[h].ready = base[h].ready
    <3>1. base \in [Games -> Entities \cup {None}] /\ base[g] \in Entities
        BY ThereIs DEF Going, TypeInv, Tables
    <3> QED BY <1>6, <3>1 DEF Entities
  <2>2. Stay(base, base')
      BY <2>1 DEF Stay
  <2>3. Core(q, log, cell, base')
      BY <1>3, <1>4, <2>2, TakenQuiet
  <2> QED BY <1>1, <1>6, <2>3 DEF StageInv
<1>7. CASE OnClientReconnectSuccess(g, m, q)
  <2>1. base' = base /\ base[g].ready /\ net' \in {q, Send(q, g, d, r)}
      BY <1>7 DEF OnClientReconnectSuccess
  <2>2. r \in Letters /\ Needs(r) = 4 /\ r.life = l
        /\ r.name = "on_client_reconnect_success" /\ r.to = "cell"
      BY <1>2, Facts, RpcType, NeedsOf DEF Names, Rpc, Going
  <2>3. /\ Len(log[l]) >= 4
        /\ d # Nobody => \A h \in Games : IsCell(cell, h, l) => h = d
        /\ Told(q[<<g, d>>], Len(q[<<g, d>>]), l, log, cell)
      BY <1>5, <2>1 DEF Core, BasesInv
  <2>4. d \in Games /\ d # Nobody
      BY <1>3, <1>5, <2>1, ReadyPlaced, ProcessesAssumption DEF Core
  <2> HIDE DEF d, l, r
  <2>5. Timely(d, r, log, cell, base)
      BY <2>2, <2>3, <2>4 DEF Timely
  <2>6. Core(Send(q, g, d, r), log, cell, base)
      BY <1>2, <1>3, <1>5, <2>2, <2>3, <2>5, CoreSend
  <2> QED BY <1>1, <1>5, <2>1, <2>6 DEF StageInv
<1> QED BY <1>6, <1>7 DEF BaseQuietStep

LEMMA ExecBaseStep ==
    ASSUME Going, UNCHANGED <<orders, lives>>, NEW k \in Links, NEW m, NEW q,
           Taking(k, m, q), NEW g \in Games, ExecBase(g, m, q),
           Addressed(g, m.to).there /\ ~Creates(m) => Addressed(g, m.to).life = m.life
    PROVE  StageInv'
<1>1. m.to = "base" /\ base[g].there /\ cell' = cell
      /\ (OnCellCreate(g, m, q) \/ BaseReady(g, m, q) \/ BaseQuietStep(g, m, q))
    BY DEF ExecBase, BaseQuietStep
<1>2. OnCellCreate(g, m, q) \/ BaseReady(g, m, q) => base[g].life = m.life
    BY <1>1 DEF Addressed, Creates, OnCellCreate, BaseReady
<1> QED BY <1>1, <1>2, OnCellCreateStep, BaseReadyStep, BaseOtherStep

-----------------------------------------------------------------------------
(* A cell. *)

(* What executing an rpc does to the cell, its address and life apart. *)
LEMMA CellKept ==
    ASSUME TypeInv, NEW g \in Games, cell[g].there, NEW e \in Entities,
           e.life = cell[g].life, cell' = [cell EXCEPT ![g] = e]
    PROVE  Left(cell, cell') /\ cell'[g].there /\ cell'[g].life = cell[g].life
<1>1. cell'[g] = e /\ \A h \in Games : h # g => cell'[h] = cell[h]
    BY DEF TypeInv, Tables
<1>2. \A h \in Games : cell'[h].there => cell[h].there /\ cell'[h].life = cell[h].life
    BY <1>1
<1>3. e.there
    BY DEF Entities
<1> QED BY <1>1, <1>2, <1>3 DEF Left

LEMMA CellUpdates ==
    ASSUME TypeInv, NEW g \in Games, cell[g].there, NEW c \in Clients, NEW b \in BOOLEAN,
           \/ cell' = [cell EXCEPT ![g].owner = c]
           \/ cell' = [cell EXCEPT ![g].ready = @ \/ b]
           \/ cell' = [cell EXCEPT ![g].doomed = TRUE]
    PROVE  Left(cell, cell') /\ cell'[g].there /\ cell'[g].life = cell[g].life
<1> DEFINE e == cell[g]
<1>1. e \in Entities /\ cell \in [Games -> Entities \cup {None}]
    BY ThereIs DEF TypeInv, Tables
<1>2. /\ [e EXCEPT !.owner = c] \in Entities /\ [e EXCEPT !.owner = c].life = e.life
      /\ [e EXCEPT !.ready = @ \/ b] \in Entities /\ [e EXCEPT !.ready = @ \/ b].life = e.life
      /\ [e EXCEPT !.doomed = TRUE] \in Entities /\ [e EXCEPT !.doomed = TRUE].life = e.life
    BY <1>1 DEF Entities
<1>3. \/ cell' = [cell EXCEPT ![g] = [e EXCEPT !.owner = c]]
      \/ cell' = [cell EXCEPT ![g] = [e EXCEPT !.ready = @ \/ b]]
      \/ cell' = [cell EXCEPT ![g] = [e EXCEPT !.doomed = TRUE]]
    OBVIOUS
<1> QED BY <1>2, <1>3, CellKept

(* The cell is told that base and client are there. *)
LEMMA CellReadyStep ==
    ASSUME Going, UNCHANGED <<orders, lives, base>>, NEW k \in Links, NEW m, NEW q,
           Taking(k, m, q), NEW g \in Games, cell[g].there, cell[g].life = m.life,
           m.to = "cell", CellReady(g, m, q)
    PROVE  StageInv'
<1> DEFINE l == m.life
           d == cell[g].owner
           r == Rpc("client", "ready", l, g)
<1>1. /\ m \in Letters /\ l \in Lives /\ q \in [Links -> Seq(Letters)]
      /\ Len(log[l]) >= Needs(m) /\ Needs(m) = 4
      /\ IsSuccess(m) => Len(log[l]) >= 5 \/ \A h \in Games : ~IsCell(cell, h, l)
    BY Taken DEF CellReady, Needs
<1>2. Sized(log) /\ Placed(base)
    BY Facts DEF Going
<1>3. Left(cell, cell') /\ Stay(base, base')
  <2>1. cell' = [cell EXCEPT ![g].ready = @ \/ m.name = "ready"] /\ (m.name = "ready") \in BOOLEAN
      BY DEF CellReady
  <2>2. cell[g].owner \in Clients
      BY ThereIs DEF Going
  <2>3. Left(cell, cell')
      BY <2>1, <2>2, CellUpdates DEF Going
  <2> QED BY <2>3 DEF Stay
<1>4. IsCell(cell, g, l)
    BY DEF IsCell
<1>5. net' = Send(q, g, d, r) /\ r \in Letters /\ Needs(r) = 5 /\ r.life = l
      /\ r.name = "ready" /\ r.to = "client"
  <2>1. r \in Letters
      BY <1>1, Facts, RpcType DEF Names, Going
  <2>2. Needs(r) = 5 /\ r.life = l /\ r.name = "ready" /\ r.to = "client"
      BY NeedsOf DEF Rpc
  <2>3. net' = Send(q, g, d, r)
      BY <1>1 DEF CellReady
  <2> QED BY <2>1, <2>2, <2>3
<1> HIDE DEF l, d, r
<1>6. Len(log[l]) \in Nat /\ Len(log[l]) >= 5 - 1 /\ Len(log[l]) >= 3
    BY <1>1, <1>2 DEF Sized
<1>7. /\ LogInv(log', lives') /\ OrdersInv(orders', log')
      /\ Sized(log') /\ Grown(log, log') /\ Len(log'[l]) >= 5
      /\ \A x \in Lives : x # l => log'[x] = log[x]
  <2>1. CASE m.name = "ready"
    <3>1. log' = Noted(l, Stages[5]) /\ 5 \in 3 .. 6
        BY <2>1 DEF CellReady, Stages, l
    <3> QED BY <1>1, <1>6, <3>1, NotedStep
  <2>2. CASE m.name # "ready"
    <3>1. log' = log /\ LogInv(log', lives') /\ OrdersInv(orders', log')
        BY <2>2, KeptStep DEF CellReady
    <3>2. IsSuccess(m)
        BY <2>2 DEF IsSuccess, CellReady
    <3>3. Grown(log, log)
        BY <1>2 DEF Grown, Sized
    <3> QED BY <1>1, <1>2, <1>4, <3>1, <3>2, <3>3
  <2> QED BY <2>1, <2>2
<1>8. Core(q, log', cell', base')
  <2>1. Spent(m, log', cell')
      BY <1>7 DEF Spent, IsReady, l
  <2>2. ASSUME NEW h \in Games, base'[h].there, base'[h].addr = Nobody
        PROVE  Len(log'[base'[h].life]) <= 2
    <3>1. Len(log[base[h].life]) <= 2 /\ base[h].life \in Lives /\ base'[h].life = base[h].life
        BY <1>2, <2>2 DEF Going, StageInv, Core, BasesInv, Placed
    <3>2. ~(Len(log[l]) <= 2)
        BY <1>6
    <3>3. base[h].life # l
        BY <3>1, <3>2, Zenon
    <3> QED BY <1>7, <3>1, <3>3
  <2> QED BY <1>3, <1>7, <2>1, <2>2, TakenLater
<1>9. Core(net', log', cell', base')
  <2>1. \A y : Timely(y, r, log', cell', base') /\ ~IsSuccess(r)
      BY <1>5, <1>7 DEF Timely, IsSuccess
  <2> QED BY <1>1, <1>2, <1>5, <1>7, <1>8, <2>1, CoreSend
<1> QED BY <1>7, <1>9 DEF StageInv

(* The cell is told of another client, or to destroy itself. *)
CellQuietStep(g, m, q) ==
    \/ OnReconnectFromClient(g, m, q)
    \/ m.name = "destroy_self" /\ cell' = [cell EXCEPT ![g].doomed = TRUE]
       /\ net' = q /\ log' = Kept

LEMMA CellOtherStep ==
    ASSUME Going, UNCHANGED <<orders, lives, base>>, NEW k \in Links, NEW m, NEW q,
           Taking(k, m, q), NEW g \in Games, cell[g].there, cell[g].life = m.life,
           CellQuietStep(g, m, q)
    PROVE  StageInv'
<1> DEFINE l == m.life
           r == Rpc("client", "create_onreconnect", l, cell[g].addr)
<1>1. log' = log /\ LogInv(log', lives') /\ OrdersInv(orders', log')
    BY KeptStep DEF CellQuietStep, OnReconnectFromClient
<1>2. /\ m \in Letters /\ l \in Lives /\ q \in [Links -> Seq(Letters)]
      /\ Len(log[l]) >= Needs(m) /\ Sized(log) /\ Placed(base)
    BY Taken, Facts DEF Going
<1>3. cell[g].addr \in Games /\ cell[g].owner \in Clients
      /\ (m.name = "on_reconnect_fromclient" => m.who \in Clients)
    BY <1>2, ThereIs, LetterType DEF Going
<1>4. Left(cell, cell') /\ Stay(base, base')
  <2>1. TRUE \in BOOLEAN
      OBVIOUS
  <2>2. Left(cell, cell')
      BY <1>3, <2>1, CellUpdates DEF Going, CellQuietStep, OnReconnectFromClient
  <2> QED BY <2>2 DEF Stay
<1>5. Core(q, log', cell', base')
  <2>1. Spent(m, log, cell')
      BY DEF Spent, IsReady, CellQuietStep, OnReconnectFromClient
  <2> QED BY <1>1, <1>4, <2>1, TakenQuiet
<1>6. CASE net' = q
    BY <1>1, <1>5, <1>6 DEF StageInv
<1>7. CASE OnReconnectFromClient(g, m, q)
  <2>1. net' = Send(q, g, m.who, r) /\ r \in Letters /\ Needs(r) = 3 /\ r.life = l
        /\ r.name = "create_onreconnect" /\ r.to = "client" /\ Needs(m) = 4
      BY <1>2, <1>3, <1>7, RpcType, NeedsOf, Facts
         DEF OnReconnectFromClient, Names, Rpc, Needs, Going
  <2> HIDE DEF l, r
  <2>2. Len(log[l]) >= 3
      BY <1>2, <2>1 DEF Sized
  <2>3. \A y : Timely(y, r, log', cell', base') /\ ~IsSuccess(r)
      BY <1>1, <2>1, <2>2 DEF Timely, IsSuccess
  <2>4. Core(net', log', cell', base')
      BY <1>1, <1>2, <1>5, <2>1, <2>3, CoreSend
  <2> QED BY <1>1, <2>4 DEF StageInv
<1> QED BY <1>6, <1>7 DEF CellQuietStep

LEMMA ExecCellStep ==
    ASSUME Going, UNCHANGED <<orders, lives>>, NEW k \in Links, NEW m, NEW q,
           Taking(k, m, q), NEW g \in Games, ExecCell(g, m, q),
           Addressed(g, m.to).there /\ ~Creates(m) => Addressed(g, m.to).life = m.life
    PROVE  StageInv'
<1>1. m.to = "cell" /\ cell[g].there /\ base' = base
      /\ (CellReady(g, m, q) \/ CellQuietStep(g, m, q))
    BY DEF ExecCell, CellQuietStep
<1>2. cell[g].life = m.life
    BY <1>1 DEF Addressed, Creates, CellReady, CellQuietStep, OnReconnectFromClient
<1> QED BY <1>1, <1>2, CellReadyStep, CellOtherStep

-----------------------------------------------------------------------------
(* A client. *)

LEMMA CreateClientStep ==
    ASSUME Going, UNCHANGED <<orders, lives, base, cell>>, NEW k \in Links, NEW m, NEW q,
           Taking(k, m, q), NEW c \in Clients, m.to = "client", CreateClient(c, m, q)
    PROVE  StageInv'
<1> DEFINE l == m.life
           r == Rpc("base", IF m.name = "create" THEN "ready"
                            ELSE "on_client_reconnect_success", l, c)
<1>1. /\ m \in Letters /\ l \in Lives /\ q \in [Links -> Seq(Letters)]
      /\ Len(log[l]) >= Needs(m) /\ Needs(m) \in {2, 3}
      /\ m.name = "create" \/ Needs(m) = 3
      /\ m.name = "create" => \A h \in Games : IsBase(base, h, l) => base[h].addr # Nobody
    BY Taken DEF CreateClient, Needs, Timely
<1>2. Sized(log) /\ Placed(base) /\ Left(cell, cell') /\ Stay(base, base')
    BY Facts DEF Going, Left, Stay
<1>3. net' = Send(q, c, m.who, r) /\ r \in Letters /\ Needs(r) = 3 /\ r.life = l /\ r.to = "base"
      /\ r.name \in {"ready", "on_client_reconnect_success"}
  <2>1. \A name \in {"ready", "on_client_reconnect_success"} :
           Rpc("base", name, l, c) \in Letters /\ Needs(Rpc("base", name, l, c)) = 3
      BY <1>1, Facts, RpcType, NeedsOf DEF Names, Going
  <2>2. r.life = l /\ r.to = "base" /\ r.name \in {"ready", "on_client_reconnect_success"}
      BY DEF Rpc
  <2>3. net' = Send(q, c, m.who, r)
      BY DEF CreateClient
  <2> QED BY <2>1, <2>2, <2>3
<1> HIDE DEF l, r
<1>4. Len(log[l]) \in Nat /\ Len(log[l]) >= 3 - 1
    BY <1>1, <1>2 DEF Sized
<1>5. log' = Noted(l, Stages[3]) /\ 3 \in 3 .. 6
    BY DEF CreateClient, Stages, l
<1>6. /\ LogInv(log', lives') /\ OrdersInv(orders', log')
      /\ Sized(log') /\ Grown(log, log') /\ Len(log'[l]) >= 3
      /\ \A x \in Lives : x # l => log'[x] = log[x]
    BY <1>1, <1>4, <1>5, NotedStep
<1>7. Core(q, log', cell', base')
  <2>1. Spent(m, log', cell')
      BY DEF Spent, IsReady
  <2>2. ASSUME NEW h \in Games, base'[h].there, base'[h].addr = Nobody
        PROVE  Len(log'[base'[h].life]) <= 2
    <3>1. Len(log[base[h].life]) <= 2 /\ base[h].life \in Lives /\ base' = base
        BY <1>2, <2>2 DEF Going, StageInv, Core, BasesInv, Placed
    <3>2. base[h].life # l
      <4>1. CASE m.name = "create"
          BY <1>1, <2>2, <4>1, Zenon DEF IsBase
      <4>2. CASE Needs(m) = 3
        <5>1. ~(Len(log[l]) <= 2)
            BY <1>1, <1>4, <4>2
        <5> QED BY <3>1, <5>1, Zenon
      <4> QED BY <1>1, <4>1, <4>2
    <3> QED BY <1>6, <3>1, <3>2
  <2> QED BY <1>2, <1>6, <2>1, <2>2, TakenLater
<1>8. Core(net', log', cell', base')
  <2>1. \A y : Timely(y, r, log', cell', base') /\ ~IsSuccess(r)
      BY <1>3, <1>6 DEF Timely, IsSuccess
  <2> QED BY <1>1, <1>2, <1>3, <1>6, <1>7, <2>1, CoreSend
<1> QED BY <1>6, <1>8 DEF StageInv

LEMMA CallClientStep ==
    ASSUME Going, UNCHANGED <<orders, lives, base, cell>>, NEW k \in Links, NEW m, NEW q,
           Taking(k, m, q), NEW c \in Clients, m.to = "client", CallClient(c, m, q),
           client[c].life = m.life
    PROVE  StageInv'
<1> DEFINE l == m.life
<1>1. /\ m \in Letters /\ l \in Lives /\ Len(log[l]) >= Needs(m)
      /\ m.name = "ready" => Needs(m) = 5
    BY Taken DEF CallClient, Needs
<1>2. Sized(log) /\ Left(cell, cell') /\ Stay(base, base') /\ net' = q
    BY Facts DEF Going, Left, Stay, CallClient
<1> HIDE DEF l
<1>3. /\ LogInv(log', lives') /\ OrdersInv(orders', log') /\ Sized(log') /\ Grown(log, log')
      /\ \A x \in Lives : log'[x] = log[x] \/ (x = l /\ Len(log[l]) >= 5)
  <2>1. CASE m.name = "ready"
    <3>1. log' = Noted(l, Stages[6]) /\ 6 \in 3 .. 6
        BY <2>1 DEF CallClient, Stages, l
    <3>2. Len(log[l]) >= 6 - 1 /\ Len(log[l]) >= 5
        BY <1>1, <1>2, <2>1 DEF Sized
    <3> QED BY <1>1, <3>1, <3>2, NotedStep
  <2>2. CASE m.name # "ready"
    <3>1. log' = log /\ LogInv(log', lives') /\ OrdersInv(orders', log')
        BY <2>2, KeptStep DEF CallClient
    <3> QED BY <1>2, <3>1 DEF Grown, Sized
  <2> QED BY <2>1, <2>2
<1>4. Spent(m, log', cell')
    BY DEF Spent, IsReady
<1>5. ASSUME NEW h \in Games, base'[h].there, base'[h].addr = Nobody
      PROVE  Len(log'[base'[h].life]) <= 2
  <2>1. Len(log[base[h].life]) <= 2 /\ base[h].life \in Lives /\ base' = base
      BY <1>5, Facts DEF Going, StageInv, Core, BasesInv, Placed
  <2>2. CASE log'[base[h].life] = log[base[h].life]
      BY <2>1, <2>2, Zenon
  <2>3. CASE base[h].life = l /\ Len(log[l]) >= 5
    <3> DEFINE n == Len(log[l])
    <3>1. n <= 2 /\ n >= 5 /\ n \in Nat
        BY <1>1, <1>2, <2>1, <2>3, Zenon DEF Sized
    <3> HIDE DEF n
    <3> QED BY <3>1
  <2> QED BY <1>3, <2>1, <2>2, <2>3
<1>6. Core(net', log', cell', base')
    BY <1>2, <1>3, <1>4, <1>5, TakenLater
<1> QED BY <1>3, <1>6 DEF StageInv

LEMMA ExecClientStep ==
    ASSUME Going, UNCHANGED <<orders, lives>>, NEW k \in Links, NEW m, NEW q,
           Taking(k, m, q), NEW c \in Clients, ExecClient(c, m, q),
           Addressed(c, m.to).there /\ ~Creates(m) => Addressed(c, m.to).life = m.life
    PROVE  StageInv'
<1>1. m.to = "client" /\ UNCHANGED <<base, cell>>
      /\ (CreateClient(c, m, q) \/ CallClient(c, m, q))
    BY DEF ExecClient
<1>2. CallClient(c, m, q) => client[c].life = m.life
    BY <1>1 DEF Addressed, Creates, CallClient
<1> QED BY <1>1, <1>2, CreateClientStep, CallClientStep

LEMMA ExecStep ==
    ASSUME Going, NEW k \in Links, Exec(k[1], k[2])
    PROVE  StageInv'
<1> DEFINE m == Head(net[k])
           q == [net EXCEPT ![k] = Tail(@)]
           p == k[2]
<1>1. k = <<k[1], k[2]>>
    BY DEF Links
<1>2. UNCHANGED <<orders, lives>> /\ net[k] # <<>>
    BY <1>1 DEF Exec
<1>3. Taking(k, m, q)
    BY <1>2 DEF Taking
<1>4. \/ p \in Games /\ (ExecBase(p, m, q) \/ ExecCell(p, m, q))
      \/ p \in Clients /\ ExecClient(p, m, q)
      \/ ~Addressed(p, m.to).there /\ net' = q /\ log' = Kept /\ UNCHANGED <<base, cell>>
    BY <1>1 DEF Exec, tables
<1>5. Addressed(p, m.to).there /\ ~Creates(m) => Addressed(p, m.to).life = m.life
  <2>1. crossed' = (crossed \/ (Addressed(p, m.to).there /\ ~Creates(m)
                                  /\ Addressed(p, m.to).life # m.life))
      BY <1>1 DEF Exec
  <2> QED BY <2>1 DEF Going
<1> HIDE DEF m, q, p
<1>6. CASE p \in Games /\ ExecBase(p, m, q)
    BY <1>2, <1>3, <1>5, <1>6, ExecBaseStep
<1>7. CASE p \in Games /\ ExecCell(p, m, q)
    BY <1>2, <1>3, <1>5, <1>7, ExecCellStep
<1>8. CASE p \in Clients /\ ExecClient(p, m, q)
    BY <1>2, <1>3, <1>5, <1>8, ExecClientStep
<1>9. CASE ~Addressed(p, m.to).there /\ net' = q /\ log' = Kept /\ UNCHANGED <<base, cell>>
    BY <1>2, <1>3, <1>9, DropStep DEF p
<1> QED BY <1>4, <1>6, <1>7, <1>8, <1>9

-----------------------------------------------------------------------------
(* The invariant. *)

LEMMA InitStage == Init => StageInv
<1> SUFFICES ASSUME Init PROVE StageInv
    OBVIOUS
<1>1. /\ \A g \in Games : ~base[g].there /\ ~cell[g].there
      /\ \A l \in Links : net[l] = <<>>
      /\ \A l \in Lives : log[l] = <<>>
      /\ orders = {}
    BY DEF Init, None
<1>2. Core(net, log, cell, base)
  <2>1. \A l \in Links : QueueInv(l[2], net[l], log, cell, base)
      BY <1>1 DEF QueueInv
  <2> QED BY <1>1, <2>1 DEF Core, CellsInv, BasesInv, NetInv
<1>3. LogInv(log, lives) /\ OrdersInv(orders, log)
    BY <1>1 DEF LogInv, OrdersInv
<1> QED BY <1>2, <1>3 DEF StageInv

LEMMA StageStep ==
    ASSUME TypeInv, StageInv, [Next]_vars, ~crossed'
    PROVE  StageInv'
<1>1. Going
    BY DEF Going
<1>2. ASSUME UNCHANGED <<net, log, cell, base, orders, lives>> PROVE StageInv'
    BY <1>2 DEF StageInv
<1>3. ASSUME NEW c \in Clients, ClientTick(c) \/ ClientReadyCheck(c) PROVE StageInv'
    BY <1>2, <1>3 DEF ClientTick, ClientReadyCheck
<1>4. CASE UNCHANGED vars
    BY <1>2, <1>4 DEF vars, tables
<1>5. CASE Next
  <2>1. ASSUME NEW g \in Loads, NEW c \in Clients, CreateEntity(g, c) PROVE StageInv'
      BY <1>1, <1>5, <2>1, CreateEntityStep
  <2>2. ASSUME NEW l \in Links, Exec(l[1], l[2]) PROVE StageInv'
      BY <1>1, <2>2, ExecStep
  <2>3. ASSUME NEW g \in Games, CreateCell(g) PROVE StageInv'
      BY <1>1, <2>3, CreateCellStep
  <2>4. ASSUME NEW g \in Games,
               Tick(g) \/ BaseReadyCheck(g) \/ CellReadyCheck(g) \/ LoseTouch(g)
        PROVE  StageInv'
      BY <1>1, <2>4, TimerStep
  <2>5. ASSUME NEW c \in Clients, Connect(c) \/ Disconnect(c) PROVE StageInv'
      BY <1>1, <2>5, OutsideStep
  <2> QED BY <1>3, <1>5, <2>1, <2>2, <2>3, <2>4, <2>5 DEF Next, Progress
<1> QED BY <1>4, <1>5

(* What an rpc of another life has done remains noted. *)
LEMMA CrossedStays == TypeInv /\ [Next]_vars /\ crossed => crossed'
<1> SUFFICES ASSUME TypeInv, [Next]_vars, crossed PROVE crossed'
    OBVIOUS
<1>1. \/ crossed' = crossed
      \/ \E l \in Links : Exec(l[1], l[2])
    BY DEF Next, Progress, vars, Connect, Disconnect, CreateEntity, CreateCell, Tick,
           BaseReadyCheck, CellReadyCheck, LoseTouch, ClientTick, ClientReadyCheck
<1>2. ASSUME NEW l \in Links, Exec(l[1], l[2]) PROVE crossed'
    BY <1>2 DEF Exec
<1> QED BY <1>1, <1>2

LEMMA InvInStages == Inv => InStages
<1> SUFFICES ASSUME TypeInv, StageInv, NEW l \in Lives PROVE IsPrefix(log[l], Stages)
    BY DEF Inv, InStages
<1> DEFINE s == log[l]
<1>1. /\ Len(s) <= 6 /\ Len(s) \in Nat
      /\ \A i \in 1 .. Len(s) : s[i] = Stages[i]
    BY Facts DEF StageInv, LogInv, Sized
<1>2. s \in Seq(Range(Stages))
    BY DEF TypeInv, Notes
<1>3. Stages \in Seq(Range(Stages)) /\ Len(Stages) = 6
  <2>1. Stages \in Seq({"base", "cell", "client", "baseReady", "cellReady", "clientReady"})
      BY DEF Stages
  <2> QED BY <2>1, StageNames
<1> HIDE DEF s
<1>4. SubSeq(s, 1, Len(s)) = SubSeq(Stages, 1, Len(s))
  <2> DEFINE S == Range(Stages)
             u == Stages
             n == Len(s)
  <2>0. s \in Seq(S) /\ u \in Seq(S) /\ Len(u) = 6 /\ n \in Nat /\ n <= 6 /\ n = Len(s)
        /\ \A i \in 1 .. n : s[i] = u[i]
      BY <1>1, <1>2, <1>3
  <2> HIDE DEF S, u, n
  <2>1. SubSeq(s, 1, n) = SubSeq(u, 1, n)
      BY <2>0
  <2> QED BY <2>1 DEF u, n
<1> QED BY <1>1, <1>3, <1>4 DEF IsPrefix, s

(* README.md, 513-521: however creation, destruction, reconnection and the *)
(* timers of any number of clients interleave, each life of the entity     *)
(* goes through its six stages in their order, as long as no rpc of one    *)
(* life is executed by an entity of another.                               *)
THEOREM StagesInOrder == Spec => []InStages
<1>1. Init => Inv
    BY InitType, InitStage DEF Inv
<1>2. Inv /\ [Next]_vars => Inv'
  <2> SUFFICES ASSUME Inv, [Next]_vars PROVE Inv'
      OBVIOUS
  <2>1. TypeInv /\ TypeInv'
      BY TypeStep DEF Inv
  <2>2. ~crossed' => StageInv'
      BY <2>1, StageStep, CrossedStays DEF Inv
  <2> QED BY <2>1, <2>2 DEF Inv
<1>3. Inv => InStages
    BY InvInStages
<1> QED BY <1>1, <1>2, <1>3, PTL DEF Spec

-----------------------------------------------------------------------------
(***************************************************************************)
(* Who has the entity.  Handover speaks of the moment when nothing is      *)
(* under way; what it says holds then because at any other moment rpcs     *)
(* under way make up for what is missing.  The invariant below says which: *)
(* a kind of rpcs is a set of pairs of a link and an rpc, of which none is *)
(* under way, or at most one, or some.                                     *)
(***************************************************************************)
Posts == Links \X Letters

Absent(q, K) == \A l \in Links : \A i \in 1 .. Len(q[l]) : <<l, q[l][i]>> \notin K
AtMostOne(q, K) ==
    \A k, l \in Links : \A i \in 1 .. Len(q[k]), j \in 1 .. Len(q[l]) :
        <<k, q[k][i]>> \in K /\ <<l, q[l][j]>> \in K => k = l /\ i = j

(* What gives client c the entity of life l, on its last link and before; *)
(* and of any life: c's token, of which there is one.                     *)
Creations(c, l) == {x \in Posts : Creates(x[2]) /\ x[1][2] = c /\ x[2].life = l}
HandingTo(c, l) == {x \in Posts : x[2].name = "on_reconnect_fromclient"
                                  /\ x[2].who = c /\ x[2].life = l}
Tokens(c) == {x \in Posts : \/ Creates(x[2]) /\ x[1][2] = c
                            \/ x[2].name = "on_reconnect_fromclient" /\ x[2].who = c}
(* The reconnections of life l that have not reached its cell. *)
Handings(l) == {x \in Posts : x[2].name = "on_reconnect_fromclient" /\ x[2].life = l}
(* The cell's coming, and the chain of rpcs from there up to the base's *)
(* being ready.                                                         *)
News(l) == {x \in Posts : x[2].name = "on_cell_create" /\ x[2].life = l}
Chain(l) ==
    News(l) \cup {x \in Posts :
        /\ x[2].life = l
        /\ x[2].name = "create" \/ (x[2].name = "ready" /\ x[2].to = "base")}
(* What comes only after the base is ready. *)
Later(l) ==
    {x \in Posts :
        /\ x[2].life = l
        /\ \/ x[2].name \in {"on_reconnect_fromclient", "create_onreconnect"}
           \/ x[2].name = "on_client_reconnect_success" /\ x[2].to # "client"
           \/ x[2].name = "ready" /\ x[2].to # "base"}
ToClient(c) == {x \in Posts : x[1][2] = c}
(* Rpcs that name or reach another game than that of the base of the life, *)
(* or of its cell.                                                         *)
WrongBase(g, l) == {x \in Posts : Creates(x[2]) /\ x[2].life = l /\ x[2].who # g}
Astray(g, a, l) == {x \in Handings(l) : x[1] # <<g, a>> \/ x[2].to # "cell"}
WrongCell == {x \in Posts : /\ x[2].name = "on_cell_create"
                            /\ x[2].who # x[1][1] \/ x[2].to # "base"}

(* How client c's being there is made known to the base, before and after *)
(* the base is ready, from there to the cell, and its answer to c.        *)
Rights(c, g, l) == {x \in Posts : x[1] = <<c, g>> /\ x[2].to = "base" /\ x[2].life = l
                                  /\ x[2].name = "on_client_reconnect_success"}
Firsts(c, g, l) == {x \in Posts : x[1] = <<c, g>> /\ x[2].to = "base" /\ x[2].life = l
                                  /\ x[2].name = "ready"}
Relayed(g, a, l) == {x \in Posts : x[1] = <<g, a>> /\ x[2].to = "cell" /\ x[2].life = l
                       /\ x[2].name \in {"ready", "on_client_reconnect_success"}}
Answers(a, c, l) == {x \in Posts : x[1] = <<a, c>> /\ x[2].to = "client" /\ x[2].life = l
                       /\ x[2].name = "ready"}
Kicks(g, c) == {x \in Posts : x[1] = <<g, c>> /\ x[2].to = "client" /\ x[2].name = "on_kick"}

(* Life l waits for its cell; client c has not been served; c has the *)
(* entity in life l.                                                  *)
Ordered(ors, l) == \E o \in ors : o.name = "cell" /\ o.life = l
Fresh(cn, ors, c) == cn[c] = "new" \/ [name |-> "entity", owner |-> c] \in ors
Has(cl, c, l) == cl[c].there /\ cl[c].life = l

(* Only who is connected has an entity, is sent rpcs or owns a base. *)
ConnInv(q, ba, cl, cn) ==
    /\ \A c \in Clients : cl[c].there => cn[c] = "on"
    /\ \A c \in Clients : cn[c] # "on" => Absent(q, ToClient(c))
    /\ \A g \in Games : ba[g].there => cn[ba[g].owner] # "new"
(* Who has not been served has nothing, and nothing is on its way to it. *)
FreshInv(q, ba, cl, cn, ors) ==
    \A c \in Clients : Fresh(cn, ors, c) =>
        /\ Absent(q, Tokens(c)) /\ ~cl[c].there
        /\ \A g \in Games : ba[g].there => ba[g].owner # c
(* A client owns one base. *)
OwnersInv(ba) ==
    \A g, h \in Games : ba[g].there /\ ba[h].there /\ ba[g].owner = ba[h].owner => g = h
(* Where the base of a life is, its cell, orders and rpcs know. *)
AddrInv(q, ba, ce, ors) ==
    /\ Absent(q, WrongCell)
    /\ \A g \in Games : \A l \in Lives : IsBase(ba, g, l) =>
        /\ Absent(q, WrongBase(g, l))
        /\ \A h \in Games : IsCell(ce, h, l) => ce[h].addr = g
        /\ \A o \in ors : o.name = "cell" /\ o.life = l =>
               o.base = g /\ o.owner = ba[g].owner
(* The chain ends when the base is ready, the rest begins then. *)
LateInv(q, ba) ==
    \A g \in Games : \A l \in Lives : IsBase(ba, g, l) =>
        IF ba[g].ready THEN Absent(q, Chain(l)) ELSE Absent(q, Later(l))
ChainInv(q) == \A l \in Lives : AtMostOne(q, Chain(l))
(* As long as the cell is not known, the owner has nothing. *)
WaitInv(q, ba, cl, ors) ==
    \A g \in Games : \A l \in Lives :
        IsBase(ba, g, l) /\ (Ordered(ors, l) \/ ~Absent(q, News(l))) =>
            Absent(q, Tokens(ba[g].owner)) /\ ~cl[ba[g].owner].there
(* One token for each client, used up when it has the entity. *)
TokenInv(q, cl) ==
    \A c \in Clients : AtMostOne(q, Tokens(c)) /\ (cl[c].there => Absent(q, Tokens(c)))
(* Reconnections go from the base to its cell. *)
PlaceInv(q, ba) ==
    \A g \in Games : \A l \in Lives : IsBase(ba, g, l) => Absent(q, Astray(g, ba[g].addr, l))
(* The last client to reconnect has been through the cell before it has *)
(* the entity: no other can come after it.                              *)
SettledInv(q, ba, cl) ==
    \A g \in Games : \A l \in Lives : IsBase(ba, g, l) =>
        LET c == ba[g].owner
        IN  Has(cl, c, l) \/ ~Absent(q, Creations(c, l)) => Absent(q, Handings(l))
LivesInv(cl, n) == \A c \in Clients : cl[c].there => cl[c].life <= n

Tidy(q, ba, ce, cl, cn, ors, n) ==
    /\ FreshInv(q, ba, cl, cn, ors) /\ OwnersInv(ba) /\ AddrInv(q, ba, ce, ors)
    /\ LateInv(q, ba) /\ ChainInv(q) /\ WaitInv(q, ba, cl, ors) /\ TokenInv(q, cl)
    /\ PlaceInv(q, ba) /\ SettledInv(q, ba, cl) /\ LivesInv(cl, n)

(* The base's owner is the client of the last reconnection on the link to *)
(* the cell, or the cell's owner when there is none.                      *)
IsHanding(m, l) == m.name = "on_reconnect_fromclient" /\ m.life = l
Agreed(s, l, co, bo) ==
    \E i \in 0 .. Len(s) :
        /\ IF i = 0 THEN co = bo ELSE IsHanding(s[i], l) /\ s[i].who = bo
        /\ \A j \in i + 1 .. Len(s) : ~IsHanding(s[j], l)
AgreeInv(q, ba, ce) ==
    \A g, h \in Games : \A l \in Lives : IsBase(ba, g, l) /\ IsCell(ce, h, l) =>
        Agreed(q[<<g, h>>], l, ce[h].owner, ba[g].owner)
(* An owner that is not ready will be told: some rpc of the round through *)
(* base and cell is under way, unless the cell has gone.                  *)
Promised(q, ba, ce, g, c, l) ==
    \/ ~Absent(q, Rights(c, g, l))
    \/ ~ba[g].ready /\ ~Absent(q, Firsts(c, g, l))
    \/ /\ ba[g].ready
       /\ \/ \A h \in Games : ~IsCell(ce, h, l)
          \/ ~Absent(q, Relayed(g, ba[g].addr, l))
          \/ ~Absent(q, Answers(ba[g].addr, c, l))
ReadyInv(q, ba, ce, cl) ==
    \A g \in Games : \A l \in Lives :
        IsBase(ba, g, l) /\ Has(cl, ba[g].owner, l) /\ ~cl[ba[g].owner].ready =>
            Promised(q, ba, ce, g, ba[g].owner, l)
(* Whoever has the entity of a base, or will have, and does not own it has *)
(* been kicked (kd) or will be.                                            *)
KickInv(q, ba, cl, cn, kd) ==
    \A g \in Games : \A l \in Lives : \A c \in Clients :
        /\ IsBase(ba, g, l) /\ c # ba[g].owner /\ cn[c] # "gone"
        /\ Has(cl, c, l) \/ ~Absent(q, Creations(c, l)) \/ ~Absent(q, HandingTo(c, l))
        => c \in kd \/ ~Absent(q, Kicks(g, c))
(* A cell and a base that has its address are of one life, or the news of *)
(* the cell's life follows every other on the link to the base.           *)
IsNews(m, l) == m.name = "on_cell_create" /\ m.life = l
Behind(s, l) ==
    \A i \in 1 .. Len(s) : s[i].name = "on_cell_create" /\ s[i].life # l =>
        \E j \in i + 1 .. Len(s) : IsNews(s[j], l)
Comes(s, l) == \E j \in 1 .. Len(s) : IsNews(s[j], l)
NewsInv(q, ba, ce) ==
    \A g, h \in Games : ce[h].there /\ ce[h].addr = g =>
        /\ Behind(q[<<h, g>>], ce[h].life)
        /\ ba[g].there /\ ba[g].addr = h /\ ba[g].life # ce[h].life =>
               Comes(q[<<h, g>>], ce[h].life)

HandInv ==
    /\ ConnInv(net, base, client, conn)
    /\ Tidy(net, base, cell, client, conn, orders, lives)
    /\ AgreeInv(net, base, cell) /\ ReadyInv(net, base, cell, client)
    /\ KickInv(net, base, client, conn, kicked \cup missed) /\ NewsInv(net, base, cell)

-----------------------------------------------------------------------------
(* Kinds of rpcs: where none of a kind is under way, or at most one, and *)
(* what taking and sending rpcs does to that.                            *)

LEMMA TakenKinds ==
    ASSUME TypeInv, NEW k \in Links, NEW m, NEW q, Taking(k, m, q)
    PROVE  /\ m \in Letters /\ q \in [Links -> Seq(Letters)]
           /\ \A K : Absent(net, K) => Absent(q, K)
           /\ \A K : AtMostOne(net, K) => AtMostOne(q, K)
           /\ \A K : <<k, m>> \in K => ~Absent(net, K)
           /\ \A K : <<k, m>> \in K /\ AtMostOne(net, K) => Absent(q, K)
           /\ \A K : <<k, m>> \notin K /\ ~Absent(net, K) => ~Absent(q, K)
<1>0. net \in [Links -> Seq(Letters)]
    BY DEF TypeInv, Sent
<1>1. m \in Letters /\ q \in [Links -> Seq(Letters)]
    BY HeadType DEF Taking, TypeInv
<1>2. /\ net[k] \in Seq(Letters) /\ net[k] # <<>> /\ m = net[k][1]
      /\ Len(net[k]) \in Nat /\ 1 \in 1 .. Len(net[k])
    BY <1>0 DEF Taking
<1>3. \A l \in Links : q[l] = IF l = k THEN Tail(net[l]) ELSE net[l]
    BY <1>0 DEF Taking
<1>4. Len(q[k]) = Len(net[k]) - 1 /\ \A i \in 1 .. Len(q[k]) : q[k][i] = net[k][i + 1]
  <2> DEFINE s == net[k]
  <2>1. s \in Seq(Letters) /\ s # <<>> /\ q[k] = Tail(s)
      BY <1>2, <1>3
  <2> HIDE DEF s
  <2>2. Len(q[k]) = Len(s) - 1 /\ \A i \in 1 .. Len(q[k]) : q[k][i] = s[i + 1]
      BY <2>1, HeadTailProperties
  <2> QED BY <2>2 DEF s
<1> DEFINE old(l, i) == IF l = k THEN i + 1 ELSE i
<1>5. \A l \in Links : \A i \in 1 .. Len(q[l]) :
         old(l, i) \in 1 .. Len(net[l]) /\ q[l][i] = net[l][old(l, i)]
  <2> SUFFICES ASSUME NEW l \in Links, NEW i \in 1 .. Len(q[l])
               PROVE  old(l, i) \in 1 .. Len(net[l]) /\ q[l][i] = net[l][old(l, i)]
      OBVIOUS
  <2>1. CASE l = k
    <3>1. i + 1 \in 1 .. Len(net[k]) /\ q[k][i] = net[k][i + 1]
        BY <1>2, <1>4, <2>1
    <3> QED BY <2>1, <3>1
  <2>2. CASE l # k
      BY <1>3, <2>2
  <2> QED BY <2>1, <2>2
<1>6. \A l \in Links : \A i \in 1 .. Len(net[l]) :
         (l = k /\ i = 1) \/ \E j \in 1 .. Len(q[l]) : q[l][j] = net[l][i]
  <2> SUFFICES ASSUME NEW l \in Links, NEW i \in 1 .. Len(net[l]), ~(l = k /\ i = 1)
               PROVE  \E j \in 1 .. Len(q[l]) : q[l][j] = net[l][i]
      OBVIOUS
  <2>1. CASE l = k
    <3>1. i - 1 \in 1 .. Len(q[k]) /\ (i - 1) + 1 = i
        BY <1>2, <1>4, <2>1
    <3>2. q[k][i - 1] = net[k][i]
        BY <1>4, <3>1
    <3> QED BY <2>1, <3>1, <3>2
  <2>2. CASE l # k
      BY <1>3, <2>2
  <2> QED BY <2>1, <2>2
<1>7. \A l \in Links : \A i, j \in 1 .. Len(q[l]) : old(l, i) = old(l, j) => i = j
    OBVIOUS
<1>8. \A i \in 1 .. Len(q[k]) : old(k, i) # 1
    OBVIOUS
<1> HIDE DEF old
<1>9. \A K : Absent(net, K) => Absent(q, K)
    BY <1>5 DEF Absent
<1>10. \A K : AtMostOne(net, K) => AtMostOne(q, K)
  <2> SUFFICES ASSUME NEW K, AtMostOne(net, K), NEW l \in Links, NEW h \in Links,
                      NEW i \in 1 .. Len(q[l]), NEW j \in 1 .. Len(q[h]),
                      <<l, q[l][i]>> \in K, <<h, q[h][j]>> \in K
               PROVE  l = h /\ i = j
      BY DEF AtMostOne
  <2>1. /\ old(l, i) \in 1 .. Len(net[l]) /\ <<l, net[l][old(l, i)]>> \in K
        /\ old(h, j) \in 1 .. Len(net[h]) /\ <<h, net[h][old(h, j)]>> \in K
      BY <1>5
  <2>2. l = h /\ old(l, i) = old(h, j)
      BY <2>1 DEF AtMostOne
  <2> QED BY <1>7, <2>2
<1>11. \A K : <<k, m>> \in K => ~Absent(net, K)
    BY <1>2 DEF Absent
<1>12. \A K : <<k, m>> \in K /\ AtMostOne(net, K) => Absent(q, K)
  <2> SUFFICES ASSUME NEW K, <<k, m>> \in K, AtMostOne(net, K), NEW l \in Links,
                      NEW i \in 1 .. Len(q[l]), <<l, q[l][i]>> \in K
               PROVE  FALSE
      BY DEF Absent
  <2>1. old(l, i) \in 1 .. Len(net[l]) /\ <<l, net[l][old(l, i)]>> \in K
      BY <1>5
  <2>2. l = k /\ old(l, i) = 1
      BY <1>2, <2>1 DEF AtMostOne
  <2> QED BY <1>8, <2>2
<1>13. \A K : <<k, m>> \notin K /\ ~Absent(net, K) => ~Absent(q, K)
    BY <1>2, <1>6 DEF Absent
<1> QED BY <1>1, <1>9, <1>10, <1>11, <1>12, <1>13

LEMMA SentKinds ==
    ASSUME NEW q \in [Links -> Seq(Letters)], NEW p, NEW d, NEW m \in Letters
    PROVE  /\ \A K : Absent(q, K) /\ <<<<p, d>>, m>> \notin K => Absent(Send(q, p, d, m), K)
           /\ \A K : AtMostOne(q, K) /\ <<<<p, d>>, m>> \notin K
                         => AtMostOne(Send(q, p, d, m), K)
           /\ \A K : Absent(q, K) => AtMostOne(Send(q, p, d, m), K)
           /\ \A K : ~Absent(q, K) => ~Absent(Send(q, p, d, m), K)
           /\ \A K : /\ <<p, d>> \in Links /\ (d \in Games \/ (d \in Clients /\ conn[d] = "on"))
                     /\ <<<<p, d>>, m>> \in K
                     => ~Absent(Send(q, p, d, m), K)
<1> DEFINE k == <<p, d>>
           r == Send(q, p, d, m)
<1>1. /\ \A l \in Links : q[l] \in Seq(Letters) /\ Len(q[l]) \in Nat
      /\ \A l \in Links : r[l] = q[l] \/ (l = k /\ r[l] = Append(q[l], m))
    BY SendAt
<1>2. \A l \in Links : \A i \in 1 .. Len(r[l]) :
         (i \in 1 .. Len(q[l]) /\ r[l][i] = q[l][i]) \/ (l = k /\ i = Len(q[k]) + 1 /\ r[l][i] = m)
  <2> SUFFICES ASSUME NEW l \in Links, NEW i \in 1 .. Len(r[l])
               PROVE  \/ i \in 1 .. Len(q[l]) /\ r[l][i] = q[l][i]
                      \/ l = k /\ i = Len(q[k]) + 1 /\ r[l][i] = m
      OBVIOUS
  <2>1. CASE r[l] = q[l]
      BY <2>1
  <2>2. CASE l = k /\ r[l] = Append(q[l], m)
    <3> HIDE DEF k, r
    <3>1. q[l] \in Seq(Letters) /\ Len(r[l]) = Len(q[l]) + 1
        BY <1>1, <2>2
    <3> QED BY <2>2, <3>1
  <2> QED BY <1>1, <2>1, <2>2
<1>3. \A l \in Links : \A i \in 1 .. Len(q[l]) : i \in 1 .. Len(r[l]) /\ r[l][i] = q[l][i]
  <2> SUFFICES ASSUME NEW l \in Links, NEW i \in 1 .. Len(q[l])
               PROVE  i \in 1 .. Len(r[l]) /\ r[l][i] = q[l][i]
      OBVIOUS
  <2>1. CASE r[l] = q[l]
      BY <2>1
  <2>2. CASE r[l] = Append(q[l], m)
    <3> HIDE DEF k, r
    <3>1. q[l] \in Seq(Letters) /\ Len(r[l]) = Len(q[l]) + 1
        BY <1>1, <2>2
    <3> QED BY <2>2, <3>1
  <2> QED BY <1>1, <2>1, <2>2
<1>4. k \in Links /\ (d \in Games \/ (d \in Clients /\ conn[d] = "on")) =>
         \E i \in 1 .. Len(r[k]) : r[k][i] = m
  <2> SUFFICES ASSUME k \in Links, d \in Games \/ (d \in Clients /\ conn[d] = "on")
               PROVE  \E i \in 1 .. Len(r[k]) : r[k][i] = m
      OBVIOUS
  <2>1. r = [q EXCEPT ![k] = Append(@, m)]
      BY ProcessesAssumption DEF Send
  <2> HIDE DEF k, r
  <2>2. r[k] = Append(q[k], m) /\ q[k] \in Seq(Letters)
      BY <2>1
  <2>3. Len(r[k]) = Len(q[k]) + 1 /\ Len(q[k]) \in Nat /\ r[k][Len(q[k]) + 1] = m
      BY <2>2
  <2>4. Len(q[k]) + 1 \in 1 .. Len(r[k])
      BY <2>3
  <2> QED BY <2>3, <2>4
<1> HIDE DEF k, r
<1>5. \A K : Absent(q, K) /\ <<k, m>> \notin K => Absent(r, K)
    BY <1>2 DEF Absent
<1>6. \A K : AtMostOne(q, K) /\ <<k, m>> \notin K => AtMostOne(r, K)
  <2> SUFFICES ASSUME NEW K, AtMostOne(q, K), <<k, m>> \notin K, NEW l \in Links, NEW h \in Links,
                      NEW i \in 1 .. Len(r[l]), NEW j \in 1 .. Len(r[h]),
                      <<l, r[l][i]>> \in K, <<h, r[h][j]>> \in K
               PROVE  l = h /\ i = j
      BY DEF AtMostOne
  <2>1. i \in 1 .. Len(q[l]) /\ r[l][i] = q[l][i] /\ j \in 1 .. Len(q[h]) /\ r[h][j] = q[h][j]
      BY <1>2
  <2> QED BY <2>1 DEF AtMostOne
<1>7. \A K : Absent(q, K) => AtMostOne(r, K)
  <2> SUFFICES ASSUME NEW K, Absent(q, K), NEW l \in Links, NEW h \in Links,
                      NEW i \in 1 .. Len(r[l]), NEW j \in 1 .. Len(r[h]),
                      <<l, r[l][i]>> \in K, <<h, r[h][j]>> \in K
               PROVE  l = h /\ i = j
      BY DEF AtMostOne
  <2>1. l = k /\ i = Len(q[k]) + 1 /\ h = k /\ j = Len(q[k]) + 1
      BY <1>2 DEF Absent
  <2> QED BY <2>1
<1>8. \A K : ~Absent(q, K) => ~Absent(r, K)
    BY <1>3 DEF Absent
<1>9. \A K : /\ k \in Links /\ (d \in Games \/ (d \in Clients /\ conn[d] = "on"))
             /\ <<k, m>> \in K
             => ~Absent(r, K)
    BY <1>4 DEF Absent
<1> QED BY <1>5, <1>6, <1>7, <1>8, <1>9 DEF k, r

(* A gate lets nothing through to a client that has gone. *)
LEMMA SentToClient ==
    ASSUME NEW q \in [Links -> Seq(Letters)], NEW p, NEW d, NEW m \in Letters,
           NEW c \in Clients, conn[c] # "on", Absent(q, ToClient(c))
    PROVE  Absent(Send(q, p, d, m), ToClient(c))
<1>1. CASE d = c
    BY <1>1 DEF Send
<1>2. CASE d # c
    BY <1>2, SentKinds DEF ToClient
<1> QED BY <1>1, <1>2

(* A letter whose life has not got as far is not under way. *)
LEMMA Aged ==
    ASSUME TypeInv, StageInv, NEW K \in SUBSET Posts,
           \A x \in K : Len(log[x[2].life]) < Needs(x[2])
    PROVE  Absent(net, K)
<1> SUFFICES ASSUME NEW l \in Links, NEW i \in 1 .. Len(net[l]), <<l, net[l][i]>> \in K
             PROVE  FALSE
    BY DEF Absent
<1> DEFINE m == net[l][i]
<1>1. net[l] \in Seq(Letters) /\ m \in Letters
    BY DEF TypeInv, Sent
<1>2. Len(log[m.life]) >= Needs(m)
    BY DEF StageInv, Core, NetInv, QueueInv, Timely
<1>3. Len(log[m.life]) < Needs(m)
    OBVIOUS
<1>4. Len(log[m.life]) \in Nat /\ Needs(m) \in Nat
    BY <1>1, LetterType, NeedsType, Facts DEF Sized
<1> HIDE DEF m
<1> QED BY <1>2, <1>3, <1>4

(* How the kinds lie in each other. *)
Weighty == {x \in Posts : x[2].name \notin {"destroy_self", "on_kick"}}

LEMMA Kinds ==
    /\ WrongCell \in SUBSET Weighty
    /\ \A c \in Clients : Tokens(c) \in SUBSET Weighty
    /\ \A l \in Lives :
          /\ News(l) \in SUBSET Chain(l) /\ Chain(l) \in SUBSET Weighty
          /\ Handings(l) \in SUBSET Later(l) /\ Later(l) \in SUBSET Weighty
          /\ \A c \in Clients :
                /\ Creations(c, l) \in SUBSET Tokens(c)
                /\ HandingTo(c, l) \in SUBSET Tokens(c) /\ HandingTo(c, l) \in SUBSET Handings(l)
          /\ \A g : WrongBase(g, l) \in SUBSET Weighty
          /\ \A g, a : Astray(g, a, l) \in SUBSET Handings(l)
<1>1. WrongCell \in SUBSET Weighty
    BY DEF WrongCell, Weighty
<1>2. \A c \in Clients : Tokens(c) \in SUBSET Weighty
    BY DEF Tokens, Weighty, Creates
<1>3. ASSUME NEW l \in Lives
      PROVE  /\ News(l) \in SUBSET Chain(l) /\ Chain(l) \in SUBSET Weighty
             /\ Handings(l) \in SUBSET Later(l) /\ Later(l) \in SUBSET Weighty
    BY DEF News, Chain, Handings, Later, Weighty
<1>4. ASSUME NEW l \in Lives, NEW c \in Clients
      PROVE  /\ Creations(c, l) \in SUBSET Tokens(c)
             /\ HandingTo(c, l) \in SUBSET Tokens(c) /\ HandingTo(c, l) \in SUBSET Handings(l)
    BY DEF Creations, Tokens, HandingTo, Handings
<1>5. ASSUME NEW l \in Lives, NEW g PROVE WrongBase(g, l) \in SUBSET Weighty
    BY DEF WrongBase, Weighty, Creates
<1>6. ASSUME NEW l \in Lives, NEW g, NEW a PROVE Astray(g, a, l) \in SUBSET Handings(l)
    BY DEF Astray
<1> QED BY <1>1, <1>2, <1>3, <1>4, <1>5, <1>6

LEMMA AbsentPart ==
    ASSUME NEW q, NEW K, NEW J \in SUBSET K, Absent(q, K)
    PROVE  Absent(q, J)
    BY DEF Absent

LEMMA AbsentParts ==
    ASSUME NEW q
    PROVE  \A l \in Lives :
              /\ Absent(q, Chain(l)) => Absent(q, News(l))
              /\ Absent(q, Later(l)) => Absent(q, Handings(l))
              /\ \A c \in Clients :
                    /\ Absent(q, Tokens(c)) => Absent(q, Creations(c, l))
                    /\ Absent(q, Tokens(c)) => Absent(q, HandingTo(c, l))
                    /\ Absent(q, Handings(l)) => Absent(q, HandingTo(c, l))
              /\ \A g, a : Absent(q, Handings(l)) => Absent(q, Astray(g, a, l))
    BY Kinds, AbsentPart

(* Nothing of weight is under way that was not before. *)
Thin(q, r) ==
    \A K \in SUBSET Weighty : /\ Absent(q, K) => Absent(r, K)
                              /\ AtMostOne(q, K) => AtMostOne(r, K)

LEMMA ThinKinds ==
    ASSUME NEW q, NEW r, Thin(q, r)
    PROVE  /\ Absent(q, WrongCell) => Absent(r, WrongCell)
           /\ \A c \in Clients : /\ Absent(q, Tokens(c)) => Absent(r, Tokens(c))
                                 /\ AtMostOne(q, Tokens(c)) => AtMostOne(r, Tokens(c))
           /\ \A l \in Lives :
                 /\ Absent(q, News(l)) => Absent(r, News(l))
                 /\ Absent(q, Chain(l)) => Absent(r, Chain(l))
                 /\ AtMostOne(q, Chain(l)) => AtMostOne(r, Chain(l))
                 /\ Absent(q, Handings(l)) => Absent(r, Handings(l))
                 /\ Absent(q, Later(l)) => Absent(r, Later(l))
                 /\ \A c \in Clients :
                       /\ Absent(q, Creations(c, l)) => Absent(r, Creations(c, l))
                       /\ Absent(q, HandingTo(c, l)) => Absent(r, HandingTo(c, l))
                 /\ \A g : Absent(q, WrongBase(g, l)) => Absent(r, WrongBase(g, l))
                 /\ \A g, a : Absent(q, Astray(g, a, l)) => Absent(r, Astray(g, a, l))
<1>1. /\ WrongCell \in SUBSET Weighty /\ \A c \in Clients : Tokens(c) \in SUBSET Weighty
      /\ \A l \in Lives :
            /\ News(l) \in SUBSET Weighty /\ Chain(l) \in SUBSET Weighty
            /\ Handings(l) \in SUBSET Weighty /\ Later(l) \in SUBSET Weighty
            /\ \A c \in Clients : /\ Creations(c, l) \in SUBSET Weighty
                                  /\ HandingTo(c, l) \in SUBSET Weighty
            /\ \A g : WrongBase(g, l) \in SUBSET Weighty
            /\ \A g, a : Astray(g, a, l) \in SUBSET Weighty
    BY Kinds
<1> QED BY <1>1 DEF Thin

LEMMA ThinTrans ==
    ASSUME NEW q, NEW r, NEW s, Thin(q, r), Thin(r, s)
    PROVE  Thin(q, s)
    BY DEF Thin

LEMMA ThinTaken ==
    ASSUME TypeInv, NEW k \in Links, NEW m, NEW q, Taking(k, m, q)
    PROVE  Thin(net, q)
    BY TakenKinds DEF Thin

LEMMA ThinSent ==
    ASSUME NEW q \in [Links -> Seq(Letters)], NEW p, NEW d, NEW m \in Letters,
           m.name \in {"destroy_self", "on_kick"}
    PROVE  Thin(q, Send(q, p, d, m))
<1>1. \A K \in SUBSET Weighty : <<<<p, d>>, m>> \notin K
    BY DEF Weighty
<1> QED BY <1>1, SentKinds DEF Thin

-----------------------------------------------------------------------------
(* Entities go, orders are carried out and clients leave: what has not been *)
(* said before is not said now.                                             *)
BasesFade(ba, ba2) ==
    \A g \in Games : ba2[g].there =>
        /\ ba[g].there /\ ba2[g].life = ba[g].life /\ ba2[g].addr = ba[g].addr
        /\ ba2[g].owner = ba[g].owner /\ ba2[g].ready = ba[g].ready
CellsFade(ce, ce2) ==
    \A h \in Games : ce2[h].there =>
        ce[h].there /\ ce2[h].life = ce[h].life /\ ce2[h].addr = ce[h].addr
ClientsFade(cl, cl2) ==
    \A c \in Clients : cl2[c].there => cl[c].there /\ cl2[c].life = cl[c].life
Placing(ba) == \A g \in Games : ba[g].there => ba[g].owner \in Clients /\ ba[g].life \in Lives

LEMMA TidyLater ==
    ASSUME NEW q, NEW r, NEW ba, NEW ba2, NEW ce, NEW ce2, NEW cl, NEW cl2, NEW cn, NEW cn2,
           NEW ors, NEW ors2 \in SUBSET ors, NEW n,
           Thin(q, r), BasesFade(ba, ba2), CellsFade(ce, ce2), ClientsFade(cl, cl2),
           Placing(ba), \A c \in Clients : cn2[c] = "new" => cn[c] = "new",
           Tidy(q, ba, ce, cl, cn, ors, n)
    PROVE  Tidy(r, ba2, ce2, cl2, cn2, ors2, n)
<1>1. FreshInv(r, ba2, cl2, cn2, ors2)
  <2> SUFFICES ASSUME NEW c \in Clients, Fresh(cn2, ors2, c)
               PROVE  /\ Absent(r, Tokens(c)) /\ ~cl2[c].there
                      /\ \A g \in Games : ba2[g].there => ba2[g].owner # c
      BY DEF FreshInv
  <2>1. Fresh(cn, ors, c)
      BY DEF Fresh
  <2>2. /\ Absent(q, Tokens(c)) /\ ~cl[c].there
        /\ \A g \in Games : ba[g].there => ba[g].owner # c
      BY <2>1 DEF Tidy, FreshInv
  <2> QED BY <2>2, ThinKinds DEF BasesFade, ClientsFade
<1>2. OwnersInv(ba2)
    BY DEF Tidy, OwnersInv, BasesFade
<1>3. \A g \in Games : \A l \in Lives : IsBase(ba2, g, l) =>
         /\ IsBase(ba, g, l) /\ ba2[g].addr = ba[g].addr
         /\ ba2[g].owner = ba[g].owner /\ ba2[g].ready = ba[g].ready
         /\ ba[g].owner \in Clients
    BY DEF IsBase, BasesFade, Placing
<1>4. AddrInv(r, ba2, ce2, ors2)
  <2>1. Absent(r, WrongCell)
      BY ThinKinds DEF Tidy, AddrInv
  <2>2. ASSUME NEW g \in Games, NEW l \in Lives, IsBase(ba2, g, l)
        PROVE  /\ Absent(r, WrongBase(g, l))
               /\ \A h \in Games : IsCell(ce2, h, l) => ce2[h].addr = g
               /\ \A o \in ors2 : o.name = "cell" /\ o.life = l =>
                      o.base = g /\ o.owner = ba2[g].owner
    <3>1. /\ Absent(q, WrongBase(g, l))
          /\ \A h \in Games : IsCell(ce, h, l) => ce[h].addr = g
          /\ \A o \in ors : o.name = "cell" /\ o.life = l =>
                 o.base = g /\ o.owner = ba[g].owner
        BY <1>3, <2>2 DEF Tidy, AddrInv
    <3>2. \A h \in Games : IsCell(ce2, h, l) => IsCell(ce, h, l) /\ ce2[h].addr = ce[h].addr
        BY DEF CellsFade, IsCell
    <3> QED BY <1>3, <2>2, <3>1, <3>2, ThinKinds
  <2> QED BY <2>1, <2>2 DEF AddrInv
<1>5. LateInv(r, ba2)
    BY <1>3, ThinKinds DEF Tidy, LateInv
<1>6. ChainInv(r)
    BY ThinKinds DEF Tidy, ChainInv
<1>7. WaitInv(r, ba2, cl2, ors2)
  <2> SUFFICES ASSUME NEW g \in Games, NEW l \in Lives, IsBase(ba2, g, l),
                      Ordered(ors2, l) \/ ~Absent(r, News(l))
               PROVE  Absent(r, Tokens(ba2[g].owner)) /\ ~cl2[ba2[g].owner].there
      BY DEF WaitInv
  <2>1. Ordered(ors, l) \/ ~Absent(q, News(l))
      BY ThinKinds DEF Ordered
  <2>2. Absent(q, Tokens(ba[g].owner)) /\ ~cl[ba[g].owner].there
      BY <1>3, <2>1 DEF Tidy, WaitInv
  <2> QED BY <1>3, <2>2, ThinKinds DEF ClientsFade
<1>8. TokenInv(r, cl2)
    BY ThinKinds DEF Tidy, TokenInv, ClientsFade
<1>9. PlaceInv(r, ba2)
    BY <1>3, ThinKinds DEF Tidy, PlaceInv
<1>10. SettledInv(r, ba2, cl2)
  <2> SUFFICES ASSUME NEW g \in Games, NEW l \in Lives, IsBase(ba2, g, l),
                      Has(cl2, ba2[g].owner, l) \/ ~Absent(r, Creations(ba2[g].owner, l))
               PROVE  Absent(r, Handings(l))
      BY DEF SettledInv
  <2>1. Has(cl, ba[g].owner, l) \/ ~Absent(q, Creations(ba[g].owner, l))
      BY <1>3, ThinKinds DEF Has, ClientsFade
  <2>2. Absent(q, Handings(l))
      BY <1>3, <2>1 DEF Tidy, SettledInv
  <2> QED BY <2>2, ThinKinds
<1>11. LivesInv(cl2, n)
    BY DEF Tidy, LivesInv, ClientsFade
<1> QED BY <1>1, <1>2, <1>4, <1>5, <1>6, <1>7, <1>8, <1>9, <1>10, <1>11 DEF Tidy

-----------------------------------------------------------------------------
(* The owner in the cell's mailbox. *)

LEMMA AgreedAppend ==
    ASSUME NEW s \in Seq(Letters), NEW m \in Letters, NEW l, NEW co, NEW bo
    PROVE  /\ Agreed(s, l, co, bo) /\ ~IsHanding(m, l) => Agreed(Append(s, m), l, co, bo)
           /\ IsHanding(m, l) /\ m.who = bo => Agreed(Append(s, m), l, co, bo)
<1> DEFINE t == Append(s, m)
           n == Len(s)
<1>1. /\ n \in Nat /\ Len(t) = n + 1 /\ t[n + 1] = m
      /\ \A i \in 1 .. n : t[i] = s[i]
    OBVIOUS
<1> HIDE DEF t, n
<1>2. ASSUME Agreed(s, l, co, bo), ~IsHanding(m, l) PROVE Agreed(t, l, co, bo)
  <2>1. PICK i \in 0 .. n : /\ IF i = 0 THEN co = bo ELSE IsHanding(s[i], l) /\ s[i].who = bo
                            /\ \A j \in i + 1 .. n : ~IsHanding(s[j], l)
      BY <1>2 DEF Agreed, n
  <2>2. i \in 0 .. Len(t) /\ (i # 0 => t[i] = s[i])
      BY <1>1
  <2>3. \A j \in i + 1 .. Len(t) : ~IsHanding(t[j], l)
    <3> SUFFICES ASSUME NEW j \in i + 1 .. Len(t) PROVE ~IsHanding(t[j], l)
        OBVIOUS
    <3>1. j = n + 1 \/ (j \in i + 1 .. n /\ j \in 1 .. n)
        BY <1>1, <2>1
    <3> QED BY <1>1, <1>2, <2>1, <3>1
  <2> QED BY <2>1, <2>2, <2>3 DEF Agreed
<1>3. ASSUME IsHanding(m, l), m.who = bo PROVE Agreed(t, l, co, bo)
  <2>1. n + 1 \in 0 .. Len(t) /\ n + 1 # 0 /\ \A j \in (n + 1) + 1 .. Len(t) : FALSE
      BY <1>1
  <2>2. IsHanding(t[n + 1], l) /\ t[n + 1].who = bo
      BY <1>1, <1>3
  <2> QED BY <2>1, <2>2 DEF Agreed
<1> QED BY <1>2, <1>3 DEF t

LEMMA AgreedTail ==
    ASSUME NEW s \in Seq(Letters), s # <<>>, NEW l, NEW co, NEW bo, Agreed(s, l, co, bo)
    PROVE  Agreed(Tail(s), l, IF IsHanding(Head(s), l) THEN Head(s).who ELSE co, bo)
<1> DEFINE t == Tail(s)
           n == Len(s)
<1>1. /\ n \in Nat /\ n >= 1 /\ Len(t) = n - 1 /\ Head(s) = s[1]
      /\ \A i \in 1 .. n - 1 : t[i] = s[i + 1]
    BY HeadTailProperties
<1> HIDE DEF t, n
<1>2. PICK i \in 0 .. n : /\ IF i = 0 THEN co = bo ELSE IsHanding(s[i], l) /\ s[i].who = bo
                          /\ \A j \in i + 1 .. n : ~IsHanding(s[j], l)
    BY DEF Agreed, n
<1>3. \A k \in 0 .. n : k >= i - 1 => \A j \in k + 1 .. Len(t) : ~IsHanding(t[j], l)
  <2> SUFFICES ASSUME NEW k \in 0 .. n, k >= i - 1, NEW j \in k + 1 .. Len(t)
               PROVE  ~IsHanding(t[j], l)
      OBVIOUS
  <2>1. j + 1 \in i + 1 .. n /\ j \in 1 .. n - 1
      BY <1>1
  <2> QED BY <1>1, <1>2, <2>1
<1>4. CASE i = 0
  <2>1. ~IsHanding(s[1], l) /\ 0 \in 0 .. Len(t)
      BY <1>1, <1>2, <1>4
  <2> QED BY <1>1, <1>2, <1>3, <1>4, <2>1 DEF Agreed, t
<1>5. CASE i = 1
  <2>1. IsHanding(s[1], l) /\ s[1].who = bo /\ 0 \in 0 .. Len(t) /\ 0 \in 0 .. n /\ 0 >= i - 1
      BY <1>1, <1>2, <1>5
  <2>2. \A j \in 0 + 1 .. Len(t) : ~IsHanding(t[j], l)
      BY <1>3, <2>1
  <2> QED BY <1>1, <2>1, <2>2 DEF Agreed, t
<1>6. CASE i > 1
  <2>1. /\ i - 1 \in 0 .. Len(t) /\ i - 1 \in 0 .. n /\ i - 1 # 0 /\ i - 1 >= i - 1
        /\ t[i - 1] = s[i] /\ i # 0
      BY <1>1, <1>6
  <2>2. \A j \in (i - 1) + 1 .. Len(t) : ~IsHanding(t[j], l)
      BY <1>3, <2>1
  <2> QED BY <1>2, <2>1, <2>2 DEF Agreed, t
<1> QED BY <1>4, <1>5, <1>6

LEMMA AgreedNone ==
    ASSUME NEW s \in Seq(Letters), NEW l, NEW co, NEW bo,
           \A i \in 1 .. Len(s) : ~IsHanding(s[i], l)
    PROVE  Agreed(s, l, co, bo) <=> co = bo
<1> DEFINE n == Len(s)
<1>1. n \in Nat
    OBVIOUS
<1> HIDE DEF n
<1>2. Agreed(s, l, co, bo) => co = bo
  <2> SUFFICES ASSUME Agreed(s, l, co, bo) PROVE co = bo
      OBVIOUS
  <2>1. PICK i \in 0 .. n : IF i = 0 THEN co = bo ELSE IsHanding(s[i], l) /\ s[i].who = bo
      BY DEF Agreed, n
  <2>2. i # 0 => i \in 1 .. Len(s)
      BY <1>1 DEF n
  <2> QED BY <2>1, <2>2
<1>3. co = bo => Agreed(s, l, co, bo)
  <2>1. 0 \in 0 .. n /\ \A j \in 0 + 1 .. n : j \in 1 .. n
      BY <1>1
  <2> QED BY <2>1 DEF Agreed, n
<1> QED BY <1>2, <1>3

LEMMA GameLinks == \A g, h \in Games : <<g, h>> \in Links
    BY DEF Links, Procs

LEMMA AgreeTables ==
    ASSUME NEW q, NEW ba, NEW ba2, NEW ce, NEW ce2,
           \A g \in Games : ba2[g].there =>
               ba[g].there /\ ba2[g].life = ba[g].life /\ ba2[g].owner = ba[g].owner,
           \A h \in Games : ce2[h].there =>
               ce[h].there /\ ce2[h].life = ce[h].life /\ ce2[h].owner = ce[h].owner,
           AgreeInv(q, ba, ce)
    PROVE  AgreeInv(q, ba2, ce2)
<1> SUFFICES ASSUME NEW g \in Games, NEW h \in Games, NEW l \in Lives,
                    IsBase(ba2, g, l), IsCell(ce2, h, l)
             PROVE  Agreed(q[<<g, h>>], l, ce2[h].owner, ba2[g].owner)
    BY DEF AgreeInv
<1>1. /\ IsBase(ba, g, l) /\ IsCell(ce, h, l)
      /\ ce2[h].owner = ce[h].owner /\ ba2[g].owner = ba[g].owner
    BY DEF IsBase, IsCell
<1> QED BY <1>1 DEF AgreeInv

LEMMA AgreeSend ==
    ASSUME NEW q \in [Links -> Seq(Letters)], NEW p, NEW d, NEW m \in Letters,
           m.name # "on_reconnect_fromclient", NEW ba, NEW ce, AgreeInv(q, ba, ce)
    PROVE  AgreeInv(Send(q, p, d, m), ba, ce)
<1> SUFFICES ASSUME NEW g \in Games, NEW h \in Games, NEW l \in Lives,
                    IsBase(ba, g, l), IsCell(ce, h, l)
             PROVE  Agreed(Send(q, p, d, m)[<<g, h>>], l, ce[h].owner, ba[g].owner)
    BY DEF AgreeInv
<1> DEFINE s == q[<<g, h>>]
           t == Send(q, p, d, m)[<<g, h>>]
<1>1. s \in Seq(Letters) /\ (t = s \/ t = Append(s, m))
  <2> DEFINE e == Send(q, p, d, m)
  <2>1. \A x \in Links : e[x] = q[x] \/ (x = <<p, d>> /\ e[x] = Append(q[x], m))
      BY SendAt
  <2>2. \A x \in Links : q[x] \in Seq(Letters)
      OBVIOUS
  <2> HIDE DEF e
  <2> QED BY <2>1, <2>2, GameLinks DEF e
<1>2. Agreed(s, l, ce[h].owner, ba[g].owner) /\ ~IsHanding(m, l)
    BY DEF AgreeInv, IsHanding
<1> HIDE DEF s, t
<1> QED BY <1>1, <1>2, AgreedAppend DEF t

LEMMA AgreeTake ==
    ASSUME TypeInv, NEW k \in Links, NEW m, NEW q, Taking(k, m, q),
           m.name # "on_reconnect_fromclient", NEW ba, NEW ce, AgreeInv(net, ba, ce)
    PROVE  AgreeInv(q, ba, ce)
<1> SUFFICES ASSUME NEW g \in Games, NEW h \in Games, NEW l \in Lives,
                    IsBase(ba, g, l), IsCell(ce, h, l)
             PROVE  Agreed(q[<<g, h>>], l, ce[h].owner, ba[g].owner)
    BY DEF AgreeInv
<1> DEFINE s == net[<<g, h>>]
           t == q[<<g, h>>]
<1>1. s \in Seq(Letters) /\ (t = s \/ (s # <<>> /\ t = Tail(s) /\ m = Head(s)))
    BY GameLinks DEF TypeInv, Sent, Taking
<1>2. Agreed(s, l, ce[h].owner, ba[g].owner) /\ ~IsHanding(m, l)
    BY DEF AgreeInv, IsHanding
<1> HIDE DEF s, t
<1>3. CASE s # <<>> /\ t = Tail(s) /\ m = Head(s)
    BY <1>1, <1>2, <1>3, AgreedTail DEF t
<1> QED BY <1>1, <1>2, <1>3 DEF t

-----------------------------------------------------------------------------
(* The news of a cell. *)

LEMMA BehindAppend ==
    ASSUME NEW s \in Seq(Letters), NEW m \in Letters, NEW l
    PROVE  /\ Behind(s, l) /\ m.name # "on_cell_create" => Behind(Append(s, m), l)
           /\ IsNews(m, l) => Behind(Append(s, m), l) /\ Comes(Append(s, m), l)
           /\ Comes(s, l) => Comes(Append(s, m), l)
<1> DEFINE t == Append(s, m)
           n == Len(s)
<1>1. /\ n \in Nat /\ Len(t) = n + 1 /\ t[n + 1] = m
      /\ \A i \in 1 .. n : t[i] = s[i]
    OBVIOUS
<1>2. \A i \in 1 .. n + 1 : i \in 1 .. n \/ i = n + 1
    BY <1>1
<1> HIDE DEF t, n
<1>3. ASSUME Behind(s, l), m.name # "on_cell_create" PROVE Behind(t, l)
  <2> SUFFICES ASSUME NEW i \in 1 .. Len(t), t[i].name = "on_cell_create", t[i].life # l
               PROVE  \E j \in i + 1 .. Len(t) : IsNews(t[j], l)
      BY DEF Behind
  <2>1. i \in 1 .. n /\ t[i] = s[i]
      BY <1>1, <1>2, <1>3
  <2>2. PICK j \in i + 1 .. n : IsNews(s[j], l)
      BY <1>3, <2>1 DEF Behind, n
  <2>3. j \in i + 1 .. Len(t) /\ t[j] = s[j]
      BY <1>1, <2>1
  <2> QED BY <2>2, <2>3
<1>4. ASSUME IsNews(m, l) PROVE Behind(t, l) /\ Comes(t, l)
  <2>1. n + 1 \in 1 .. Len(t) /\ IsNews(t[n + 1], l)
      BY <1>1, <1>4
  <2>2. \A i \in 1 .. Len(t) : t[i].life # l => n + 1 \in i + 1 .. Len(t)
    <3>1. \A i \in 1 .. Len(t) : t[i].life # l => i # n + 1
        BY <2>1 DEF IsNews
    <3> QED BY <1>1, <3>1
  <2> QED BY <2>1, <2>2 DEF Behind, Comes
<1>5. ASSUME Comes(s, l) PROVE Comes(t, l)
  <2>1. PICK j \in 1 .. n : IsNews(s[j], l)
      BY <1>5 DEF Comes, n
  <2>2. j \in 1 .. Len(t) /\ t[j] = s[j]
      BY <1>1
  <2> QED BY <2>1, <2>2 DEF Comes
<1> QED BY <1>3, <1>4, <1>5 DEF t

LEMMA BehindTail ==
    ASSUME NEW s \in Seq(Letters), s # <<>>, NEW l
    PROVE  /\ Behind(s, l) => Behind(Tail(s), l)
           /\ Comes(s, l) /\ ~IsNews(Head(s), l) => Comes(Tail(s), l)
           /\ Behind(s, l) /\ Head(s).name = "on_cell_create" /\ Head(s).life # l
                  => Comes(Tail(s), l)
<1> DEFINE t == Tail(s)
           n == Len(s)
<1>1. /\ n \in Nat /\ n >= 1 /\ Len(t) = n - 1 /\ Head(s) = s[1]
      /\ \A i \in 1 .. n - 1 : t[i] = s[i + 1]
    BY HeadTailProperties
<1> HIDE DEF t, n
<1>2. ASSUME NEW i \in 1 .. n, NEW j \in i + 1 .. n
      PROVE  j - 1 \in i .. Len(t) /\ j - 1 \in 1 .. Len(t) /\ t[j - 1] = s[j]
  <2>1. j - 1 \in i .. Len(t) /\ j - 1 \in 1 .. n - 1 /\ (j - 1) + 1 = j
      BY <1>1
  <2> QED BY <1>1, <2>1
<1>3. ASSUME Behind(s, l) PROVE Behind(t, l)
  <2> SUFFICES ASSUME NEW i \in 1 .. Len(t), t[i].name = "on_cell_create", t[i].life # l
               PROVE  \E j \in i + 1 .. Len(t) : IsNews(t[j], l)
      BY DEF Behind
  <2>1. i + 1 \in 1 .. n /\ t[i] = s[i + 1]
      BY <1>1
  <2>2. PICK j \in (i + 1) + 1 .. n : IsNews(s[j], l)
      BY <1>3, <2>1 DEF Behind, n
  <2>3. j - 1 \in i + 1 .. Len(t) /\ t[j - 1] = s[j]
      BY <1>2, <2>1
  <2> QED BY <2>2, <2>3
<1>4. ASSUME Comes(s, l), ~IsNews(Head(s), l) PROVE Comes(t, l)
  <2>1. PICK j \in 1 .. n : IsNews(s[j], l)
      BY <1>4 DEF Comes, n
  <2>2. j # 1
      BY <1>1, <1>4, <2>1
  <2>3. 1 \in 1 .. n /\ j \in 1 + 1 .. n
      BY <1>1, <2>2
  <2>4. j - 1 \in 1 .. Len(t) /\ t[j - 1] = s[j]
      BY <1>2, <2>3
  <2> QED BY <2>1, <2>4 DEF Comes
<1>5. ASSUME Behind(s, l), Head(s).name = "on_cell_create", Head(s).life # l
      PROVE  Comes(t, l)
  <2>1. 1 \in 1 .. n
      BY <1>1
  <2>2. PICK j \in 1 + 1 .. n : IsNews(s[j], l)
      BY <1>1, <1>5, <2>1 DEF Behind, n
  <2>3. j - 1 \in 1 .. Len(t) /\ t[j - 1] = s[j]
      BY <1>2, <2>1
  <2> QED BY <2>2, <2>3 DEF Comes
<1> QED BY <1>3, <1>4, <1>5 DEF t

LEMMA NewsTables ==
    ASSUME NEW q, NEW ba, NEW ba2, NEW ce, NEW ce2, CellsFade(ce, ce2),
           \A g \in Games : ba2[g].there =>
               ba[g].there /\ ba2[g].life = ba[g].life /\ ba2[g].addr = ba[g].addr,
           NewsInv(q, ba, ce)
    PROVE  NewsInv(q, ba2, ce2)
    BY DEF NewsInv, CellsFade

LEMMA NewsSend ==
    ASSUME NEW q \in [Links -> Seq(Letters)], NEW p, NEW d, NEW m \in Letters,
           m.name # "on_cell_create", NEW ba, NEW ce, NewsInv(q, ba, ce)
    PROVE  NewsInv(Send(q, p, d, m), ba, ce)
<1> SUFFICES ASSUME NEW g \in Games, NEW h \in Games, ce[h].there, ce[h].addr = g
             PROVE  /\ Behind(Send(q, p, d, m)[<<h, g>>], ce[h].life)
                    /\ ba[g].there /\ ba[g].addr = h /\ ba[g].life # ce[h].life =>
                          Comes(Send(q, p, d, m)[<<h, g>>], ce[h].life)
    BY DEF NewsInv
<1> DEFINE s == q[<<h, g>>]
           t == Send(q, p, d, m)[<<h, g>>]
<1>1. s \in Seq(Letters) /\ (t = s \/ t = Append(s, m))
  <2> DEFINE e == Send(q, p, d, m)
  <2>1. \A x \in Links : e[x] = q[x] \/ (x = <<p, d>> /\ e[x] = Append(q[x], m))
      BY SendAt
  <2>2. \A x \in Links : q[x] \in Seq(Letters)
      OBVIOUS
  <2> HIDE DEF e
  <2> QED BY <2>1, <2>2, GameLinks DEF e
<1>2. /\ Behind(s, ce[h].life)
      /\ ba[g].there /\ ba[g].addr = h /\ ba[g].life # ce[h].life => Comes(s, ce[h].life)
    BY DEF NewsInv
<1> HIDE DEF s, t
<1> QED BY <1>1, <1>2, BehindAppend DEF t

LEMMA NewsTake ==
    ASSUME TypeInv, NEW k \in Links, NEW m, NEW q, Taking(k, m, q), NEW ba, NEW ce,
           m.name # "on_cell_create" \/ (k[2] \in Games => ~ba[k[2]].there),
           NewsInv(net, ba, ce)
    PROVE  NewsInv(q, ba, ce)
<1> SUFFICES ASSUME NEW g \in Games, NEW h \in Games, ce[h].there, ce[h].addr = g
             PROVE  /\ Behind(q[<<h, g>>], ce[h].life)
                    /\ ba[g].there /\ ba[g].addr = h /\ ba[g].life # ce[h].life =>
                          Comes(q[<<h, g>>], ce[h].life)
    BY DEF NewsInv
<1> DEFINE s == net[<<h, g>>]
           t == q[<<h, g>>]
<1>1. s \in Seq(Letters) /\ (t = s \/ (k = <<h, g>> /\ s # <<>> /\ t = Tail(s) /\ m = Head(s)))
    BY GameLinks DEF TypeInv, Sent, Taking
<1>2. /\ Behind(s, ce[h].life)
      /\ ba[g].there /\ ba[g].addr = h /\ ba[g].life # ce[h].life => Comes(s, ce[h].life)
    BY DEF NewsInv
<1> HIDE DEF s, t
<1>3. CASE k = <<h, g>> /\ s # <<>> /\ t = Tail(s) /\ m = Head(s)
  <2>1. /\ Behind(t, ce[h].life)
        /\ Comes(s, ce[h].life) /\ ~IsNews(m, ce[h].life) => Comes(t, ce[h].life)
      BY <1>1, <1>2, <1>3, BehindTail
  <2>2. ba[g].there => ~IsNews(m, ce[h].life)
      BY <1>3 DEF IsNews
  <2> QED BY <1>2, <2>1, <2>2 DEF t
<1> QED BY <1>1, <1>2, <1>3 DEF t

-----------------------------------------------------------------------------
(* That the owner will be told that the entity is ready. *)

LEMMA PromisedKinds ==
    ASSUME NEW q, NEW r, NEW ba, NEW ba2, NEW ce, NEW ce2, NEW g, NEW c, NEW l,
           ba2[g].ready = ba[g].ready, ba2[g].addr = ba[g].addr,
           \A h \in Games : IsCell(ce2, h, l) => IsCell(ce, h, l),
           ~Absent(q, Rights(c, g, l)) => ~Absent(r, Rights(c, g, l)),
           ~Absent(q, Firsts(c, g, l)) => ~Absent(r, Firsts(c, g, l)),
           ~Absent(q, Relayed(g, ba[g].addr, l)) => ~Absent(r, Relayed(g, ba[g].addr, l)),
           ~Absent(q, Answers(ba[g].addr, c, l)) => ~Absent(r, Answers(ba[g].addr, c, l)),
           Promised(q, ba, ce, g, c, l)
    PROVE  Promised(r, ba2, ce2, g, c, l)
    BY DEF Promised

LEMMA ReadyTables ==
    ASSUME NEW q, NEW ba, NEW ba2, NEW ce, NEW ce2, NEW cl, NEW cl2,
           BasesFade(ba, ba2), CellsFade(ce, ce2), ClientsFade(cl, cl2), Placing(ba),
           \A c \in Clients : cl2[c].there /\ cl[c].ready => cl2[c].ready,
           ReadyInv(q, ba, ce, cl)
    PROVE  ReadyInv(q, ba2, ce2, cl2)
<1> SUFFICES ASSUME NEW g \in Games, NEW l \in Lives, IsBase(ba2, g, l),
                    Has(cl2, ba2[g].owner, l), ~cl2[ba2[g].owner].ready
             PROVE  Promised(q, ba2, ce2, g, ba2[g].owner, l)
    BY DEF ReadyInv
<1>1. /\ IsBase(ba, g, l) /\ ba2[g].owner = ba[g].owner /\ ba[g].owner \in Clients
      /\ ba2[g].ready = ba[g].ready /\ ba2[g].addr = ba[g].addr
    BY DEF IsBase, BasesFade, Placing
<1>2. Has(cl, ba[g].owner, l) /\ ~cl[ba[g].owner].ready
    BY <1>1 DEF Has, ClientsFade
<1>3. Promised(q, ba, ce, g, ba[g].owner, l)
    BY <1>1, <1>2 DEF ReadyInv
<1>4. \A h \in Games : IsCell(ce2, h, l) => IsCell(ce, h, l)
    BY DEF IsCell, CellsFade
<1> QED BY <1>1, <1>3, <1>4, PromisedKinds

LEMMA ReadySend ==
    ASSUME NEW q \in [Links -> Seq(Letters)], NEW p, NEW d, NEW m \in Letters,
           NEW ba, NEW ce, NEW cl, ReadyInv(q, ba, ce, cl)
    PROVE  ReadyInv(Send(q, p, d, m), ba, ce, cl)
<1>1. \A K : ~Absent(q, K) => ~Absent(Send(q, p, d, m), K)
    BY SentKinds
<1> QED BY <1>1 DEF ReadyInv, Promised

LEMMA ReadyTake ==
    ASSUME TypeInv, NEW k \in Links, NEW m, NEW q, Taking(k, m, q),
           m.name \notin {"ready", "on_client_reconnect_success"},
           NEW ba, NEW ce, NEW cl, ReadyInv(net, ba, ce, cl)
    PROVE  ReadyInv(q, ba, ce, cl)
<1>1. \A K : <<k, m>> \notin K /\ ~Absent(net, K) => ~Absent(q, K)
    BY TakenKinds
<1>2. \A c, g, l : <<k, m>> \notin Rights(c, g, l) /\ <<k, m>> \notin Firsts(c, g, l)
    BY DEF Rights, Firsts
<1>3. \A g, a, l : <<k, m>> \notin Relayed(g, a, l) /\ \A c : <<k, m>> \notin Answers(a, c, l)
    BY DEF Relayed, Answers
<1>4. \A c, g, l, a :
         /\ ~Absent(net, Rights(c, g, l)) => ~Absent(q, Rights(c, g, l))
         /\ ~Absent(net, Firsts(c, g, l)) => ~Absent(q, Firsts(c, g, l))
         /\ ~Absent(net, Relayed(g, a, l)) => ~Absent(q, Relayed(g, a, l))
         /\ ~Absent(net, Answers(a, c, l)) => ~Absent(q, Answers(a, c, l))
    BY <1>1, <1>2, <1>3
<1> QED BY <1>4 DEF ReadyInv, Promised

-----------------------------------------------------------------------------
(* That every other client has been or will be told to go. *)

LEMMA KickTables ==
    ASSUME NEW q, NEW ba, NEW ba2, NEW cl, NEW cl2, NEW cn, NEW cn2, NEW kd, NEW kd2,
           \A g \in Games : ba2[g].there =>
               ba[g].there /\ ba2[g].life = ba[g].life /\ ba2[g].owner = ba[g].owner,
           ClientsFade(cl, cl2), kd \subseteq kd2,
           \A c \in Clients : cn[c] = "gone" => cn2[c] = "gone",
           KickInv(q, ba, cl, cn, kd)
    PROVE  KickInv(q, ba2, cl2, cn2, kd2)
<1> SUFFICES ASSUME NEW g \in Games, NEW l \in Lives, NEW c \in Clients,
                    IsBase(ba2, g, l), c # ba2[g].owner, cn2[c] # "gone",
                    Has(cl2, c, l) \/ ~Absent(q, Creations(c, l)) \/ ~Absent(q, HandingTo(c, l))
             PROVE  c \in kd2 \/ ~Absent(q, Kicks(g, c))
    BY DEF KickInv
<1>1. IsBase(ba, g, l) /\ c # ba[g].owner /\ cn[c] # "gone"
    BY DEF IsBase
<1>2. Has(cl2, c, l) => Has(cl, c, l)
    BY DEF Has, ClientsFade
<1>3. c \in kd \/ ~Absent(q, Kicks(g, c))
    BY <1>1, <1>2, Zenon DEF KickInv
<1> QED BY <1>3

LEMMA KickSend ==
    ASSUME NEW q \in [Links -> Seq(Letters)], NEW p, NEW d, NEW m \in Letters,
           ~Creates(m), m.name # "on_reconnect_fromclient",
           NEW ba, NEW cl, NEW cn, NEW kd, KickInv(q, ba, cl, cn, kd)
    PROVE  KickInv(Send(q, p, d, m), ba, cl, cn, kd)
<1> DEFINE r == Send(q, p, d, m)
<1>1. \A K : ~Absent(q, K) => ~Absent(r, K)
    BY SentKinds
<1>2. \A K : Absent(q, K) /\ <<<<p, d>>, m>> \notin K => Absent(r, K)
    BY SentKinds
<1>3. \A c, l : <<<<p, d>>, m>> \notin Creations(c, l) /\ <<<<p, d>>, m>> \notin HandingTo(c, l)
    BY DEF Creations, HandingTo
<1> HIDE DEF r
<1>4. \A c, l : /\ ~Absent(r, Creations(c, l)) => ~Absent(q, Creations(c, l))
                /\ ~Absent(r, HandingTo(c, l)) => ~Absent(q, HandingTo(c, l))
    BY <1>2, <1>3
<1>5. \A g, c : ~Absent(q, Kicks(g, c)) => ~Absent(r, Kicks(g, c))
    BY <1>1
<1>6. KickInv(r, ba, cl, cn, kd)
    BY <1>4, <1>5 DEF KickInv
<1> QED BY <1>6 DEF r

LEMMA KickTake ==
    ASSUME TypeInv, NEW k \in Links, NEW m, NEW q, Taking(k, m, q), m.name # "on_kick",
           NEW ba, NEW cl, NEW cn, NEW kd, KickInv(net, ba, cl, cn, kd)
    PROVE  KickInv(q, ba, cl, cn, kd)
<1>1. \A K : <<k, m>> \notin K /\ ~Absent(net, K) => ~Absent(q, K)
    BY TakenKinds
<1>2. \A K : Absent(net, K) => Absent(q, K)
    BY TakenKinds
<1>3. \A g, c : <<k, m>> \notin Kicks(g, c)
    BY DEF Kicks
<1>4. \A c, l : /\ ~Absent(q, Creations(c, l)) => ~Absent(net, Creations(c, l))
                /\ ~Absent(q, HandingTo(c, l)) => ~Absent(net, HandingTo(c, l))
    BY <1>2
<1>5. \A g, c : ~Absent(net, Kicks(g, c)) => ~Absent(q, Kicks(g, c))
    BY <1>1, <1>3
<1> QED BY <1>4, <1>5 DEF KickInv

-----------------------------------------------------------------------------
(* What the order of the stages says of lives and of rpcs under way. *)

LEMMA StageFacts ==
    ASSUME TypeInv, StageInv
    PROVE  /\ \A g, h \in Games : \A l \in Lives :
                 /\ IsBase(base, g, l) /\ IsBase(base, h, l) => g = h
                 /\ IsCell(cell, g, l) /\ IsCell(cell, h, l) => g = h
                 /\ IsBase(base, g, l) /\ IsCell(cell, h, l) /\ base[g].addr # Nobody
                        => h = base[g].addr
           /\ \A g \in Games : \A l \in Lives : IsBase(base, g, l) /\ base[g].ready =>
                 base[g].addr \in Games /\ ~Ordered(orders, l)
           /\ \A l \in Lives : Ordered(orders, l) =>
                 /\ Absent(net, Chain(l)) /\ Absent(net, Later(l))
                 /\ \A h \in Games : ~IsCell(cell, h, l)
           /\ \A l \in Lives : l > lives =>
                 /\ \A g \in Games : ~IsBase(base, g, l) /\ ~IsCell(cell, g, l)
                 /\ ~Ordered(orders, l) /\ Absent(net, Chain(l)) /\ Absent(net, Later(l))
                 /\ \A c : Absent(net, Creations(c, l))
           /\ \A l \in Lives : Len(log[l]) >= 1 => l <= lives
<1>1. /\ \A g, h \in Games : \A l \in Lives :
            /\ IsBase(base, g, l) /\ IsBase(base, h, l) => g = h
            /\ IsCell(cell, g, l) /\ IsCell(cell, h, l) => g = h
            /\ IsBase(base, g, l) /\ IsCell(cell, h, l) /\ base[g].addr # Nobody
                   => h = base[g].addr
    BY DEF StageInv, Core, CellsInv, BasesInv, IsBase, IsCell
<1>2. \A l \in Lives : Len(log[l]) \in Nat /\ l \in Nat /\ lives \in Nat
    BY Facts DEF Sized, Lives
<1>3. \A l \in Lives : Ordered(orders, l) => Len(log[l]) = 1
    BY DEF StageInv, OrdersInv, Ordered
<1>4. \A g \in Games : \A l \in Lives :
         /\ IsBase(base, g, l) => Len(log[l]) >= 1
         /\ IsBase(base, g, l) /\ base[g].ready => Len(log[l]) >= 4
         /\ IsCell(cell, g, l) => Len(log[l]) >= 2
    BY DEF StageInv, Core, CellsInv, BasesInv, IsBase, IsCell
<1>5. \A l \in Lives : l > lives => Len(log[l]) = 0
  <2>1. \A l \in Lives : l > lives => log[l] = <<>>
      BY DEF StageInv, LogInv
  <2> QED BY <2>1
<1>6. \A l \in Lives : Len(log[l]) < 2 => Absent(net, Chain(l)) /\ Absent(net, Later(l))
  <2> SUFFICES ASSUME NEW l \in Lives, Len(log[l]) < 2
               PROVE  Absent(net, Chain(l)) /\ Absent(net, Later(l))
      OBVIOUS
  <2>1. /\ \A x \in Chain(l) : x \in Posts /\ x[2].life = l /\ Needs(x[2]) >= 2
        /\ \A x \in Later(l) : x \in Posts /\ x[2].life = l /\ Needs(x[2]) >= 2
    <3>1. \A x \in Posts : x[2] \in Letters /\ x[2].to \in {"base", "cell", "client"}
        BY LetterType DEF Posts
    <3>2. \A x \in Chain(l) : x \in Posts /\ x[2].life = l /\ Needs(x[2]) >= 2
        BY DEF Chain, News, Needs
    <3>3. \A m \in Letters :
             /\ m.name = "on_reconnect_fromclient" => Needs(m) = 4
             /\ m.name = "create_onreconnect" => Needs(m) = 3
             /\ m.name = "on_client_reconnect_success" /\ m.to # "client" => Needs(m) >= 3
             /\ m.name = "ready" /\ m.to # "base" => Needs(m) >= 4
      <4> SUFFICES ASSUME NEW m \in Letters
                   PROVE  /\ m.name = "on_reconnect_fromclient" => Needs(m) = 4
                          /\ m.name = "create_onreconnect" => Needs(m) = 3
                          /\ m.name = "on_client_reconnect_success" /\ m.to # "client"
                                => Needs(m) >= 3
                          /\ m.name = "ready" /\ m.to # "base" => Needs(m) >= 4
          OBVIOUS
      <4>1. m.to \in {"base", "cell", "client"}
          BY LetterType
      <4>2. m.name = "on_reconnect_fromclient" => Needs(m) = 4
          BY DEF Needs
      <4>3. m.name = "create_onreconnect" => Needs(m) = 3
          BY DEF Needs
      <4>4. m.name = "on_client_reconnect_success" /\ m.to # "client" => Needs(m) \in {3, 4}
          BY <4>1 DEF Needs
      <4>5. m.name = "ready" /\ m.to # "base" => Needs(m) \in {4, 5}
          BY <4>1 DEF Needs
      <4> QED BY <4>2, <4>3, <4>4, <4>5
    <3>4. \A x \in Later(l) : x \in Posts /\ x[2].life = l /\ Needs(x[2]) >= 2
      <4> SUFFICES ASSUME NEW x \in Later(l)
                   PROVE  x \in Posts /\ x[2].life = l /\ Needs(x[2]) >= 2
          OBVIOUS
      <4>1. /\ x \in Posts /\ x[2].life = l
            /\ \/ x[2].name \in {"on_reconnect_fromclient", "create_onreconnect"}
               \/ x[2].name = "on_client_reconnect_success" /\ x[2].to # "client"
               \/ x[2].name = "ready" /\ x[2].to # "base"
          BY DEF Later
      <4> DEFINE n == Needs(x[2])
      <4>2. n = 3 \/ n = 4 \/ n >= 3 \/ n >= 4
          BY <3>1, <3>3, <4>1
      <4>3. n \in 0 .. 5
          BY <3>1, <4>1, NeedsType
      <4> HIDE DEF n
      <4>4. n >= 2
          BY <4>2, <4>3
      <4> QED BY <4>1, <4>4 DEF n
    <3> QED BY <3>2, <3>4
  <2>2. \A x \in Posts : Needs(x[2]) \in Nat
      BY NeedsType DEF Posts
  <2>3. /\ \A x \in Chain(l) : Len(log[x[2].life]) < Needs(x[2])
        /\ \A x \in Later(l) : Len(log[x[2].life]) < Needs(x[2])
    <3> DEFINE n == Len(log[l])
    <3>1. n \in Nat /\ n < 2
        BY <1>2
    <3> HIDE DEF n
    <3>2. \A x \in Posts : Needs(x[2]) >= 2 => n < Needs(x[2])
        BY <2>2, <3>1
    <3> QED BY <2>1, <3>2 DEF n
  <2>4. Chain(l) \in SUBSET Posts /\ Later(l) \in SUBSET Posts
      BY <2>1
  <2> QED BY <2>3, <2>4, Aged
<1>7. \A g \in Games : \A l \in Lives : IsBase(base, g, l) /\ base[g].ready =>
         base[g].addr \in Games /\ ~Ordered(orders, l)
  <2> SUFFICES ASSUME NEW g \in Games, NEW l \in Lives, IsBase(base, g, l), base[g].ready
               PROVE  base[g].addr \in Games /\ ~Ordered(orders, l)
      OBVIOUS
  <2>1. base[g].addr \in Games
      BY Facts, ReadyPlaced DEF StageInv, Core, IsBase
  <2>2. Len(log[l]) # 1
    <3> DEFINE n == Len(log[l])
    <3>1. n \in Nat /\ n >= 4
        BY <1>2, <1>4
    <3> HIDE DEF n
    <3>2. n # 1
        BY <3>1
    <3> QED BY <3>2, Zenon DEF n
  <2> QED BY <1>3, <2>1, <2>2
<1>8. \A l \in Lives : Ordered(orders, l) =>
         /\ Absent(net, Chain(l)) /\ Absent(net, Later(l))
         /\ \A h \in Games : ~IsCell(cell, h, l)
  <2>1. \A l \in Lives : Len(log[l]) = 1 => Len(log[l]) < 2 /\ ~(Len(log[l]) >= 2)
      OBVIOUS
  <2> QED BY <1>3, <1>4, <1>6, <2>1
<1>9. \A l \in Lives : l > lives =>
         /\ \A g \in Games : ~IsBase(base, g, l) /\ ~IsCell(cell, g, l)
         /\ ~Ordered(orders, l) /\ Absent(net, Chain(l)) /\ Absent(net, Later(l))
         /\ \A c : Absent(net, Creations(c, l))
  <2> SUFFICES ASSUME NEW l \in Lives, l > lives
               PROVE  /\ \A g \in Games : ~IsBase(base, g, l) /\ ~IsCell(cell, g, l)
                      /\ ~Ordered(orders, l) /\ Absent(net, Chain(l)) /\ Absent(net, Later(l))
                      /\ \A c : Absent(net, Creations(c, l))
      OBVIOUS
  <2>1. Len(log[l]) < 2 /\ ~(Len(log[l]) >= 1) /\ ~(Len(log[l]) >= 2) /\ Len(log[l]) # 1
      BY <1>5
  <2>2. \A c : Creations(c, l) \in SUBSET (Chain(l) \cup Later(l))
      BY DEF Creations, Chain, Later, Creates
  <2>3. Absent(net, Chain(l)) /\ Absent(net, Later(l))
      BY <1>6, <2>1
  <2>4. \A c : Absent(net, Creations(c, l))
      BY <2>2, <2>3 DEF Absent
  <2> QED BY <1>3, <1>4, <2>1, <2>3, <2>4
<1>10. \A l \in Lives : Len(log[l]) >= 1 => l <= lives
    BY <1>2, <1>5
<1> QED BY <1>1, <1>7, <1>8, <1>9, <1>10

-----------------------------------------------------------------------------
(* An rpc sent, and one taken. *)

LEMMA TidyTake ==
    ASSUME TypeInv, NEW k \in Links, NEW m, NEW q, Taking(k, m, q), NEW ors2 \in SUBSET orders,
           Tidy(net, base, cell, client, conn, orders, lives)
    PROVE  Tidy(q, base, cell, client, conn, ors2, lives)
<1>1. Thin(net, q)
    BY ThinTaken
<1>2. BasesFade(base, base) /\ CellsFade(cell, cell) /\ ClientsFade(client, client)
    BY DEF BasesFade, CellsFade, ClientsFade
<1>3. Placing(base)
    BY ThereIs DEF Placing
<1> QED BY <1>1, <1>2, <1>3, TidyLater

LEMMA TidySend ==
    ASSUME NEW q \in [Links -> Seq(Letters)], NEW p, NEW d, NEW m \in Letters,
           NEW ba, NEW ce, NEW cl, NEW cn, NEW ors, NEW n, Placing(ba),
           NEW x, x = <<<<p, d>>, m>>,
           Tidy(q, ba, ce, cl, cn, ors, n),
           x \notin WrongCell,
           \A g \in Games : \A l \in Lives : IsBase(ba, g, l) =>
               /\ x \notin WrongBase(g, l)
               /\ x \in Chain(l) => ~ba[g].ready
               /\ x \in Later(l) => ba[g].ready
               /\ x \in News(l) => Absent(q, Tokens(ba[g].owner)) /\ ~cl[ba[g].owner].there
               /\ x \in Tokens(ba[g].owner) => ~Ordered(ors, l) /\ Absent(q, News(l))
               /\ x \notin Astray(g, ba[g].addr, l)
               /\ x \in Handings(l) =>
                     ~Has(cl, ba[g].owner, l) /\ Absent(q, Creations(ba[g].owner, l))
               /\ x \in Creations(ba[g].owner, l) => Absent(q, Handings(l)),
           \A l \in Lives : x \in Chain(l) => Absent(q, Chain(l)),
           \A c \in Clients : x \in Tokens(c) =>
               ~Fresh(cn, ors, c) /\ Absent(q, Tokens(c)) /\ ~cl[c].there
    PROVE  Tidy(Send(q, p, d, m), ba, ce, cl, cn, ors, n)
<1> DEFINE r == Send(q, p, d, m)
<1>1. /\ \A K : Absent(q, K) /\ x \notin K => Absent(r, K)
      /\ \A K : AtMostOne(q, K) /\ x \notin K => AtMostOne(r, K)
      /\ \A K : Absent(q, K) => AtMostOne(r, K)
    BY SentKinds
<1> HIDE DEF r
<1>2. \A K : ~Absent(r, K) => ~Absent(q, K) \/ x \in K
    BY <1>1
<1>3. \A g \in Games : \A l \in Lives : IsBase(ba, g, l) => ba[g].owner \in Clients
    BY DEF IsBase, Placing
<1>4. FreshInv(r, ba, cl, cn, ors)
    BY <1>1 DEF Tidy, FreshInv
<1>5. OwnersInv(ba) /\ LivesInv(cl, n)
    BY DEF Tidy
<1>6. AddrInv(r, ba, ce, ors)
  <2>1. Absent(r, WrongCell)
      BY <1>1 DEF Tidy, AddrInv
  <2>2. \A g \in Games : \A l \in Lives : IsBase(ba, g, l) => Absent(r, WrongBase(g, l))
      BY <1>1 DEF Tidy, AddrInv
  <2> QED BY <2>1, <2>2 DEF Tidy, AddrInv
<1>7. LateInv(r, ba)
    BY <1>1 DEF Tidy, LateInv
<1>8. ChainInv(r)
    BY <1>1 DEF Tidy, ChainInv
<1>9. WaitInv(r, ba, cl, ors)
  <2> SUFFICES ASSUME NEW g \in Games, NEW l \in Lives, IsBase(ba, g, l),
                      Ordered(ors, l) \/ ~Absent(r, News(l))
               PROVE  Absent(r, Tokens(ba[g].owner)) /\ ~cl[ba[g].owner].there
      BY DEF WaitInv
  <2>1. x \notin News(l) \/ x \notin Tokens(ba[g].owner)
      BY DEF News, Tokens, Creates
  <2>2. Ordered(ors, l) \/ ~Absent(q, News(l)) \/ x \in News(l)
      BY <1>2
  <2>3. Absent(q, Tokens(ba[g].owner)) /\ ~cl[ba[g].owner].there
      BY <2>2 DEF Tidy, WaitInv
  <2>4. x \notin Tokens(ba[g].owner)
      BY <2>1, <2>2
  <2> QED BY <1>1, <2>3, <2>4
<1>10. TokenInv(r, cl)
    BY <1>1 DEF Tidy, TokenInv
<1>11. PlaceInv(r, ba)
    BY <1>1 DEF Tidy, PlaceInv
<1>12. SettledInv(r, ba, cl)
  <2> SUFFICES ASSUME NEW g \in Games, NEW l \in Lives, IsBase(ba, g, l),
                      Has(cl, ba[g].owner, l) \/ ~Absent(r, Creations(ba[g].owner, l))
               PROVE  Absent(r, Handings(l))
      BY DEF SettledInv
  <2>1. \/ Has(cl, ba[g].owner, l) \/ ~Absent(q, Creations(ba[g].owner, l))
        \/ x \in Creations(ba[g].owner, l)
      BY <1>2
  <2>2. Absent(q, Handings(l))
      BY <2>1 DEF Tidy, SettledInv
  <2>3. x \in Creations(ba[g].owner, l) => x \notin Handings(l)
      BY DEF Creations, Handings, Creates
  <2>4. x \notin Handings(l)
      BY <2>1, <2>3
  <2> QED BY <1>1, <2>2, <2>4
<1>13. Tidy(r, ba, ce, cl, cn, ors, n)
    BY <1>4, <1>5, <1>6, <1>7, <1>8, <1>9, <1>10, <1>11, <1>12 DEF Tidy
<1> QED BY <1>13 DEF r

(* What says nothing about who has the entity may be sent at any time *)
(* after the base was ready.                                          *)
LEMMA TidySendLater ==
    ASSUME NEW q \in [Links -> Seq(Letters)], NEW p, NEW d, NEW m \in Letters,
           NEW ba, NEW ce, NEW cl, NEW cn, NEW ors, NEW n, Placing(ba),
           Tidy(q, ba, ce, cl, cn, ors, n),
           \/ m.name = "ready" /\ m.to # "base"
           \/ m.name = "on_client_reconnect_success",
           \A g \in Games : IsBase(ba, g, m.life) => ba[g].ready
    PROVE  Tidy(Send(q, p, d, m), ba, ce, cl, cn, ors, n)
<1> DEFINE x == <<<<p, d>>, m>>
<1>1. /\ x \notin WrongCell
      /\ \A l : /\ x \notin Chain(l) /\ x \notin News(l) /\ x \notin Handings(l)
                /\ x \in Later(l) => l = m.life
                /\ \A g : x \notin WrongBase(g, l) /\ \A a : x \notin Astray(g, a, l)
                /\ \A c : x \notin Creations(c, l)
      /\ \A c : x \notin Tokens(c)
    BY DEF WrongCell, Chain, News, Handings, Later, WrongBase, Astray, Creations, Tokens, Creates
<1> HIDE DEF x
<1> QED BY <1>1, TidySend DEF x

LEMMA ConnLater ==
    ASSUME NEW q, NEW r, NEW ba, NEW ba2, NEW cl, NEW cl2, NEW cn,
           \A c \in Clients : Absent(q, ToClient(c)) => Absent(r, ToClient(c)),
           \A g \in Games : ba2[g].there => ba[g].there /\ ba2[g].owner = ba[g].owner,
           \A c \in Clients : cl2[c].there => cl[c].there,
           ConnInv(q, ba, cl, cn)
    PROVE  ConnInv(r, ba2, cl2, cn)
    BY DEF ConnInv

LEMMA ConnTake ==
    ASSUME TypeInv, NEW k \in Links, NEW m, NEW q, Taking(k, m, q),
           ConnInv(net, base, client, conn)
    PROVE  ConnInv(q, base, client, conn)
<1>1. \A K : Absent(net, K) => Absent(q, K)
    BY TakenKinds
<1> QED BY <1>1, ConnLater

LEMMA ConnSend ==
    ASSUME NEW q \in [Links -> Seq(Letters)], NEW p, NEW d, NEW m \in Letters,
           NEW ba, NEW cl, ConnInv(q, ba, cl, conn)
    PROVE  ConnInv(Send(q, p, d, m), ba, cl, conn)
<1>1. \A c \in Clients : conn[c] # "on" => Absent(Send(q, p, d, m), ToClient(c))
    BY SentToClient DEF ConnInv
<1> QED BY <1>1 DEF ConnInv

LEMMA KickToken ==
    ASSUME NEW q \in [Links -> Seq(Letters)], NEW p, NEW d, NEW m \in Letters,
           NEW ba, NEW cl, NEW cn, NEW kd, KickInv(q, ba, cl, cn, kd),
           \A g \in Games : \A c \in Clients :
               /\ IsBase(ba, g, m.life) /\ c # ba[g].owner /\ cn[c] # "gone"
               /\ \/ <<<<p, d>>, m>> \in Creations(c, m.life)
                  \/ <<<<p, d>>, m>> \in HandingTo(c, m.life)
               => c \in kd \/ ~Absent(q, Kicks(g, c))
    PROVE  KickInv(Send(q, p, d, m), ba, cl, cn, kd)
<1> DEFINE r == Send(q, p, d, m)
           x == <<<<p, d>>, m>>
<1>1. /\ \A K : ~Absent(q, K) => ~Absent(r, K)
      /\ \A K : ~Absent(r, K) => ~Absent(q, K) \/ x \in K
    BY SentKinds
<1>2. \A c, l : x \in Creations(c, l) \/ x \in HandingTo(c, l) => l = m.life
    BY DEF Creations, HandingTo
<1> HIDE DEF r, x
<1> SUFFICES ASSUME NEW g \in Games, NEW l \in Lives, NEW c \in Clients,
                    IsBase(ba, g, l), c # ba[g].owner, cn[c] # "gone",
                    Has(cl, c, l) \/ ~Absent(r, Creations(c, l)) \/ ~Absent(r, HandingTo(c, l))
             PROVE  c \in kd \/ ~Absent(r, Kicks(g, c))
    BY DEF KickInv, r
<1>3. \/ Has(cl, c, l) \/ ~Absent(q, Creations(c, l)) \/ ~Absent(q, HandingTo(c, l))
      \/ x \in Creations(c, l) \/ x \in HandingTo(c, l)
    BY <1>1
<1>4. CASE Has(cl, c, l) \/ ~Absent(q, Creations(c, l)) \/ ~Absent(q, HandingTo(c, l))
  <2>1. c \in kd \/ ~Absent(q, Kicks(g, c))
      BY <1>4 DEF KickInv
  <2> QED BY <1>1, <2>1
<1>5. CASE x \in Creations(c, l) \/ x \in HandingTo(c, l)
  <2>1. l = m.life
      BY <1>2, <1>5
  <2>2. c \in kd \/ ~Absent(q, Kicks(g, c))
      BY <1>5, <2>1 DEF x
  <2> QED BY <1>1, <2>2
<1> QED BY <1>3, <1>4, <1>5

-----------------------------------------------------------------------------
(* The steps by which nobody gets the entity. *)

LEMMA HandFades ==
    ASSUME TypeInv, HandInv, UNCHANGED <<conn, lives>>, orders' \in SUBSET orders,
           Thin(net, net'), BasesFade(base, base'), CellsFade(cell, cell'),
           ClientsFade(client, client'),
           \A h \in Games : cell'[h].there => cell'[h].owner = cell[h].owner,
           ConnInv(net', base, client, conn),
           AgreeInv(net', base, cell), NewsInv(net', base, cell),
           ReadyInv(net', base', cell', client'),
           KickInv(net', base', client', conn', kicked' \cup missed')
    PROVE  HandInv'
<1>1. Placing(base)
    BY ThereIs DEF Placing
<1>2. \A c \in Clients : conn'[c] = "new" => conn[c] = "new"
    OBVIOUS
<1>3. Tidy(net', base', cell', client', conn', orders', lives')
    BY <1>1, <1>2, TidyLater DEF HandInv
<1>4. ConnInv(net', base', client', conn')
    BY ConnLater DEF BasesFade, ClientsFade
<1>5. AgreeInv(net', base', cell')
    BY AgreeTables DEF BasesFade, CellsFade
<1>6. NewsInv(net', base', cell')
    BY NewsTables DEF BasesFade
<1> QED BY <1>3, <1>4, <1>5, <1>6 DEF HandInv

LEMMA Unfaded ==
    /\ BasesFade(base, base) /\ CellsFade(cell, cell) /\ ClientsFade(client, client)
    /\ Thin(net, net)
    BY DEF BasesFade, CellsFade, ClientsFade, Thin

LEMMA HandTimer ==
    ASSUME TypeInv, HandInv,
           \/ \E g \in Games : Tick(g) \/ LoseTouch(g) \/ BaseReadyCheck(g) \/ CellReadyCheck(g)
           \/ \E c \in Clients : ClientTick(c) \/ ClientReadyCheck(c)
    PROVE  HandInv'
<1>0. ~None.there
    BY DEF None
<1>1. base \in [Games -> Entities \cup {None}] /\ cell \in [Games -> Entities \cup {None}]
      /\ client \in [Clients -> Entities \cup {None}]
    BY DEF TypeInv, Tables
<1>2. UNCHANGED <<conn, orders, lives, kicked, missed>>
    BY DEF Tick, LoseTouch, BaseReadyCheck, CellReadyCheck, ClientTick, ClientReadyCheck
<1>3. /\ \A g \in Games : base'[g].there => base'[g] = base[g]
      /\ \A g \in Games : cell'[g].there => cell'[g] = cell[g]
      /\ \A c \in Clients : client'[c].there => client'[c] = client[c]
  <2> HIDE DEF Entities, None
  <2>1. ASSUME NEW g \in Games, Tick(g)
        PROVE  /\ client' = client
               /\ \A h \in Games : base'[h].there => base'[h] = base[h]
               /\ \A h \in Games : cell'[h].there => cell'[h] = cell[h]
      BY <1>0, <1>1, <2>1 DEF Tick
  <2>2. ASSUME NEW g \in Games, LoseTouch(g)
        PROVE  /\ client' = client
               /\ \A h \in Games : base'[h].there => base'[h] = base[h]
               /\ \A h \in Games : cell'[h].there => cell'[h] = cell[h]
      BY <1>0, <1>1, <2>2 DEF LoseTouch
  <2>3. ASSUME NEW g \in Games, BaseReadyCheck(g)
        PROVE  /\ UNCHANGED <<cell, client>>
               /\ \A h \in Games : base'[h].there => base'[h] = base[h]
      BY <1>0, <1>1, <2>3 DEF BaseReadyCheck
  <2>4. ASSUME NEW g \in Games, CellReadyCheck(g)
        PROVE  /\ UNCHANGED <<base, client>>
               /\ \A h \in Games : cell'[h].there => cell'[h] = cell[h]
      BY <1>0, <1>1, <2>4 DEF CellReadyCheck
  <2>5. ASSUME NEW c \in Clients, ClientTick(c) \/ ClientReadyCheck(c)
        PROVE  /\ UNCHANGED <<base, cell>>
               /\ \A d \in Clients : client'[d].there => client'[d] = client[d]
      BY <1>0, <1>1, <2>5 DEF ClientTick, ClientReadyCheck
  <2> QED BY <2>1, <2>2, <2>3, <2>4, <2>5
<1>4. /\ BasesFade(base, base') /\ CellsFade(cell, cell') /\ ClientsFade(client, client')
      /\ \A h \in Games : cell'[h].there => cell'[h].owner = cell[h].owner
    BY <1>3 DEF BasesFade, CellsFade, ClientsFade
<1>5. \/ net' = net
      \/ \E p, d, e : \E m, r \in Letters :
            /\ m.name = "destroy_self" /\ r.name = "destroy_self"
            /\ net' = Send(Send(net, p, d, m), p, e, r)
  <2>1. ASSUME NEW g \in Games, BaseReadyCheck(g)
        PROVE  \E p, d, e : \E m, r \in Letters :
                  /\ m.name = "destroy_self" /\ r.name = "destroy_self"
                  /\ net' = Send(Send(net, p, d, m), p, e, r)
    <3> DEFINE m == Rpc("cell", "destroy_self", base[g].life, g)
               r == Rpc("client", "destroy_self", base[g].life, g)
    <3>1. m \in Letters /\ r \in Letters
        BY <2>1, ThereIs, Facts, RpcType DEF BaseReadyCheck, Names
    <3>2. m.name = "destroy_self" /\ r.name = "destroy_self"
        BY DEF Rpc
    <3>3. net' = Send(Send(net, g, base[g].addr, m), g, base[g].owner, r)
        BY <2>1 DEF BaseReadyCheck
    <3> HIDE DEF m, r
    <3> QED BY <3>1, <3>2, <3>3
  <2>2. ASSUME NEW g \in Games, CellReadyCheck(g)
        PROVE  \E p, d, e : \E m, r \in Letters :
                  /\ m.name = "destroy_self" /\ r.name = "destroy_self"
                  /\ net' = Send(Send(net, p, d, m), p, e, r)
    <3> DEFINE m == Rpc("base", "destroy_self", cell[g].life, g)
               r == Rpc("client", "destroy_self", cell[g].life, g)
    <3>1. m \in Letters /\ r \in Letters
        BY <2>2, ThereIs, Facts, RpcType DEF CellReadyCheck, Names
    <3>2. m.name = "destroy_self" /\ r.name = "destroy_self"
        BY DEF Rpc
    <3>3. net' = Send(Send(net, g, cell[g].addr, m), g, cell[g].owner, r)
        BY <2>2 DEF CellReadyCheck
    <3> HIDE DEF m, r
    <3> QED BY <3>1, <3>2, <3>3
  <2>3. ASSUME NEW g \in Games, Tick(g) \/ LoseTouch(g) PROVE net' = net
      BY <2>3 DEF Tick, LoseTouch
  <2>4. ASSUME NEW c \in Clients, ClientTick(c) \/ ClientReadyCheck(c) PROVE net' = net
      BY <2>4 DEF ClientTick, ClientReadyCheck
  <2> QED BY <2>1, <2>2, <2>3, <2>4
<1> DEFINE kd == kicked \cup missed
<1>6. /\ Thin(net, net') /\ ConnInv(net', base, client, conn)
      /\ AgreeInv(net', base, cell) /\ NewsInv(net', base, cell)
      /\ ReadyInv(net', base, cell, client) /\ KickInv(net', base, client, conn, kd)
  <2>1. CASE net' = net
      BY <2>1, Unfaded DEF HandInv
  <2>2. ASSUME NEW p, NEW d, NEW e, NEW m \in Letters, NEW r \in Letters,
               m.name = "destroy_self", r.name = "destroy_self",
               net' = Send(Send(net, p, d, m), p, e, r)
        PROVE  <1>6
    <3> DEFINE q == Send(net, p, d, m)
    <3>1. net \in [Links -> Seq(Letters)] /\ q \in [Links -> Seq(Letters)]
        BY Facts, SendAt
    <3>2. net' = Send(q, p, e, r)
        BY <2>2
    <3> HIDE DEF q, kd
    <3>3. /\ m.name # "on_reconnect_fromclient" /\ m.name # "on_cell_create" /\ ~Creates(m)
          /\ r.name # "on_reconnect_fromclient" /\ r.name # "on_cell_create" /\ ~Creates(r)
        BY <2>2 DEF Creates
    <3>4. /\ Thin(net, q) /\ ConnInv(q, base, client, conn)
          /\ AgreeInv(q, base, cell) /\ NewsInv(q, base, cell)
          /\ ReadyInv(q, base, cell, client) /\ KickInv(q, base, client, conn, kd)
        BY <2>2, <3>1, <3>3, ThinSent, ConnSend, AgreeSend, NewsSend, ReadySend, KickSend
           DEF HandInv, q, kd
    <3>5. Thin(q, net') /\ ConnInv(net', base, client, conn)
          /\ AgreeInv(net', base, cell) /\ NewsInv(net', base, cell)
          /\ ReadyInv(net', base, cell, client) /\ KickInv(net', base, client, conn, kd)
        BY <2>2, <3>1, <3>2, <3>3, <3>4, ThinSent, ConnSend, AgreeSend, NewsSend, ReadySend,
           KickSend
    <3> QED BY <3>4, <3>5, ThinTrans
  <2> QED BY <1>5, <2>1, <2>2
<1>7. Placing(base)
    BY ThereIs DEF Placing
<1>8. ReadyInv(net', base', cell', client')
  <2>1. \A c \in Clients : client'[c].there /\ client[c].ready => client'[c].ready
      BY <1>3
  <2> QED BY <1>4, <1>6, <1>7, <2>1, ReadyTables
<1>9. KickInv(net', base', client', conn', kicked' \cup missed')
  <2>1. /\ kd \subseteq kicked' \cup missed'
        /\ \A c \in Clients : conn[c] = "gone" => conn'[c] = "gone"
      BY <1>2
  <2> HIDE DEF kd
  <2> QED BY <1>4, <1>6, <2>1, KickTables DEF BasesFade
<1> QED BY <1>2, <1>4, <1>6, <1>8, <1>9, HandFades

LEMMA HandConnect ==
    ASSUME TypeInv, HandInv, NEW c \in Clients, Connect(c)
    PROVE  HandInv'
<1>1. /\ conn[c] = "new" /\ conn'[c] = "on" /\ \A d \in Clients : d # c => conn'[d] = conn[d]
      /\ orders' = orders \cup {[name |-> "entity", owner |-> c]}
      /\ UNCHANGED <<base, cell, client, net, lives, kicked, missed>>
    BY DEF Connect, TypeInv, Counting, tables
<1>2. /\ \A o : o.name = "cell" => (o \in orders' <=> o \in orders)
      /\ \A l : Ordered(orders', l) <=> Ordered(orders, l)
    BY <1>1 DEF Ordered
<1>3. \A d \in Clients : Fresh(conn', orders', d) => Fresh(conn, orders, d)
    BY <1>1 DEF Fresh
<1>4. FreshInv(net', base', client', conn', orders')
    BY <1>1, <1>3 DEF HandInv, Tidy, FreshInv
<1>5. AddrInv(net', base', cell', orders')
    BY <1>1, <1>2 DEF HandInv, Tidy, AddrInv
<1>6. WaitInv(net', base', client', orders')
    BY <1>1, <1>2 DEF HandInv, Tidy, WaitInv
<1>7. Tidy(net', base', cell', client', conn', orders', lives')
    BY <1>1, <1>4, <1>5, <1>6 DEF HandInv, Tidy
<1>8. ConnInv(net', base', client', conn')
  <2>1. \A g \in Games : base[g].there => base[g].owner \in Clients
      BY ThereIs
  <2> QED BY <1>1, <2>1 DEF HandInv, ConnInv
<1>9. KickInv(net', base', client', conn', kicked' \cup missed')
    BY <1>1 DEF HandInv, KickInv
<1> QED BY <1>1, <1>7, <1>8, <1>9 DEF HandInv

LEMMA HandDisconnect ==
    ASSUME TypeInv, HandInv, NEW c \in Clients, Disconnect(c)
    PROVE  HandInv'
<1>1. /\ conn[c] = "on" /\ conn'[c] = "gone" /\ \A d \in Clients : d # c => conn'[d] = conn[d]
      /\ ~client'[c].there /\ \A d \in Clients : d # c => client'[d] = client[d]
      /\ UNCHANGED <<base, cell, orders, lives, kicked, missed>>
    BY DEF Disconnect, TypeInv, Counting, Tables, None
<1>2. /\ \A l \in Links : net'[l] = <<>> \/ net'[l] = net[l]
      /\ \A l \in Links : l[2] = c => net'[l] = <<>>
      /\ \A l \in Links : l[1] # c /\ l[2] # c => net'[l] = net[l]
    BY DEF Disconnect
<1>3. /\ \A K : Absent(net, K) => Absent(net', K)
      /\ \A K : AtMostOne(net, K) => AtMostOne(net', K)
  <2>1. \A l \in Links : \A i \in 1 .. Len(net'[l]) :
           i \in 1 .. Len(net[l]) /\ net'[l][i] = net[l][i]
      BY <1>2
  <2>2. \A K : Absent(net, K) => Absent(net', K)
      BY <2>1 DEF Absent
  <2>3. ASSUME NEW K, AtMostOne(net, K), NEW k \in Links, NEW l \in Links,
               NEW i \in 1 .. Len(net'[k]), NEW j \in 1 .. Len(net'[l]),
               <<k, net'[k][i]>> \in K, <<l, net'[l][j]>> \in K
        PROVE  k = l /\ i = j
    <3>1. /\ i \in 1 .. Len(net[k]) /\ <<k, net[k][i]>> \in K
          /\ j \in 1 .. Len(net[l]) /\ <<l, net[l][j]>> \in K
        BY <2>1, <2>3
    <3> QED BY <2>3, <3>1 DEF AtMostOne
  <2> QED BY <2>2, <2>3 DEF AtMostOne
<1>4. Absent(net', ToClient(c))
  <2>1. \A l \in Links : \A i \in 1 .. Len(net'[l]) : l[2] # c
      BY <1>2
  <2> QED BY <2>1 DEF Absent, ToClient
<1>5. \A K : ~Absent(net, K) /\ (\A x \in K : x[1][1] # c /\ x[1][2] # c) => ~Absent(net', K)
    BY <1>2 DEF Absent
<1>6. Games \cap Clients = {} /\ \A g \in Games : g # c
    BY ProcessesAssumption
<1>7. BasesFade(base, base') /\ CellsFade(cell, cell') /\ ClientsFade(client, client')
    BY <1>1 DEF BasesFade, CellsFade, ClientsFade
<1>8. Placing(base) /\ \A g \in Games : \A l \in Lives : IsBase(base, g, l) =>
                          base[g].owner \in Clients
    BY ThereIs DEF Placing, IsBase
<1>9. Tidy(net', base', cell', client', conn', orders', lives')
  <2>1. Thin(net, net')
      BY <1>3 DEF Thin
  <2>2. orders' \in SUBSET orders /\ lives' = lives
        /\ \A d \in Clients : conn'[d] = "new" => conn[d] = "new"
      BY <1>1
  <2> QED BY <1>7, <1>8, <2>1, <2>2, TidyLater DEF HandInv
<1>10. ConnInv(net', base', client', conn')
    BY <1>1, <1>3, <1>4, ThereIs DEF HandInv, ConnInv
<1>11. \A g, h \in Games : net'[<<g, h>>] = net[<<g, h>>]
    BY <1>2, <1>6, GameLinks
<1>12. AgreeInv(net', base', cell') /\ NewsInv(net', base', cell')
    BY <1>1, <1>11 DEF HandInv, AgreeInv, NewsInv
<1>13. ReadyInv(net', base', cell', client')
  <2> SUFFICES ASSUME NEW g \in Games, NEW l \in Lives, IsBase(base, g, l),
                      Has(client', base[g].owner, l), ~client'[base[g].owner].ready
               PROVE  Promised(net', base, cell, g, base[g].owner, l)
      BY <1>1 DEF ReadyInv
  <2> DEFINE d == base[g].owner
  <2>1. d # c /\ d \in Clients /\ Has(client, d, l) /\ ~client[d].ready
      BY <1>1, <1>8 DEF Has
  <2>2. Promised(net, base, cell, g, d, l)
      BY <2>1 DEF HandInv, ReadyInv
  <2>3. base[g].addr \in Games \cup {Nobody}
      BY ThereIs DEF IsBase
  <2> HIDE DEF d
  <2>4. /\ ~Absent(net, Rights(d, g, l)) => ~Absent(net', Rights(d, g, l))
        /\ ~Absent(net, Firsts(d, g, l)) => ~Absent(net', Firsts(d, g, l))
    <3>1. \A x \in Rights(d, g, l) \cup Firsts(d, g, l) : x[1][1] # c /\ x[1][2] # c
        BY <1>6, <2>1 DEF Rights, Firsts
    <3> QED BY <1>5, <3>1
  <2>5. base[g].addr \in Games =>
           /\ ~Absent(net, Relayed(g, base[g].addr, l)) =>
                  ~Absent(net', Relayed(g, base[g].addr, l))
           /\ ~Absent(net, Answers(base[g].addr, d, l)) =>
                  ~Absent(net', Answers(base[g].addr, d, l))
    <3>1. base[g].addr \in Games => \A x \in Relayed(g, base[g].addr, l)
                                         \cup Answers(base[g].addr, d, l) :
                                       x[1][1] # c /\ x[1][2] # c
        BY <1>6, <2>1 DEF Relayed, Answers
    <3> QED BY <1>5, <3>1
  <2>6. CASE base[g].addr \in Games
      BY <2>2, <2>4, <2>5, <2>6, PromisedKinds DEF d
  <2>7. CASE base[g].addr = Nobody
    <3>1. \A K \in {Relayed(g, Nobody, l), Answers(Nobody, d, l)} : Absent(net, K)
      <4>1. Nobody \notin Procs
          BY ProcessesAssumption DEF Procs
      <4>2. \A x \in Links : x[1] # Nobody /\ x[2] # Nobody
          BY <4>1 DEF Links
      <4> QED BY <4>2 DEF Absent, Relayed, Answers
    <3> QED BY <2>2, <2>4, <2>7, <3>1, PromisedKinds DEF d
  <2> QED BY <2>3, <2>6, <2>7
<1>14. KickInv(net', base', client', conn', kicked' \cup missed')
  <2> DEFINE kd == kicked \cup missed
  <2> HIDE DEF kd
  <2>1. kicked' \cup missed' = kd
      BY <1>1 DEF kd
  <2> SUFFICES ASSUME NEW g \in Games, NEW l \in Lives, NEW d \in Clients,
                      IsBase(base, g, l), d # base[g].owner, conn'[d] # "gone",
                      \/ Has(client', d, l) \/ ~Absent(net', Creations(d, l))
                      \/ ~Absent(net', HandingTo(d, l))
               PROVE  d \in kd \/ ~Absent(net', Kicks(g, d))
      BY <1>1, <2>1 DEF KickInv
  <2>2. d # c /\ conn[d] # "gone"
      BY <1>1
  <2>3. \/ Has(client, d, l) \/ ~Absent(net, Creations(d, l)) \/ ~Absent(net, HandingTo(d, l))
      BY <1>1, <1>3, <2>2 DEF Has
  <2>4. d \in kd \/ ~Absent(net, Kicks(g, d))
      BY <2>2, <2>3 DEF HandInv, KickInv, kd
  <2>5. \A x \in Kicks(g, d) : x[1][1] # c /\ x[1][2] # c
      BY <1>6, <2>2 DEF Kicks
  <2> QED BY <1>5, <2>4, <2>5
<1> QED BY <1>9, <1>10, <1>12, <1>13, <1>14 DEF HandInv

-----------------------------------------------------------------------------
(* A client's request. *)

LEMMA HandCreateBase ==
    ASSUME TypeInv, TypeInv', StageInv, HandInv, UNCHANGED <<conn, kicked, missed>>,
           NEW g \in Games, NEW c \in Clients, [name |-> "entity", owner |-> c] \in orders,
           CreateBase(g, c)
    PROVE  HandInv'
<1> DEFINE n == lives + 1
           o == [name |-> "cell", owner |-> c, base |-> g, life |-> n]
<1>1. /\ ~base[g].there /\ lives' = n
      /\ base'[g] = Entity(n, Nobody, c) /\ \A h \in Games : h # g => base'[h] = base[h]
      /\ orders' = (orders \ {[name |-> "entity", owner |-> c]}) \cup {o}
      /\ UNCHANGED <<cell, client, net>>
    BY DEF CreateBase, TypeInv, Tables
<1>2. /\ base'[g].there /\ base'[g].life = n /\ base'[g].addr = Nobody
      /\ base'[g].owner = c /\ ~base'[g].ready
    BY <1>1 DEF Entity
<1>3. lives \in Nat /\ n \in Nat /\ n \in Lives /\ n > lives
    BY <1>1, Facts DEF TypeInv, Counting, Lives
<1>4. /\ \A h \in Games : ~IsBase(base, h, n) /\ ~IsCell(cell, h, n)
      /\ ~Ordered(orders, n) /\ Absent(net, Chain(n)) /\ Absent(net, Later(n))
      /\ \A d : Absent(net, Creations(d, n))
    BY <1>3, StageFacts
<1>5. /\ Fresh(conn, orders, c) /\ conn[c] # "new"
      /\ Absent(net, Tokens(c)) /\ ~client[c].there
      /\ \A h \in Games : base[h].there => base[h].owner # c
    BY DEF Fresh, HandInv, Tidy, FreshInv, TypeInv, Counting
<1>6. /\ Absent(net, Handings(n))
      /\ \A a : Absent(net, Astray(g, a, n)) /\ Absent(net, WrongBase(g, n))
      /\ \A d \in Clients : Absent(net, HandingTo(d, n))
  <2>1. Absent(net, Handings(n)) /\ \A a : Absent(net, Astray(g, a, n))
        /\ \A d \in Clients : Absent(net, HandingTo(d, n))
      BY <1>3, <1>4, AbsentParts
  <2>2. \A x \in WrongBase(g, n) : x \in Creations(x[1][2], n)
      BY DEF WrongBase, Creations
  <2>3. Absent(net, WrongBase(g, n))
      BY <1>4, <2>2 DEF Absent
  <2> QED BY <2>1, <2>3
<1>7. /\ \A l \in Lives : l # n => (Ordered(orders', l) => Ordered(orders, l))
      /\ \A p \in orders' : p.name = "cell" => p = o \/ p \in orders
      /\ \A d \in Clients : Fresh(conn', orders', d) => d # c /\ Fresh(conn, orders, d)
  <2> HIDE DEF n
  <2>1. o.name = "cell" /\ o.life = n
      OBVIOUS
  <2>2. \A d \in Clients : [name |-> "entity", owner |-> d] # o
      OBVIOUS
  <2>3. \A d \in Clients : [name |-> "entity", owner |-> d] = [name |-> "entity", owner |-> c]
                              => d = c
    <3>1. \A d : [name |-> "entity", owner |-> d].owner = d
        OBVIOUS
    <3> QED BY <3>1
  <2> HIDE DEF o
  <2>4. \A d \in Clients : Fresh(conn', orders', d) => d # c /\ Fresh(conn, orders, d)
      BY <1>1, <1>5, <2>2 DEF Fresh
  <2> QED BY <1>1, <2>1, <2>4 DEF Ordered
<1>8. /\ o.owner = c /\ o.base = g /\ o.life = n
      /\ \A p \in orders : p.name = "cell" => p.life # n
    BY <1>4 DEF Ordered
<1>9. \A h \in Games : \A l \in Lives : IsBase(base', h, l) =>
         \/ h = g /\ l = n
         \/ h # g /\ l # n /\ IsBase(base, h, l) /\ base'[h] = base[h]
  <2> HIDE DEF n
  <2> QED BY <1>1, <1>2, <1>4 DEF IsBase
<1> HIDE DEF n, o
<1>10. Tidy(net', base', cell', client', conn', orders', lives')
  <2>1. FreshInv(net, base', client, conn', orders')
    <3>1. \A d \in Clients : Fresh(conn', orders', d) =>
             Absent(net, Tokens(d)) /\ ~client[d].there
             /\ \A h \in Games : base'[h].there => base'[h].owner # d
        BY <1>1, <1>2, <1>7 DEF HandInv, Tidy, FreshInv
    <3> QED BY <3>1 DEF FreshInv
  <2>2. OwnersInv(base')
      BY <1>1, <1>2, <1>5 DEF HandInv, Tidy, OwnersInv
  <2>3. AddrInv(net, base', cell, orders')
    <3>1. ASSUME NEW h \in Games, NEW l \in Lives, IsBase(base', h, l)
          PROVE  /\ Absent(net, WrongBase(h, l))
                 /\ \A k \in Games : IsCell(cell, k, l) => cell[k].addr = h
                 /\ \A p \in orders' : p.name = "cell" /\ p.life = l =>
                        p.base = h /\ p.owner = base'[h].owner
      <4>1. CASE h = g /\ l = n
          BY <1>2, <1>4, <1>6, <1>7, <1>8, <4>1
      <4>2. CASE h # g /\ l # n /\ IsBase(base, h, l) /\ base'[h] = base[h]
          BY <1>7, <1>8, <4>2 DEF HandInv, Tidy, AddrInv
      <4> QED BY <1>9, <3>1, <4>1, <4>2
    <3> QED BY <3>1 DEF AddrInv, HandInv, Tidy
  <2>4. LateInv(net, base')
      BY <1>2, <1>4, <1>9 DEF HandInv, Tidy, LateInv
  <2>5. WaitInv(net, base', client, orders')
    <3>1. ASSUME NEW h \in Games, NEW l \in Lives, IsBase(base', h, l),
                 Ordered(orders', l) \/ ~Absent(net, News(l))
          PROVE  Absent(net, Tokens(base'[h].owner)) /\ ~client[base'[h].owner].there
      <4>1. CASE h = g /\ l = n
          BY <1>2, <1>5, <4>1
      <4>2. CASE h # g /\ l # n /\ IsBase(base, h, l) /\ base'[h] = base[h]
          BY <1>7, <3>1, <4>2 DEF HandInv, Tidy, WaitInv
      <4> QED BY <1>9, <3>1, <4>1, <4>2
    <3> QED BY <3>1 DEF WaitInv
  <2>6. PlaceInv(net, base')
      BY <1>6, <1>9 DEF HandInv, Tidy, PlaceInv
  <2>7. SettledInv(net, base', client)
      BY <1>6, <1>9 DEF HandInv, Tidy, SettledInv
  <2>8. LivesInv(client, n)
    <3>1. \A d \in Clients : client[d].there => client[d].life <= lives /\ client[d].life \in Nat
        BY ThereIs DEF HandInv, Tidy, LivesInv, Lives
    <3> QED BY <1>3, <3>1 DEF LivesInv
  <2> QED BY <1>1, <2>1, <2>2, <2>3, <2>4, <2>5, <2>6, <2>7, <2>8 DEF HandInv, Tidy
<1>11. ConnInv(net', base', client', conn')
    BY <1>1, <1>2, <1>5 DEF HandInv, ConnInv
<1>12. AgreeInv(net', base', cell')
    BY <1>1, <1>4, <1>9 DEF HandInv, AgreeInv
<1>13. ReadyInv(net', base', cell', client')
  <2> SUFFICES ASSUME NEW h \in Games, NEW l \in Lives, IsBase(base', h, l),
                      Has(client, base'[h].owner, l), ~client[base'[h].owner].ready
               PROVE  Promised(net, base', cell, h, base'[h].owner, l)
      BY <1>1 DEF ReadyInv
  <2>1. h # g /\ IsBase(base, h, l) /\ base'[h] = base[h]
      BY <1>2, <1>5, <1>9 DEF Has
  <2>2. Promised(net, base, cell, h, base[h].owner, l)
      BY <2>1 DEF HandInv, ReadyInv
  <2> QED BY <2>1, <2>2 DEF Promised
<1>14. KickInv(net', base', client', conn', kicked' \cup missed')
  <2>1. \A d \in Clients : ~Has(client, d, n)
    <3>1. \A d \in Clients : client[d].there => client[d].life <= lives /\ client[d].life \in Nat
        BY ThereIs DEF HandInv, Tidy, LivesInv, Lives
    <3> QED BY <1>3, <3>1 DEF Has
  <2> SUFFICES ASSUME NEW h \in Games, NEW l \in Lives, NEW d \in Clients,
                      IsBase(base', h, l), d # base'[h].owner, conn[d] # "gone",
                      \/ Has(client, d, l) \/ ~Absent(net, Creations(d, l))
                      \/ ~Absent(net, HandingTo(d, l))
               PROVE  d \in kicked \cup missed \/ ~Absent(net, Kicks(h, d))
      BY <1>1 DEF KickInv
  <2>2. l # n
      BY <1>4, <1>6, <2>1
  <2>3. IsBase(base, h, l) /\ base'[h] = base[h]
      BY <1>9, <2>2
  <2> QED BY <2>3 DEF HandInv, KickInv
<1>15. NewsInv(net', base', cell')
  <2>1. Nobody \notin Games
      BY ProcessesAssumption
  <2> QED BY <1>1, <1>2, <2>1 DEF HandInv, NewsInv
<1> QED BY <1>10, <1>11, <1>12, <1>13, <1>14, <1>15 DEF HandInv

LEMMA HandReconnect ==
    ASSUME TypeInv, StageInv, HandInv, UNCHANGED <<conn, kicked, missed>>,
           NEW g \in Games, NEW c \in Clients, [name |-> "entity", owner |-> c] \in orders,
           Reconnect(g, c)
    PROVE  HandInv'
<1> DEFINE l == base[g].life
           a == base[g].addr
           o == base[g].owner
           m1 == Rpc("client", "on_kick", l, g)
           m2 == Rpc("cell", "on_reconnect_fromclient", l, c)
           q1 == Send(net, g, o, m1)
           kd == kicked \cup missed
<1>1. /\ base[g].there /\ base[g].ready
      /\ base'[g] = [base[g] EXCEPT !.owner = c] /\ \A h \in Games : h # g => base'[h] = base[h]
      /\ net' = Send(q1, g, a, m2)
      /\ orders' = orders \ {[name |-> "entity", owner |-> c]}
      /\ UNCHANGED <<cell, client, lives>>
    BY DEF Reconnect, TypeInv, Tables
<1>2. /\ l \in Lives /\ o \in Clients /\ IsBase(base, g, l) /\ base[g] \in Entities
    BY <1>1, ThereIs DEF IsBase
<1>3. /\ base'[g].there /\ base'[g].life = l /\ base'[g].addr = a
      /\ base'[g].owner = c /\ base'[g].ready
    BY <1>1, <1>2 DEF Entities
<1>4. /\ m1 \in Letters /\ m1.name = "on_kick" /\ m1.to = "client"
      /\ m2 \in Letters /\ m2.name = "on_reconnect_fromclient" /\ m2.who = c
      /\ m2.life = l /\ m2.to = "cell"
    BY <1>2, Facts, RpcType DEF Names, Rpc
<1>5. /\ a \in Games /\ ~Ordered(orders, l) /\ a # Nobody
      /\ \A h \in Games : IsCell(cell, h, l) => h = a
      /\ \A h \in Games : IsBase(base, h, l) => h = g
    BY <1>1, <1>2, StageFacts, Facts
<1>6. /\ Fresh(conn, orders, c) /\ conn[c] # "new"
      /\ Absent(net, Tokens(c)) /\ ~client[c].there
      /\ \A h \in Games : base[h].there => base[h].owner # c
    BY DEF Fresh, HandInv, Tidy, FreshInv, TypeInv, Counting
<1>7. Absent(net, Chain(l)) /\ Absent(net, News(l))
    BY <1>1, <1>2, AbsentParts DEF HandInv, Tidy, LateInv
<1>8. net \in [Links -> Seq(Letters)]
    BY Facts
<1> HIDE DEF l, a, o, m1, m2
<1>9. /\ q1 \in [Links -> Seq(Letters)] /\ Thin(net, q1)
      /\ ConnInv(q1, base, client, conn) /\ AgreeInv(q1, base, cell)
      /\ NewsInv(q1, base, cell) /\ ReadyInv(q1, base, cell, client)
      /\ KickInv(q1, base, client, conn, kd)
    BY <1>4, <1>8, SendAt, ThinSent, ConnSend, AgreeSend, NewsSend, ReadySend, KickSend
       DEF HandInv, Creates
<1>10. conn[o] # "gone" => ~Absent(q1, Kicks(g, o))
  <2>1. conn[o] # "new" /\ conn[o] \in {"new", "on", "gone"}
      BY <1>1, <1>2 DEF HandInv, ConnInv, o, TypeInv, Counting
  <2>2. <<g, o>> \in Links /\ <<<<g, o>>, m1>> \in Kicks(g, o)
      BY <1>2, <1>4 DEF Links, Procs, Kicks, Posts
  <2> QED BY <1>2, <1>4, <1>8, <2>1, <2>2, SentKinds
<1> HIDE DEF q1, kd
<1>11. \A h \in Games : \A j \in Lives : IsBase(base', h, j) =>
          \/ h = g /\ j = l
          \/ h # g /\ j # l /\ IsBase(base, h, j) /\ base'[h] = base[h]
    BY <1>1, <1>3, <1>5 DEF IsBase
<1>12. /\ \A j \in Lives : Ordered(orders', j) => Ordered(orders, j)
       /\ orders' \in SUBSET orders
       /\ \A d \in Clients : Fresh(conn', orders', d) => d # c /\ Fresh(conn, orders, d)
    BY <1>1, <1>6 DEF Ordered, Fresh
<1>13. Tidy(q1, base, cell, client, conn, orders', lives)
  <2>1. BasesFade(base, base) /\ CellsFade(cell, cell) /\ ClientsFade(client, client)
      BY Unfaded
  <2>2. Placing(base)
      BY ThereIs DEF Placing
  <2>3. Tidy(net, base, cell, client, conn, orders, lives)
      BY DEF HandInv
  <2> QED BY <1>9, <1>12, <2>1, <2>2, <2>3, TidyLater
<1>14. /\ Absent(q1, Tokens(c)) /\ Absent(q1, Chain(l)) /\ Absent(q1, News(l))
       /\ Absent(q1, Creations(c, l))
    BY <1>2, <1>6, <1>7, <1>9, ThinKinds, AbsentParts
<1>15. Tidy(q1, base', cell, client, conn, orders', lives)
  <2> USE <1>13 DEF Tidy
  <2>1. FreshInv(q1, base', client, conn, orders')
    <3>1. ASSUME NEW d \in Clients, Fresh(conn, orders', d)
          PROVE  /\ Absent(q1, Tokens(d)) /\ ~client[d].there
                 /\ \A h \in Games : base'[h].there => base'[h].owner # d
      <4>1. d # c
          BY <1>12, <3>1
      <4>2. /\ Absent(q1, Tokens(d)) /\ ~client[d].there
            /\ \A h \in Games : base[h].there => base[h].owner # d
          BY <3>1 DEF FreshInv
      <4>3. \A h \in Games : h # g => base'[h] = base[h]
          BY <1>1
      <4> QED BY <1>3, <4>1, <4>2, <4>3
    <3> QED BY <3>1 DEF FreshInv
  <2>2. OwnersInv(base')
      BY <1>1, <1>3, <1>6 DEF OwnersInv
  <2>3. AddrInv(q1, base', cell, orders')
    <3>1. ASSUME NEW h \in Games, NEW j \in Lives, IsBase(base', h, j)
          PROVE  /\ Absent(q1, WrongBase(h, j))
                 /\ \A k \in Games : IsCell(cell, k, j) => cell[k].addr = h
                 /\ \A p \in orders' : p.name = "cell" /\ p.life = j =>
                        p.base = h /\ p.owner = base'[h].owner
      <4>1. CASE h = g /\ j = l
        <5>1. \A p \in orders' : p.name = "cell" => p.life # j
            BY <1>5, <1>12, <4>1 DEF Ordered
        <5> QED BY <1>2, <4>1, <5>1 DEF AddrInv
      <4>2. CASE h # g /\ j # l /\ IsBase(base, h, j) /\ base'[h] = base[h]
          BY <4>2 DEF AddrInv
      <4> QED BY <1>11, <3>1, <4>1, <4>2
    <3> QED BY <3>1 DEF AddrInv
  <2>4. LateInv(q1, base')
      BY <1>3, <1>11, <1>14 DEF LateInv
  <2>5. WaitInv(q1, base', client, orders')
      BY <1>5, <1>11, <1>12, <1>14 DEF WaitInv
  <2>6. PlaceInv(q1, base')
      BY <1>2, <1>3, <1>11 DEF PlaceInv, a
  <2>7. SettledInv(q1, base', client)
      BY <1>3, <1>6, <1>11, <1>14 DEF SettledInv, Has
  <2> QED BY <2>1, <2>2, <2>3, <2>4, <2>5, <2>6, <2>7
<1>16. Tidy(net', base', cell, client, conn, orders', lives)
  <2> DEFINE x == <<<<g, a>>, m2>>
  <2>1. Placing(base')
      BY <1>1, <1>2, <1>3, ThereIs DEF Placing
  <2>2. /\ x \notin WrongCell
        /\ \A j : x \notin Chain(j) /\ x \notin News(j) /\ (x \in Later(j) => j = l)
                  /\ (x \in Handings(j) => j = l)
                  /\ (\A h : x \notin WrongBase(h, j))
                  /\ (\A h, b : x \in Astray(h, b, j) => j = l /\ <<h, b>> # <<g, a>>)
                  /\ (\A d : x \notin Creations(d, j))
        /\ \A d : x \in Tokens(d) => d = c
      BY <1>4 DEF WrongCell, Chain, News, Later, Handings, WrongBase, Astray, Creations,
                  Tokens, Creates
  <2> HIDE DEF x
  <2>3. ASSUME NEW h \in Games, NEW j \in Lives, IsBase(base', h, j)
        PROVE  /\ x \notin WrongBase(h, j)
               /\ x \in Chain(j) => ~base'[h].ready
               /\ x \in Later(j) => base'[h].ready
               /\ x \in News(j) => Absent(q1, Tokens(base'[h].owner))
                                   /\ ~client[base'[h].owner].there
               /\ x \in Tokens(base'[h].owner) => ~Ordered(orders', j) /\ Absent(q1, News(j))
               /\ x \notin Astray(h, base'[h].addr, j)
               /\ x \in Handings(j) =>
                     ~Has(client, base'[h].owner, j) /\ Absent(q1, Creations(base'[h].owner, j))
               /\ x \in Creations(base'[h].owner, j) => Absent(q1, Handings(j))
    <3>1. CASE h = g /\ j = l
        BY <1>3, <1>5, <1>6, <1>12, <1>14, <2>2, <3>1 DEF Has
    <3>2. CASE h # g /\ j # l /\ IsBase(base, h, j) /\ base'[h] = base[h]
      <4>1. base'[h].owner # c
          BY <1>6, <3>2 DEF IsBase
      <4> QED BY <2>2, <3>2, <4>1
    <3> QED BY <1>11, <2>3, <3>1, <3>2
  <2>4. \A j \in Lives : x \in Chain(j) => Absent(q1, Chain(j))
      BY <2>2
  <2>5. \A d \in Clients : x \in Tokens(d) =>
            ~Fresh(conn, orders', d) /\ Absent(q1, Tokens(d)) /\ ~client[d].there
    <3>1. ~Fresh(conn, orders', c)
        BY <1>12
    <3> QED BY <1>6, <1>14, <2>2, <3>1
  <2>6. Tidy(Send(q1, g, a, m2), base', cell, client, conn, orders', lives)
      BY <1>4, <1>9, <1>15, <2>1, <2>2, <2>3, <2>4, <2>5, TidySend DEF x
  <2> QED BY <1>1, <2>6
<1>17. ConnInv(net', base', client, conn)
  <2>1. ConnInv(q1, base', client, conn)
    <3>1. \A h \in Games : h # g => base'[h] = base[h]
        BY <1>1
    <3>2. \A h \in Games : base[h].there => conn[base[h].owner] # "new"
        BY <1>9 DEF ConnInv
    <3>3. \A h \in Games : base'[h].there => conn[base'[h].owner] # "new"
        BY <1>3, <1>6, <3>1, <3>2
    <3> QED BY <1>9, <3>3 DEF ConnInv
  <2> QED BY <1>1, <1>4, <1>9, <2>1, ConnSend
<1>18. AgreeInv(net', base', cell)
  <2> SUFFICES ASSUME NEW h \in Games, NEW k \in Games, NEW j \in Lives,
                      IsBase(base', h, j), IsCell(cell, k, j)
               PROVE  Agreed(net'[<<h, k>>], j, cell[k].owner, base'[h].owner)
      BY DEF AgreeInv
  <2>1. CASE h = g /\ j = l
    <3>1. k = a /\ net'[<<g, a>>] = Append(q1[<<g, a>>], m2) /\ q1[<<g, a>>] \in Seq(Letters)
      <4>1. k = a
          BY <1>5, <2>1
      <4>2. /\ <<g, a>> \in Links
            /\ Send(q1, g, a, m2)[<<g, a>>] = Append(q1[<<g, a>>], m2)
          BY <1>4, <1>5, <1>9, SendGame
      <4> QED BY <1>1, <1>9, <4>1, <4>2
    <3>2. IsHanding(m2, l) /\ m2.who = c
        BY <1>4 DEF IsHanding
    <3> QED BY <1>3, <1>4, <2>1, <3>1, <3>2, AgreedAppend
  <2>2. CASE h # g /\ j # l /\ IsBase(base, h, j) /\ base'[h] = base[h]
    <3>1. <<h, k>> \in Links /\ <<h, k>> # <<g, a>>
        BY <2>2, GameLinks
    <3>2. net'[<<h, k>>] = q1[<<h, k>>]
        BY <1>1, <1>4, <1>9, <3>1, SendAt
    <3> QED BY <1>9, <2>2, <3>2 DEF AgreeInv
  <2> QED BY <1>11, <2>1, <2>2
<1>19. ReadyInv(net', base', cell, client)
  <2>1. ReadyInv(q1, base', cell, client)
    <3> SUFFICES ASSUME NEW h \in Games, NEW j \in Lives, IsBase(base', h, j),
                        Has(client, base'[h].owner, j), ~client[base'[h].owner].ready
                 PROVE  Promised(q1, base', cell, h, base'[h].owner, j)
        BY DEF ReadyInv
    <3>1. IsBase(base, h, j) /\ base'[h] = base[h]
        BY <1>3, <1>6, <1>11 DEF Has
    <3>2. Promised(q1, base, cell, h, base[h].owner, j)
        BY <1>9, <3>1 DEF ReadyInv
    <3> QED BY <3>1, <3>2 DEF Promised
  <2> QED BY <1>1, <1>4, <1>9, <2>1, ReadySend
<1>20. KickInv(net', base', client, conn, kd)
  <2>1. KickInv(q1, base', client, conn, kd)
    <3> SUFFICES ASSUME NEW h \in Games, NEW j \in Lives, NEW d \in Clients,
                        IsBase(base', h, j), d # base'[h].owner, conn[d] # "gone",
                        \/ Has(client, d, j) \/ ~Absent(q1, Creations(d, j))
                        \/ ~Absent(q1, HandingTo(d, j))
                 PROVE  d \in kd \/ ~Absent(q1, Kicks(h, d))
        BY DEF KickInv
    <3>1. CASE h = g /\ j = l /\ d = o
        BY <1>10, <3>1
    <3>2. CASE h = g /\ j = l /\ d # o
        BY <1>2, <1>9, <3>2 DEF KickInv, o
    <3>3. CASE IsBase(base, h, j) /\ base'[h] = base[h]
        BY <1>9, <3>3 DEF KickInv
    <3> QED BY <1>11, <3>1, <3>2, <3>3
  <2>2. \A h \in Games : \A d \in Clients :
            /\ IsBase(base', h, l) /\ d # base'[h].owner
            /\ \/ <<<<g, a>>, m2>> \in Creations(d, l) \/ <<<<g, a>>, m2>> \in HandingTo(d, l)
            => FALSE
    <3>1. \A h \in Games : IsBase(base', h, l) => h = g
        BY <1>2, <1>11
    <3>2. \A d : <<<<g, a>>, m2>> \notin Creations(d, l)
                 /\ (<<<<g, a>>, m2>> \in HandingTo(d, l) => d = c)
        BY <1>4 DEF Creations, HandingTo, Creates
    <3> QED BY <1>3, <3>1, <3>2
  <2> QED BY <1>1, <1>4, <1>9, <2>1, <2>2, KickToken
<1>21. NewsInv(net', base', cell)
  <2>1. \A h \in Games : base'[h].there =>
           base[h].there /\ base'[h].life = base[h].life /\ base'[h].addr = base[h].addr
      BY <1>1, <1>3 DEF l, a
  <2>2. NewsInv(q1, base', cell)
      BY <1>9, <2>1, NewsTables, Unfaded
  <2> QED BY <1>1, <1>4, <1>9, <2>2, NewsSend
<1> QED BY <1>1, <1>16, <1>17, <1>18, <1>19, <1>20, <1>21 DEF HandInv, kd

LEMMA HandNotYet ==
    ASSUME TypeInv, HandInv, UNCHANGED <<conn, kicked, missed>>,
           NEW g \in Games, NEW c \in Clients, NotYet(g, c)
    PROVE  HandInv'
<1>1. UNCHANGED <<base, cell, client, net, lives>> /\ orders' \in SUBSET orders
    BY DEF NotYet
<1> QED BY <1>1, Unfaded, HandFades DEF HandInv

LEMMA HandCreateEntity ==
    ASSUME TypeInv, TypeInv', StageInv, HandInv,
           NEW g \in Loads, NEW c \in Clients, CreateEntity(g, c)
    PROVE  HandInv'
<1>1. /\ g \in Games /\ [name |-> "entity", owner |-> c] \in orders
      /\ UNCHANGED <<conn, kicked, missed>>
      /\ CreateBase(g, c) \/ Reconnect(g, c) \/ NotYet(g, c)
    BY ProcessesAssumption DEF CreateEntity
<1> QED BY <1>1, HandCreateBase, HandReconnect, HandNotYet

(* A cell comes. *)
LEMMA HandCreateCell ==
    ASSUME TypeInv, StageInv, HandInv, NEW g \in Games, CreateCell(g)
    PROVE  HandInv'
<1>1. PICK o \in orders :
         /\ o.name = "cell"
         /\ cell' = [cell EXCEPT ![g] = Entity(o.life, o.base, o.owner)]
         /\ net' = Send(net, g, o.base, Rpc("base", "on_cell_create", o.life, g))
         /\ orders' = orders \ {o}
         /\ UNCHANGED <<base, client, conn, lives, kicked, missed>>
    BY DEF CreateCell
<1> DEFINE l == o.life
           b == o.base
           m == Rpc("base", "on_cell_create", l, g)
           x == <<<<g, b>>, m>>
           kd == kicked \cup missed
<1>2. l \in Lives /\ b \in Games /\ o.owner \in Clients
    BY <1>1 DEF TypeInv, Counting, Orders
<1>3. /\ cell'[g].there /\ cell'[g].life = l /\ cell'[g].addr = b /\ cell'[g].owner = o.owner
      /\ \A h \in Games : h # g => cell'[h] = cell[h]
    BY <1>1 DEF TypeInv, Tables, Entity
<1>4. /\ m \in Letters /\ m.name = "on_cell_create" /\ m.who = g /\ m.life = l /\ m.to = "base"
    BY <1>2, Facts, RpcType DEF Names, Rpc
<1>5. Ordered(orders, l)
    BY <1>1 DEF Ordered
<1>6. /\ Absent(net, Chain(l)) /\ Absent(net, Later(l)) /\ Absent(net, Handings(l))
      /\ \A h \in Games : ~IsCell(cell, h, l)
      /\ \A h \in Games : IsBase(base, h, l) => ~base[h].ready
    BY <1>2, <1>5, StageFacts, AbsentParts
<1>7. \A h \in Games : IsBase(base, h, l) => b = h /\ o.owner = base[h].owner
    BY <1>1, <1>2 DEF HandInv, Tidy, AddrInv
<1>8. \A h \in Games : IsBase(base, h, l) =>
         Absent(net, Tokens(base[h].owner)) /\ ~client[base[h].owner].there
    BY <1>2, <1>5 DEF HandInv, Tidy, WaitInv
<1>9. net \in [Links -> Seq(Letters)] /\ Placing(base)
    BY Facts, ThereIs DEF Placing
<1>10. /\ x \notin WrongCell
       /\ \A j : x \notin Later(j) /\ x \notin Handings(j)
                 /\ (x \in Chain(j) => j = l) /\ (x \in News(j) => j = l)
                 /\ (\A h : x \notin WrongBase(h, j))
                 /\ (\A h, a : x \notin Astray(h, a, j))
                 /\ (\A d : x \notin Creations(d, j) /\ x \notin HandingTo(d, j))
       /\ \A d : x \notin Tokens(d)
    BY <1>4 DEF WrongCell, Chain, News, Later, Handings, WrongBase, Astray, Creations, HandingTo,
                Tokens, Creates
<1> HIDE DEF l, b, m, x, kd
<1>11. net' = Send(net, g, b, m)
    BY <1>1 DEF l, b, m
<1>12. Tidy(net, base, cell', client, conn, orders', lives)
  <2> USE DEF Tidy
  <2>0. /\ Tidy(net, base, cell, client, conn, orders, lives)
        /\ \A j : Ordered(orders', j) => Ordered(orders, j)
        /\ \A d : Fresh(conn, orders', d) => Fresh(conn, orders, d)
      BY <1>1 DEF HandInv, Ordered, Fresh
  <2>1. FreshInv(net, base, client, conn, orders')
      BY <2>0 DEF FreshInv
  <2>2. AddrInv(net, base, cell', orders')
    <3>1. ASSUME NEW h \in Games, NEW j \in Lives, IsBase(base, h, j)
          PROVE  /\ Absent(net, WrongBase(h, j))
                 /\ \A k \in Games : IsCell(cell', k, j) => cell'[k].addr = h
                 /\ \A p \in orders' : p.name = "cell" /\ p.life = j =>
                        p.base = h /\ p.owner = base[h].owner
      <4>1. /\ Absent(net, WrongBase(h, j))
            /\ \A k \in Games : IsCell(cell, k, j) => cell[k].addr = h
            /\ \A p \in orders : p.name = "cell" /\ p.life = j =>
                   p.base = h /\ p.owner = base[h].owner
          BY <2>0, <3>1 DEF AddrInv
      <4>2. IsCell(cell', g, j) => cell'[g].addr = h
          BY <1>3, <1>7, <3>1 DEF IsCell
      <4>3. \A k \in Games : k # g /\ IsCell(cell', k, j) => cell'[k].addr = h
          BY <1>3, <4>1 DEF IsCell
      <4> QED BY <1>1, <4>1, <4>2, <4>3
    <3> QED BY <2>0, <3>1 DEF AddrInv
  <2>3. WaitInv(net, base, client, orders')
      BY <2>0 DEF WaitInv
  <2> QED BY <2>0, <2>1, <2>2, <2>3
<1>13. Tidy(net', base, cell', client, conn, orders', lives)
  <2>1. \A h \in Games : \A j \in Lives : IsBase(base, h, j) =>
               /\ x \notin WrongBase(h, j)
               /\ x \in Chain(j) => ~base[h].ready
               /\ x \in Later(j) => base[h].ready
               /\ x \in News(j) => Absent(net, Tokens(base[h].owner))
                                   /\ ~client[base[h].owner].there
               /\ x \in Tokens(base[h].owner) => ~Ordered(orders', j) /\ Absent(net, News(j))
               /\ x \notin Astray(h, base[h].addr, j)
               /\ x \in Handings(j) =>
                     ~Has(client, base[h].owner, j) /\ Absent(net, Creations(base[h].owner, j))
               /\ x \in Creations(base[h].owner, j) => Absent(net, Handings(j))
      BY <1>6, <1>8, <1>10
  <2>2. \A j \in Lives : x \in Chain(j) => Absent(net, Chain(j))
      BY <1>6, <1>10
  <2>3. \A d \in Clients : x \in Tokens(d) =>
            ~Fresh(conn, orders', d) /\ Absent(net, Tokens(d)) /\ ~client[d].there
      BY <1>10
  <2>4. Tidy(Send(net, g, b, m), base, cell', client, conn, orders', lives)
      BY <1>4, <1>9, <1>10, <1>12, <2>1, <2>2, <2>3, TidySend DEF x
  <2> QED BY <1>11, <2>4
<1>14. ConnInv(net', base, client, conn)
    BY <1>4, <1>9, <1>11, ConnSend DEF HandInv
<1>15. AgreeInv(net', base, cell')
  <2>1. AgreeInv(net, base, cell')
    <3> SUFFICES ASSUME NEW h \in Games, NEW k \in Games, NEW j \in Lives,
                        IsBase(base, h, j), IsCell(cell', k, j)
                 PROVE  Agreed(net[<<h, k>>], j, cell'[k].owner, base[h].owner)
        BY DEF AgreeInv
    <3>1. CASE k = g
      <4>1. j = l /\ cell'[k].owner = base[h].owner
          BY <1>3, <1>7, <3>1 DEF IsCell
      <4> DEFINE s == net[<<h, k>>]
      <4>2. s \in Seq(Letters) /\ <<h, k>> \in Links
          BY <1>9, GameLinks
      <4>3. \A i \in 1 .. Len(s) : s[i] \in Letters
          BY <4>2
      <4>4. \A i \in 1 .. Len(s) : ~IsHanding(s[i], l)
        <5>1. \A i \in 1 .. Len(s) : <<<<h, k>>, s[i]>> \notin Handings(l)
            BY <1>6, <4>2 DEF Absent
        <5>2. \A i \in 1 .. Len(s) : IsHanding(s[i], l) =>
                 <<<<h, k>>, s[i]>> \in Handings(l)
            BY <4>2, <4>3 DEF IsHanding, Handings, Posts
        <5> QED BY <5>1, <5>2
      <4> HIDE DEF s
      <4>5. Agreed(s, l, cell'[k].owner, base[h].owner)
          BY <4>1, <4>2, <4>4, AgreedNone
      <4> QED BY <4>1, <4>5 DEF s
    <3>2. CASE k # g
        BY <1>3, <3>2 DEF HandInv, AgreeInv, IsCell
    <3> QED BY <3>1, <3>2
  <2> QED BY <1>4, <1>9, <1>11, <2>1, AgreeSend
<1>16. ReadyInv(net', base, cell', client)
  <2>1. ReadyInv(net, base, cell', client)
    <3> SUFFICES ASSUME NEW h \in Games, NEW j \in Lives, IsBase(base, h, j),
                        Has(client, base[h].owner, j), ~client[base[h].owner].ready
                 PROVE  Promised(net, base, cell', h, base[h].owner, j)
        BY DEF ReadyInv
    <3>1. j # l
        BY <1>8 DEF Has
    <3>2. \A k \in Games : IsCell(cell', k, j) => IsCell(cell, k, j)
        BY <1>3, <3>1 DEF IsCell
    <3>3. Promised(net, base, cell, h, base[h].owner, j)
        BY DEF HandInv, ReadyInv
    <3> QED BY <3>2, <3>3, PromisedKinds
  <2> QED BY <1>4, <1>9, <1>11, <2>1, ReadySend
<1>17. KickInv(net', base, client, conn, kd)
  <2>1. ~Creates(m) /\ m.name # "on_reconnect_fromclient"
      BY <1>4 DEF Creates
  <2> QED BY <1>4, <1>9, <1>11, <2>1, KickSend DEF HandInv, kd
<1>18. NewsInv(net', base, cell')
  <2> SUFFICES ASSUME NEW f \in Games, NEW h \in Games, cell'[h].there, cell'[h].addr = f
               PROVE  /\ Behind(net'[<<h, f>>], cell'[h].life)
                      /\ base[f].there /\ base[f].addr = h /\ base[f].life # cell'[h].life =>
                            Comes(net'[<<h, f>>], cell'[h].life)
      BY DEF NewsInv
  <2>1. CASE h = g
    <3>1. f = b /\ cell'[h].life = l
        BY <1>3, <2>1
    <3>2. /\ Send(net, g, b, m)[<<g, b>>] = Append(net[<<g, b>>], m)
          /\ net[<<g, b>>] \in Seq(Letters)
        BY <1>2, <1>4, <1>9, SendGame
    <3>3. IsNews(m, l)
        BY <1>4 DEF IsNews
    <3>4. Behind(Append(net[<<g, b>>], m), l) /\ Comes(Append(net[<<g, b>>], m), l)
        BY <1>4, <3>2, <3>3, BehindAppend
    <3> QED BY <1>11, <2>1, <3>1, <3>2, <3>4
  <2>2. CASE h # g
    <3>1. <<h, f>> \in Links /\ <<h, f>> # <<g, b>>
        BY <2>2, GameLinks
    <3>2. net'[<<h, f>>] = net[<<h, f>>]
        BY <1>4, <1>9, <1>11, <3>1, SendAt
    <3> QED BY <1>3, <2>2, <3>2 DEF HandInv, NewsInv
  <2> QED BY <2>1, <2>2
<1> QED BY <1>1, <1>13, <1>14, <1>15, <1>16, <1>17, <1>18 DEF HandInv, kd

-----------------------------------------------------------------------------
(* A base executes an rpc. *)

LEMMA HandTaken ==
    ASSUME TypeInv, HandInv, NEW k \in Links, NEW m, NEW q, Taking(k, m, q)
    PROVE  /\ q \in [Links -> Seq(Letters)] /\ m \in Letters /\ m.life \in Lives
           /\ Placing(base) /\ Thin(net, q) /\ <<k, m>> \in Posts
           /\ Tidy(q, base, cell, client, conn, orders, lives)
           /\ ConnInv(q, base, client, conn)
<1>1. orders \in SUBSET orders
    OBVIOUS
<1>2. m \in Letters /\ q \in [Links -> Seq(Letters)]
    BY TakenKinds
<1> QED BY <1>1, <1>2, LetterType, TidyTake, ConnTake, ThinTaken, ThereIs
        DEF HandInv, Placing, Posts

LEMMA HandOnCellCreate ==
    ASSUME TypeInv, StageInv, HandInv, UNCHANGED <<cell, client, conn, orders, lives>>,
           kicked \cup missed \subseteq kicked' \cup missed',
           NEW k \in Links, NEW m, NEW q, Taking(k, m, q),
           NEW g \in Games, g = k[2], m.to = "base", base[g].there, base[g].life = m.life,
           OnCellCreate(g, m, q)
    PROVE  HandInv'
<1> DEFINE l == m.life
           c == base[g].owner
           r == Rpc("client", "create", l, g)
           x == <<<<g, c>>, r>>
           kd == kicked \cup missed
<1>1. /\ m.name = "on_cell_create"
      /\ base' = [base EXCEPT ![g].addr = m.who]
      /\ net' = Send(q, g, c, r)
    BY DEF OnCellCreate
<1>2. /\ q \in [Links -> Seq(Letters)] /\ m \in Letters /\ l \in Lives /\ Placing(base)
      /\ Thin(net, q) /\ <<k, m>> \in Posts
      /\ Tidy(q, base, cell, client, conn, orders, lives) /\ ConnInv(q, base, client, conn)
    BY HandTaken
<1>3. /\ IsBase(base, g, l) /\ c \in Clients /\ base[g] \in Entities
      /\ \A h \in Games : IsBase(base, h, l) => h = g
    BY <1>2, ThereIs, StageFacts DEF IsBase
<1>4. /\ base'[g].there /\ base'[g].life = l /\ base'[g].addr = m.who
      /\ base'[g].owner = c /\ base'[g].ready = base[g].ready
      /\ \A h \in Games : h # g => base'[h] = base[h]
    BY <1>1, <1>3 DEF Entities, TypeInv, Tables
<1>5. /\ r \in Letters /\ r.name = "create" /\ r.life = l /\ r.who = g
    BY <1>2, Facts, RpcType DEF Names, Rpc
<1>6. <<k, m>> \in News(l) /\ <<k, m>> \in Chain(l)
    BY <1>1, <1>2 DEF News, Chain
<1>7. /\ ~Absent(net, News(l)) /\ ~Absent(net, Chain(l)) /\ Absent(q, Chain(l))
      /\ Absent(q, News(l))
    BY <1>2, <1>6, TakenKinds, AbsentParts DEF HandInv, Tidy, ChainInv
<1>8. /\ ~base[g].ready /\ ~Ordered(orders, l) /\ Absent(q, Later(l))
      /\ Absent(q, Handings(l)) /\ \A h, a : Absent(q, Astray(h, a, l))
  <2>1. ~base[g].ready /\ ~Ordered(orders, l)
      BY <1>2, <1>3, <1>7, StageFacts DEF HandInv, Tidy, LateInv
  <2>2. Absent(q, Later(l))
      BY <1>2, <1>3, <2>1 DEF Tidy, LateInv
  <2> QED BY <1>2, <2>1, <2>2, AbsentParts
<1>9. /\ Absent(net, Tokens(c)) /\ ~client[c].there /\ Absent(q, Tokens(c))
    BY <1>2, <1>3, <1>7, TakenKinds DEF HandInv, Tidy, WaitInv
<1>10. k = <<m.who, g>>
  <2>1. <<k, m>> \notin WrongCell
      BY TakenKinds DEF HandInv, Tidy, AddrInv
  <2>2. m.who = k[1]
      BY <1>1, <1>2, <2>1 DEF WrongCell
  <2> QED BY <2>2 DEF Links
<1>11. ~Fresh(conn, orders, c)
    BY <1>3 DEF HandInv, Tidy, FreshInv, IsBase
<1> HIDE DEF l, c, r, x, kd
<1>12. /\ \A h \in Games : \A j \in Lives : IsBase(base', h, j) <=> IsBase(base, h, j)
       /\ \A h \in Games : /\ base'[h].there <=> base[h].there
                           /\ base[h].there => /\ base'[h].life = base[h].life
                                               /\ base'[h].owner = base[h].owner
                                               /\ base'[h].ready = base[h].ready
  <2>1. \A h \in Games : /\ base'[h].there <=> base[h].there
                         /\ base[h].there => /\ base'[h].life = base[h].life
                                             /\ base'[h].owner = base[h].owner
                                             /\ base'[h].ready = base[h].ready
      BY <1>3, <1>4 DEF IsBase, c
  <2> QED BY <2>1 DEF IsBase
<1>13. Placing(base')
    BY <1>2, <1>12 DEF Placing
<1>14. Tidy(q, base', cell, client, conn, orders, lives)
  <2> USE <1>2 DEF Tidy
  <2>1. FreshInv(q, base', client, conn, orders)
      BY <1>12 DEF FreshInv
  <2>2. OwnersInv(base')
      BY <1>12 DEF OwnersInv
  <2>3. AddrInv(q, base', cell, orders)
      BY <1>12 DEF AddrInv, IsBase
  <2>4. LateInv(q, base')
      BY <1>12 DEF LateInv, IsBase
  <2>5. WaitInv(q, base', client, orders)
      BY <1>12 DEF WaitInv, IsBase
  <2>6. PlaceInv(q, base')
    <3>1. ASSUME NEW h \in Games, NEW j \in Lives, IsBase(base', h, j)
          PROVE  Absent(q, Astray(h, base'[h].addr, j))
      <4>1. CASE h = g
        <5>1. j = l
            BY <1>4, <3>1, <4>1 DEF IsBase
        <5> QED BY <1>8, <5>1
      <4>2. CASE h # g
          BY <1>4, <1>12, <3>1, <4>2 DEF PlaceInv
      <4> QED BY <4>1, <4>2
    <3> QED BY <3>1 DEF PlaceInv
  <2>7. SettledInv(q, base', client)
      BY <1>12 DEF SettledInv, IsBase
  <2> QED BY <2>1, <2>2, <2>3, <2>4, <2>5, <2>6, <2>7
<1>15. /\ x \notin WrongCell
       /\ \A j : x \notin Later(j) /\ x \notin Handings(j) /\ x \notin News(j)
                 /\ (x \in Chain(j) => j = l)
                 /\ (\A h : x \in WrongBase(h, j) => j = l /\ h # g)
                 /\ (\A h, a : x \notin Astray(h, a, j))
                 /\ (\A d : x \in Creations(d, j) => j = l /\ d = c)
                 /\ (\A d : x \notin HandingTo(d, j))
       /\ \A d : x \in Tokens(d) => d = c
    BY <1>5 DEF x, WrongCell, Chain, News, Later, Handings, WrongBase, Astray, Creations, HandingTo,
                Tokens, Creates
<1>16. Tidy(net', base', cell, client, conn, orders, lives)
  <2>1. ASSUME NEW h \in Games, NEW j \in Lives, IsBase(base', h, j)
        PROVE  /\ x \notin WrongBase(h, j)
               /\ x \in Chain(j) => ~base'[h].ready
               /\ x \in Later(j) => base'[h].ready
               /\ x \in News(j) => Absent(q, Tokens(base'[h].owner))
                                   /\ ~client[base'[h].owner].there
               /\ x \in Tokens(base'[h].owner) => ~Ordered(orders, j) /\ Absent(q, News(j))
               /\ x \notin Astray(h, base'[h].addr, j)
               /\ x \in Handings(j) =>
                     ~Has(client, base'[h].owner, j) /\ Absent(q, Creations(base'[h].owner, j))
               /\ x \in Creations(base'[h].owner, j) => Absent(q, Handings(j))
    <3>1. IsBase(base, h, j)
        BY <1>12, <2>1
    <3>2. CASE j = l
      <4>1. h = g
          BY <1>3, <3>1, <3>2
      <4> QED BY <1>4, <1>7, <1>8, <1>15, <3>2, <4>1
    <3>3. CASE j # l
      <4>1. base[h].owner # c
        <5>1. h # g
            BY <1>3, <3>1, <3>3 DEF IsBase
        <5> QED BY <1>2, <1>3, <3>1, <5>1 DEF Tidy, OwnersInv, IsBase, c
      <4>2. base'[h].owner = base[h].owner
          BY <1>12, <3>1 DEF IsBase
      <4> QED BY <1>15, <3>3, <4>1, <4>2
    <3> QED BY <3>2, <3>3
  <2>2. \A j \in Lives : x \in Chain(j) => Absent(q, Chain(j))
      BY <1>7, <1>15
  <2>3. \A d \in Clients : x \in Tokens(d) =>
            ~Fresh(conn, orders, d) /\ Absent(q, Tokens(d)) /\ ~client[d].there
      BY <1>9, <1>11, <1>15
  <2>4. Tidy(Send(q, g, c, r), base', cell, client, conn, orders, lives)
      BY <1>2, <1>5, <1>13, <1>14, <1>15, <2>1, <2>2, <2>3, TidySend DEF x
  <2> QED BY <1>1, <2>4
<1>17. ConnInv(net', base', client, conn)
  <2>1. ConnInv(q, base', client, conn)
      BY <1>2, <1>12 DEF ConnInv
  <2> QED BY <1>1, <1>2, <1>5, <2>1, ConnSend
<1>18. AgreeInv(net', base', cell)
  <2>1. AgreeInv(q, base, cell)
      BY <1>1, AgreeTake DEF HandInv
  <2>2. AgreeInv(q, base', cell)
      BY <1>12, <2>1, AgreeTables
  <2> QED BY <1>1, <1>2, <1>5, <2>2, AgreeSend
<1>19. ReadyInv(net', base', cell, client)
  <2>1. ReadyInv(q, base, cell, client)
      BY <1>1, ReadyTake DEF HandInv
  <2>2. ReadyInv(q, base', cell, client)
    <3> SUFFICES ASSUME NEW h \in Games, NEW j \in Lives, IsBase(base', h, j),
                        Has(client, base'[h].owner, j), ~client[base'[h].owner].ready
                 PROVE  Promised(q, base', cell, h, base'[h].owner, j)
        BY DEF ReadyInv
    <3>1. h # g
        BY <1>4, <1>9 DEF Has
    <3>2. base'[h] = base[h] /\ IsBase(base, h, j)
        BY <1>4, <1>12, <3>1
    <3>3. Promised(q, base, cell, h, base[h].owner, j)
        BY <2>1, <3>2 DEF ReadyInv
    <3> QED BY <3>2, <3>3 DEF Promised
  <2> QED BY <1>1, <1>2, <1>5, <2>2, ReadySend
<1>20. KickInv(net', base', client, conn, kicked' \cup missed')
  <2>1. KickInv(q, base, client, conn, kd)
      BY <1>1, KickTake DEF HandInv, kd
  <2>2. KickInv(q, base', client, conn, kicked' \cup missed')
      BY <1>12, <2>1, KickTables, Unfaded DEF kd
  <2>3. \A h \in Games : \A d \in Clients :
            /\ IsBase(base', h, l) /\ d # base'[h].owner
            /\ \/ <<<<g, c>>, r>> \in Creations(d, l) \/ <<<<g, c>>, r>> \in HandingTo(d, l)
            => FALSE
      BY <1>2, <1>3, <1>4, <1>12, <1>15 DEF x
  <2> QED BY <1>1, <1>2, <1>5, <2>2, <2>3, KickToken
<1>21. NewsInv(net', base', cell)
  <2>1. NewsInv(q, base', cell)
    <3> SUFFICES ASSUME NEW f \in Games, NEW h \in Games, cell[h].there, cell[h].addr = f
                 PROVE  /\ Behind(q[<<h, f>>], cell[h].life)
                        /\ base'[f].there /\ base'[f].addr = h /\ base'[f].life # cell[h].life =>
                              Comes(q[<<h, f>>], cell[h].life)
        BY DEF NewsInv
    <3>1. /\ Behind(net[<<h, f>>], cell[h].life)
          /\ base[f].there /\ base[f].addr = h /\ base[f].life # cell[h].life =>
                Comes(net[<<h, f>>], cell[h].life)
        BY DEF HandInv, NewsInv
    <3>2. CASE <<h, f>> = k
      <4> DEFINE s == net[k]
      <4>1. s \in Seq(Letters) /\ s # <<>> /\ m = Head(s) /\ q[k] = Tail(s)
          BY Facts DEF Taking
      <4>2. f = g /\ Behind(s, cell[h].life)
          BY <1>10, <3>1, <3>2
      <4> HIDE DEF s
      <4>3. Behind(q[k], cell[h].life)
          BY <4>1, <4>2, BehindTail
      <4>4. l # cell[h].life => Comes(q[k], cell[h].life)
          BY <1>1, <4>1, <4>2, BehindTail DEF l
      <4> QED BY <1>4, <3>2, <4>2, <4>3, <4>4
    <3>3. CASE <<h, f>> # k
      <4>1. q[<<h, f>>] = net[<<h, f>>]
          BY <3>3, GameLinks, Facts DEF Taking
      <4>2. f = g => m.who # h
          BY <1>10, <3>3
      <4> QED BY <1>4, <3>1, <4>1, <4>2
    <3> QED BY <3>2, <3>3
  <2> QED BY <1>1, <1>2, <1>5, <2>1, NewsSend
<1> QED BY <1>16, <1>17, <1>18, <1>19, <1>20, <1>21 DEF HandInv

LEMMA HandBaseReady ==
    ASSUME Going, HandInv, UNCHANGED <<cell, client, conn, orders, lives>>,
           kicked \cup missed \subseteq kicked' \cup missed',
           NEW k \in Links, NEW m, NEW q, Taking(k, m, q),
           NEW g \in Games, g = k[2], m.to = "base", base[g].there, base[g].life = m.life,
           BaseReady(g, m, q)
    PROVE  HandInv'
<1> DEFINE l == m.life
           a == base[g].addr
           r == Rpc("cell", "ready", l, g)
           x == <<<<g, a>>, r>>
           kd == kicked \cup missed
<1>0. TypeInv /\ StageInv
    BY DEF Going
<1>1. /\ m.name \in {"ready", "on_client_reconnect_success"} /\ ~base[g].ready
      /\ base' = [base EXCEPT ![g].ready = TRUE]
      /\ net' = Send(q, g, a, r)
    BY DEF BaseReady
<1>2. /\ q \in [Links -> Seq(Letters)] /\ m \in Letters /\ l \in Lives /\ Placing(base)
      /\ Thin(net, q) /\ <<k, m>> \in Posts
      /\ Tidy(q, base, cell, client, conn, orders, lives) /\ ConnInv(q, base, client, conn)
    BY <1>0, HandTaken
<1>3. /\ IsBase(base, g, l) /\ base[g] \in Entities
      /\ \A h \in Games : IsBase(base, h, l) => h = g
    BY <1>0, <1>2, ThereIs, StageFacts DEF IsBase
<1>4. /\ base'[g].ready /\ base'[g].there /\ base'[g].life = l /\ base'[g].addr = a
      /\ base'[g].owner = base[g].owner
      /\ \A h \in Games : h # g => base'[h] = base[h]
    BY <1>0, <1>1, <1>3 DEF Entities, TypeInv, Tables
<1>5. /\ r \in Letters /\ r.name = "ready" /\ r.to = "cell" /\ r.life = l
    BY <1>0, <1>2, Facts, RpcType DEF Names, Rpc
<1>6. m.name = "ready" /\ <<k, m>> \in Chain(l)
  <2>1. Absent(net, Later(l))
      BY <1>1, <1>2, <1>3 DEF HandInv, Tidy, LateInv
  <2>2. <<k, m>> \notin Later(l)
      BY <1>0, <2>1, TakenKinds
  <2>3. m.name = "ready"
      BY <1>1, <1>2, <2>2 DEF Later
  <2> QED BY <1>2, <2>3 DEF Chain
<1>7. Absent(q, Chain(l))
    BY <1>0, <1>2, <1>6, TakenKinds DEF HandInv, Tidy, ChainInv
<1>8. a \in Games
  <2>1. Len(log[l]) >= 3 /\ Len(log[l]) \in Nat
    <3>1. Needs(m) = 3
        BY <1>6 DEF Needs
    <3> QED BY <1>0, <1>2, <3>1, Taken, Facts DEF Sized
  <2>2. a = Nobody => Len(log[l]) <= 2
      BY <1>0, <1>3 DEF StageInv, Core, BasesInv, IsBase
  <2>3. a # Nobody
    <3> DEFINE n == Len(log[l])
    <3>1. n >= 3 /\ n \in Nat /\ (a = Nobody => n <= 2)
        BY <2>1, <2>2
    <3> HIDE DEF n
    <3> QED BY <3>1
  <2> QED BY <1>0, <1>3, <2>3, ThereIs DEF IsBase
<1> HIDE DEF l, a, r, x, kd
<1>9. /\ \A h \in Games : \A j \in Lives : IsBase(base', h, j) <=> IsBase(base, h, j)
      /\ \A h \in Games : /\ base'[h].there <=> base[h].there
                          /\ base[h].there => /\ base'[h].life = base[h].life
                                              /\ base'[h].owner = base[h].owner
                                              /\ base'[h].addr = base[h].addr
  <2>1. \A h \in Games : /\ base'[h].there <=> base[h].there
                         /\ base[h].there => /\ base'[h].life = base[h].life
                                             /\ base'[h].owner = base[h].owner
                                             /\ base'[h].addr = base[h].addr
      BY <1>3, <1>4 DEF IsBase, a
  <2> QED BY <2>1 DEF IsBase
<1>10. \A h \in Games : \A j \in Lives : IsBase(base', h, j) =>
          (h = g /\ j = l) \/ (h # g /\ j # l /\ base'[h] = base[h])
    BY <1>3, <1>4, <1>9 DEF IsBase
<1>11. Placing(base')
    BY <1>2, <1>9 DEF Placing
<1>12. Tidy(q, base', cell, client, conn, orders, lives)
  <2> USE <1>2 DEF Tidy
  <2>1. FreshInv(q, base', client, conn, orders)
      BY <1>9 DEF FreshInv
  <2>2. OwnersInv(base')
      BY <1>9 DEF OwnersInv
  <2>3. AddrInv(q, base', cell, orders)
      BY <1>9 DEF AddrInv, IsBase
  <2>4. LateInv(q, base')
      BY <1>4, <1>7, <1>9, <1>10 DEF LateInv
  <2>5. WaitInv(q, base', client, orders)
      BY <1>9 DEF WaitInv, IsBase
  <2>6. PlaceInv(q, base')
      BY <1>9 DEF PlaceInv, IsBase
  <2>7. SettledInv(q, base', client)
      BY <1>9 DEF SettledInv, IsBase
  <2> QED BY <2>1, <2>2, <2>3, <2>4, <2>5, <2>6, <2>7
<1>13. Tidy(net', base', cell, client, conn, orders, lives)
  <2>1. \A h \in Games : IsBase(base', h, l) => base'[h].ready
      BY <1>2, <1>3, <1>4, <1>9
  <2> QED BY <1>1, <1>2, <1>5, <1>11, <1>12, <2>1, TidySendLater
<1>14. ConnInv(net', base', client, conn)
  <2>1. ConnInv(q, base', client, conn)
      BY <1>2, <1>9 DEF ConnInv
  <2> QED BY <1>1, <1>2, <1>5, <2>1, ConnSend
<1>15. AgreeInv(net', base', cell)
  <2>1. AgreeInv(q, base, cell)
      BY <1>0, <1>6, AgreeTake DEF HandInv
  <2>2. AgreeInv(q, base', cell)
      BY <1>9, <2>1, AgreeTables
  <2> QED BY <1>1, <1>2, <1>5, <2>2, AgreeSend
<1>16. ReadyInv(net', base', cell, client)
  <2>0. /\ \A K : <<k, m>> \notin K /\ ~Absent(net, K) => ~Absent(q, K)
        /\ \A K : ~Absent(q, K) => ~Absent(net', K)
    <3>1. \A K : <<k, m>> \notin K /\ ~Absent(net, K) => ~Absent(q, K)
        BY <1>0, TakenKinds
    <3>2. net' = Send(q, g, a, r)
        BY <1>1
    <3>3. \A K : ~Absent(q, K) => ~Absent(net', K)
        BY <1>2, <1>5, <3>2, SentKinds
    <3> QED BY <3>1, <3>3
  <2> SUFFICES ASSUME NEW h \in Games, NEW j \in Lives, IsBase(base', h, j),
                      Has(client, base'[h].owner, j), ~client[base'[h].owner].ready
               PROVE  Promised(net', base', cell, h, base'[h].owner, j)
      BY DEF ReadyInv
  <2>1. CASE h = g /\ j = l
    <3>1. <<g, a>> \in Links /\ x \in Relayed(g, a, l)
        BY <1>5, <1>8, GameLinks DEF Relayed, Posts, x
    <3>2. ~Absent(net', Relayed(g, a, l))
        BY <1>1, <1>2, <1>5, <1>8, <3>1, SentKinds DEF x
    <3> QED BY <1>4, <2>1, <3>2 DEF Promised
  <2>2. CASE h # g /\ j # l /\ base'[h] = base[h]
    <3> DEFINE d == base[h].owner
               b == base[h].addr
    <3>1. Promised(net, base, cell, h, d, j)
        BY <1>9, <2>2 DEF HandInv, ReadyInv
    <3>2. /\ <<k, m>> \notin Rights(d, h, j) /\ <<k, m>> \notin Firsts(d, h, j)
          /\ <<k, m>> \notin Relayed(h, b, j) /\ <<k, m>> \notin Answers(b, d, j)
        BY <2>2 DEF Rights, Firsts, Relayed, Answers, l
    <3>3. /\ ~Absent(net, Rights(d, h, j)) => ~Absent(net', Rights(d, h, j))
          /\ ~Absent(net, Firsts(d, h, j)) => ~Absent(net', Firsts(d, h, j))
          /\ ~Absent(net, Relayed(h, b, j)) => ~Absent(net', Relayed(h, b, j))
          /\ ~Absent(net, Answers(b, d, j)) => ~Absent(net', Answers(b, d, j))
        BY <2>0, <3>2
    <3> QED BY <2>2, <3>1, <3>3, PromisedKinds
  <2> QED BY <1>10, <2>1, <2>2
<1>17. KickInv(net', base', client, conn, kicked' \cup missed')
  <2>1. KickInv(q, base, client, conn, kd)
      BY <1>0, <1>6, KickTake DEF HandInv, kd
  <2>2. KickInv(q, base', client, conn, kicked' \cup missed')
      BY <1>9, <2>1, KickTables, Unfaded DEF kd
  <2>3. ~Creates(r) /\ r.name # "on_reconnect_fromclient"
      BY <1>5 DEF Creates
  <2> QED BY <1>1, <1>2, <1>5, <2>2, <2>3, KickSend
<1>18. NewsInv(net', base', cell)
  <2>1. NewsInv(q, base, cell)
      BY <1>0, <1>6, NewsTake DEF HandInv
  <2>2. NewsInv(q, base', cell)
      BY <1>9, <2>1, NewsTables, Unfaded
  <2> QED BY <1>1, <1>2, <1>5, <2>2, NewsSend
<1> QED BY <1>13, <1>14, <1>15, <1>16, <1>17, <1>18 DEF HandInv

LEMMA HandReconnectSuccess ==
    ASSUME Going, HandInv, UNCHANGED <<cell, client, conn, orders, lives>>,
           kicked \cup missed \subseteq kicked' \cup missed',
           NEW k \in Links, NEW m, NEW q, Taking(k, m, q),
           NEW g \in Games, g = k[2], m.to = "base", base[g].there, base[g].life = m.life,
           OnClientReconnectSuccess(g, m, q)
    PROVE  HandInv'
<1> DEFINE l == m.life
           a == base[g].addr
           r == Rpc("cell", "on_client_reconnect_success", l, g)
           x == <<<<g, a>>, r>>
           kd == kicked \cup missed
<1>0. TypeInv /\ StageInv
    BY DEF Going
<1>2. /\ q \in [Links -> Seq(Letters)] /\ m \in Letters /\ l \in Lives /\ Placing(base)
      /\ Thin(net, q) /\ <<k, m>> \in Posts
      /\ Tidy(q, base, cell, client, conn, orders, lives) /\ ConnInv(q, base, client, conn)
    BY <1>0, HandTaken
<1>3. /\ IsBase(base, g, l) /\ base[g].ready /\ base' = base
      /\ a \in Games /\ \A h \in Games : IsBase(base, h, l) => h = g
    BY <1>0, <1>2, StageFacts DEF IsBase, OnClientReconnectSuccess
<1>4. m.name = "on_client_reconnect_success"
  <2>1. Absent(net, Chain(l))
      BY <1>2, <1>3 DEF HandInv, Tidy, LateInv
  <2>2. <<k, m>> \notin Chain(l)
      BY <1>0, <2>1, TakenKinds
  <2> QED BY <1>2, <2>2 DEF Chain, OnClientReconnectSuccess
<1>5. /\ r \in Letters /\ r.name = "on_client_reconnect_success" /\ r.to = "cell"
      /\ r.life = l /\ net' = Send(q, g, a, r)
  <2>1. r \in Letters /\ r.name = "on_client_reconnect_success" /\ r.to = "cell"
        /\ r.life = l
      BY <1>0, <1>2, Facts, RpcType DEF Names, Rpc
  <2>2. net' = Send(q, g, a, r)
      BY <1>4 DEF OnClientReconnectSuccess
  <2> QED BY <2>1, <2>2
<1> HIDE DEF l, a, r, x, kd
<1>6. Tidy(net', base, cell, client, conn, orders, lives)
    BY <1>2, <1>3, <1>5, TidySendLater
<1>7. ConnInv(net', base, client, conn)
    BY <1>2, <1>5, ConnSend
<1>8. AgreeInv(net', base, cell)
  <2>1. AgreeInv(q, base, cell)
      BY <1>0, <1>4, AgreeTake DEF HandInv
  <2> QED BY <1>2, <1>5, <2>1, AgreeSend
<1>9. ReadyInv(net', base, cell, client)
  <2>0. /\ \A K : <<k, m>> \notin K /\ ~Absent(net, K) => ~Absent(q, K)
        /\ \A K : ~Absent(q, K) => ~Absent(net', K)
    <3>1. \A K : <<k, m>> \notin K /\ ~Absent(net, K) => ~Absent(q, K)
        BY <1>0, TakenKinds
    <3>2. \A K : ~Absent(q, K) => ~Absent(net', K)
        BY <1>2, <1>5, SentKinds
    <3> QED BY <3>1, <3>2
  <2> SUFFICES ASSUME NEW h \in Games, NEW j \in Lives, IsBase(base, h, j),
                      Has(client, base[h].owner, j), ~client[base[h].owner].ready
               PROVE  Promised(net', base, cell, h, base[h].owner, j)
      BY DEF ReadyInv
  <2>1. CASE j = l
    <3>0. h = g
        BY <1>3, <2>1
    <3>1. <<g, a>> \in Links /\ x \in Relayed(g, a, l)
        BY <1>3, <1>5, GameLinks DEF Relayed, Posts, x
    <3>2. ~Absent(net', Relayed(g, a, l))
        BY <1>2, <1>3, <1>5, <3>1, SentKinds DEF x
    <3> QED BY <1>3, <2>1, <3>0, <3>2 DEF Promised, a
  <2>2. CASE j # l
    <3> DEFINE d == base[h].owner
               b == base[h].addr
    <3>1. Promised(net, base, cell, h, d, j)
        BY DEF HandInv, ReadyInv
    <3>2. /\ <<k, m>> \notin Rights(d, h, j) /\ <<k, m>> \notin Firsts(d, h, j)
          /\ <<k, m>> \notin Relayed(h, b, j) /\ <<k, m>> \notin Answers(b, d, j)
        BY <2>2 DEF Rights, Firsts, Relayed, Answers, l
    <3>3. /\ ~Absent(net, Rights(d, h, j)) => ~Absent(net', Rights(d, h, j))
          /\ ~Absent(net, Firsts(d, h, j)) => ~Absent(net', Firsts(d, h, j))
          /\ ~Absent(net, Relayed(h, b, j)) => ~Absent(net', Relayed(h, b, j))
          /\ ~Absent(net, Answers(b, d, j)) => ~Absent(net', Answers(b, d, j))
        BY <2>0, <3>2
    <3> QED BY <3>1, <3>3, PromisedKinds
  <2> QED BY <2>1, <2>2
<1>10. KickInv(net', base, client, conn, kicked' \cup missed')
  <2>1. KickInv(q, base, client, conn, kd)
      BY <1>0, <1>4, KickTake DEF HandInv, kd
  <2>2. KickInv(q, base, client, conn, kicked' \cup missed')
      BY <2>1, KickTables, Unfaded DEF kd
  <2>3. ~Creates(r) /\ r.name # "on_reconnect_fromclient"
      BY <1>5 DEF Creates
  <2> QED BY <1>2, <1>5, <2>2, <2>3, KickSend
<1>11. NewsInv(net', base, cell)
  <2>1. NewsInv(q, base, cell)
      BY <1>0, <1>4, NewsTake DEF HandInv
  <2> QED BY <1>2, <1>5, <2>1, NewsSend
<1> QED BY <1>3, <1>6, <1>7, <1>8, <1>9, <1>10, <1>11 DEF HandInv

(* What is told to destroy itself. *)
LEMMA HandDoomed ==
    ASSUME TypeInv, HandInv, UNCHANGED <<conn, orders, lives>>,
           kicked \cup missed \subseteq kicked' \cup missed',
           NEW k \in Links, NEW m, NEW q, Taking(k, m, q), m.name = "destroy_self", net' = q,
           BasesFade(base, base'), CellsFade(cell, cell'), ClientsFade(client, client'),
           \A h \in Games : cell'[h].there => cell'[h].owner = cell[h].owner,
           \A c \in Clients : client'[c].there /\ client[c].ready => client'[c].ready
    PROVE  HandInv'
<1> DEFINE kd == kicked \cup missed
<1>1. /\ Thin(net, net') /\ ConnInv(net', base, client, conn) /\ Placing(base)
    BY HandTaken
<1>2. /\ AgreeInv(net', base, cell) /\ NewsInv(net', base, cell)
      /\ ReadyInv(net', base, cell, client) /\ KickInv(net', base, client, conn, kd)
    BY AgreeTake, NewsTake, ReadyTake, KickTake DEF HandInv
<1>3. ReadyInv(net', base', cell', client')
    BY <1>1, <1>2, ReadyTables
<1>4. KickInv(net', base', client', conn', kicked' \cup missed')
    BY <1>2, KickTables DEF BasesFade
<1> QED BY <1>1, <1>2, <1>3, <1>4, HandFades

LEMMA HandExecBase ==
    ASSUME Going, HandInv, UNCHANGED <<conn, orders, lives>>,
           kicked \cup missed \subseteq kicked' \cup missed',
           NEW k \in Links, NEW m, NEW q, Taking(k, m, q),
           NEW g \in Games, g = k[2], m.to = "base" => base[g].life = m.life \/ ~base[g].there,
           ExecBase(g, m, q)
    PROVE  HandInv'
<1>1. /\ m.to = "base" /\ base[g].there /\ base[g].life = m.life /\ UNCHANGED <<cell, client>>
      /\ TypeInv /\ StageInv
    BY DEF ExecBase, Going
<1>2. CASE m.name = "destroy_self" /\ base' = [base EXCEPT ![g].doomed = TRUE] /\ net' = q
  <2>1. base[g] \in Entities
      BY <1>1, ThereIs
  <2>2. /\ base'[g].there = base[g].there /\ base'[g].life = base[g].life
        /\ base'[g].addr = base[g].addr /\ base'[g].owner = base[g].owner
        /\ base'[g].ready = base[g].ready
        /\ \A h \in Games : h # g => base'[h] = base[h]
      BY <1>1, <1>2, <2>1 DEF Entities, TypeInv, Tables
  <2>3. BasesFade(base, base') /\ CellsFade(cell, cell') /\ ClientsFade(client, client')
      BY <1>1, <2>2 DEF BasesFade, CellsFade, ClientsFade
  <2> QED BY <1>1, <1>2, <2>3, HandDoomed
<1> QED BY <1>1, <1>2, HandOnCellCreate, HandBaseReady, HandReconnectSuccess DEF ExecBase

-----------------------------------------------------------------------------
(* A cell executes an rpc. *)

LEMMA HandOnReconnect ==
    ASSUME TypeInv, StageInv, HandInv, UNCHANGED <<base, client, conn, orders, lives>>,
           kicked \cup missed \subseteq kicked' \cup missed',
           NEW k \in Links, NEW m, NEW q, Taking(k, m, q),
           NEW a \in Games, a = k[2], m.to = "cell", cell[a].there, cell[a].life = m.life,
           OnReconnectFromClient(a, m, q)
    PROVE  HandInv'
<1> DEFINE l == m.life
           c == m.who
           r == Rpc("client", "create_onreconnect", l, cell[a].addr)
           x == <<<<a, c>>, r>>
           kd == kicked \cup missed
<1>1. /\ m.name = "on_reconnect_fromclient"
      /\ cell' = [cell EXCEPT ![a].owner = c]
      /\ net' = Send(q, a, c, r)
    BY DEF OnReconnectFromClient
<1>2. /\ q \in [Links -> Seq(Letters)] /\ m \in Letters /\ l \in Lives /\ Placing(base)
      /\ Thin(net, q) /\ <<k, m>> \in Posts
      /\ Tidy(q, base, cell, client, conn, orders, lives) /\ ConnInv(q, base, client, conn)
    BY HandTaken
<1>3. /\ c \in Clients /\ IsCell(cell, a, l) /\ cell[a] \in Entities /\ cell[a].addr \in Games
    BY <1>1, <1>2, LetterType, ThereIs DEF IsCell
<1>4. /\ cell'[a].there /\ cell'[a].life = l /\ cell'[a].addr = cell[a].addr
      /\ cell'[a].owner = c
      /\ \A h \in Games : h # a => cell'[h] = cell[h]
    BY <1>1, <1>3 DEF Entities, TypeInv, Tables, IsCell
<1>5. /\ r \in Letters /\ r.name = "create_onreconnect" /\ r.life = l
      /\ r.who = cell[a].addr /\ r.to = "client"
    BY <1>2, <1>3, Facts, RpcType DEF Names, Rpc
<1>6. /\ <<k, m>> \in Tokens(c) /\ <<k, m>> \in HandingTo(c, l) /\ <<k, m>> \in Handings(l)
      /\ <<k, m>> \in Later(l)
    BY <1>1, <1>2 DEF Tokens, HandingTo, Handings, Later
<1>7. /\ ~Absent(net, Tokens(c)) /\ ~Absent(net, HandingTo(c, l)) /\ ~Absent(net, Later(l))
      /\ Absent(q, Tokens(c))
    BY <1>3, <1>6, TakenKinds DEF HandInv, Tidy, TokenInv
<1>8. /\ ~client[c].there /\ ~Fresh(conn, orders, c)
    BY <1>3, <1>7 DEF HandInv, Tidy, TokenInv, FreshInv
<1>9. \A g \in Games : IsBase(base, g, l) =>
         /\ base[g].ready /\ cell[a].addr = g /\ k = <<g, a>> /\ base[g].addr = a
  <2> SUFFICES ASSUME NEW g \in Games, IsBase(base, g, l)
               PROVE  base[g].ready /\ cell[a].addr = g /\ k = <<g, a>> /\ base[g].addr = a
      OBVIOUS
  <2>1. base[g].ready
      BY <1>2, <1>7 DEF HandInv, Tidy, LateInv
  <2>2. cell[a].addr = g
      BY <1>2, <1>3 DEF HandInv, Tidy, AddrInv
  <2>3. Absent(net, Astray(g, base[g].addr, l))
      BY <1>2 DEF HandInv, Tidy, PlaceInv
  <2>4. <<k, m>> \notin Astray(g, base[g].addr, l)
      BY <2>3, TakenKinds
  <2>5. k = <<g, base[g].addr>>
      BY <1>6, <2>4 DEF Astray
  <2> QED BY <2>1, <2>2, <2>5
<1>10. \A g \in Games : \A j \in Lives : IsBase(base, g, j) /\ base[g].owner = c =>
          ~Ordered(orders, j) /\ Absent(q, News(j))
  <2>1. \A g \in Games : \A j \in Lives : IsBase(base, g, j) /\ base[g].owner = c =>
          ~Ordered(orders, j) /\ Absent(net, News(j))
      BY <1>7 DEF HandInv, Tidy, WaitInv
  <2> QED BY <1>2, <2>1, ThinKinds
<1>11. AgreeInv(q, base, cell')
  <2> SUFFICES ASSUME NEW g \in Games, NEW h \in Games, NEW j \in Lives,
                      IsBase(base, g, j), IsCell(cell', h, j)
               PROVE  Agreed(q[<<g, h>>], j, cell'[h].owner, base[g].owner)
      BY DEF AgreeInv
  <2>1. IsCell(cell, h, j)
      BY <1>3, <1>4 DEF IsCell
  <2>2. Agreed(net[<<g, h>>], j, cell[h].owner, base[g].owner)
      BY <2>1 DEF HandInv, AgreeInv
  <2>3. CASE h = a
    <3> DEFINE s == net[k]
    <3>1. j = l /\ k = <<g, h>>
        BY <1>4, <1>9, <2>3 DEF IsCell
    <3>2. s \in Seq(Letters) /\ s # <<>> /\ m = Head(s) /\ q[k] = Tail(s)
        BY Facts DEF Taking
    <3>3. IsHanding(m, l)
        BY <1>1 DEF IsHanding
    <3>4. Agreed(s, l, cell[h].owner, base[g].owner)
        BY <2>2, <3>1
    <3> HIDE DEF s
    <3>5. Agreed(q[k], l, m.who, base[g].owner)
        BY <3>2, <3>3, <3>4, AgreedTail
    <3> QED BY <1>4, <2>3, <3>1, <3>5
  <2>4. CASE h # a
    <3>1. k # <<g, h>>
        BY <2>4
    <3>2. q[<<g, h>>] = net[<<g, h>>]
        BY <3>1, GameLinks, Facts DEF Taking
    <3> QED BY <1>4, <2>2, <2>4, <3>2
  <2> QED BY <2>3, <2>4
<1>12. \A g \in Games : IsBase(base, g, l) /\ base[g].owner = c => Absent(q, Handings(l))
  <2> SUFFICES ASSUME NEW g \in Games, IsBase(base, g, l), base[g].owner = c,
                      NEW f \in Links, NEW i \in 1 .. Len(q[f]), <<f, q[f][i]>> \in Handings(l)
               PROVE  FALSE
      BY DEF Absent
  <2> DEFINE s == q[f]
  <2>1. Absent(q, Astray(g, base[g].addr, l))
      BY <1>2 DEF Tidy, PlaceInv
  <2>2. <<f, s[i]>> \notin Astray(g, base[g].addr, l)
      BY <2>1 DEF Absent
  <2>3. f = <<g, a>>
      BY <1>9, <2>2 DEF Astray
  <2>4. Agreed(s, l, c, c)
    <3>1. IsCell(cell', a, l)
        BY <1>4 DEF IsCell
    <3> QED BY <1>2, <1>4, <1>11, <2>3, <3>1 DEF AgreeInv
  <2>5. s \in Seq(Letters) /\ f \in Links
      BY <1>2
  <2>6. \A j \in 1 .. Len(s) : ~(IsHanding(s[j], l) /\ s[j].who = c)
    <3>1. \A j \in 1 .. Len(s) : s[j] \in Letters
        BY <2>5
    <3>2. \A j \in 1 .. Len(s) : <<f, s[j]>> \notin Tokens(c)
        BY <1>7, <2>5 DEF Absent
    <3> QED BY <2>5, <3>1, <3>2 DEF Tokens, IsHanding, Posts
  <2> HIDE DEF s
  <2>7. Len(s) \in Nat /\ i \in 1 .. Len(s) /\ IsHanding(s[i], l)
      BY <2>5 DEF Handings, IsHanding, s
  <2>8. PICK n \in 0 .. Len(s) :
           /\ n = 0 \/ (IsHanding(s[n], l) /\ s[n].who = c)
           /\ \A j \in n + 1 .. Len(s) : ~IsHanding(s[j], l)
      BY <2>4 DEF Agreed
  <2>9. n = 0
      BY <2>6, <2>7, <2>8
  <2>10. i \in n + 1 .. Len(s)
      BY <2>7, <2>9
  <2> QED BY <2>7, <2>8, <2>10
<1> HIDE DEF l, c, r, x, kd
<1>13. /\ CellsFade(cell, cell') /\ BasesFade(base, base) /\ ClientsFade(client, client)
  <2>1. CellsFade(cell, cell')
      BY <1>3, <1>4 DEF CellsFade, IsCell
  <2> QED BY <2>1, Unfaded
<1>14. Tidy(q, base, cell', client, conn, orders, lives)
  <2>1. Thin(q, q) /\ orders \in SUBSET orders
      BY DEF Thin
  <2> QED BY <1>2, <1>13, <2>1, TidyLater
<1>15. /\ x \notin WrongCell
       /\ \A j : x \notin Chain(j) /\ x \notin Handings(j) /\ x \notin News(j)
                 /\ (x \in Later(j) => j = l)
                 /\ (\A h : x \in WrongBase(h, j) => j = l /\ h # cell[a].addr)
                 /\ (\A h, b : x \notin Astray(h, b, j))
                 /\ (\A d : x \in Creations(d, j) => j = l /\ d = c)
                 /\ (\A d : x \notin HandingTo(d, j))
       /\ \A d : x \in Tokens(d) => d = c
    BY <1>5 DEF x, WrongCell, Chain, News, Later, Handings, WrongBase, Astray, Creations, HandingTo,
                Tokens, Creates
<1>16. Tidy(net', base, cell', client, conn, orders, lives)
  <2>1. ASSUME NEW h \in Games, NEW j \in Lives, IsBase(base, h, j)
        PROVE  /\ x \notin WrongBase(h, j)
               /\ x \in Chain(j) => ~base[h].ready
               /\ x \in Later(j) => base[h].ready
               /\ x \in News(j) => Absent(q, Tokens(base[h].owner))
                                   /\ ~client[base[h].owner].there
               /\ x \in Tokens(base[h].owner) => ~Ordered(orders, j) /\ Absent(q, News(j))
               /\ x \notin Astray(h, base[h].addr, j)
               /\ x \in Handings(j) =>
                     ~Has(client, base[h].owner, j) /\ Absent(q, Creations(base[h].owner, j))
               /\ x \in Creations(base[h].owner, j) => Absent(q, Handings(j))
    <3>1. x \in Tokens(base[h].owner) => ~Ordered(orders, j) /\ Absent(q, News(j))
        BY <1>10, <1>15, <2>1
    <3>2. x \notin WrongBase(h, j) /\ (x \in Later(j) => base[h].ready)
        BY <1>9, <1>15, <2>1
    <3>3. x \in Creations(base[h].owner, j) => Absent(q, Handings(j))
        BY <1>12, <1>15, <2>1
    <3> QED BY <1>15, <3>1, <3>2, <3>3
  <2>2. \A j \in Lives : x \in Chain(j) => Absent(q, Chain(j))
      BY <1>15
  <2>3. \A d \in Clients : x \in Tokens(d) =>
            ~Fresh(conn, orders, d) /\ Absent(q, Tokens(d)) /\ ~client[d].there
      BY <1>7, <1>8, <1>15
  <2>4. Tidy(Send(q, a, c, r), base, cell', client, conn, orders, lives)
      BY <1>2, <1>5, <1>14, <1>15, <2>1, <2>2, <2>3, TidySend DEF x
  <2> QED BY <1>1, <2>4
<1>17. ConnInv(net', base, client, conn)
    BY <1>1, <1>2, <1>5, ConnSend
<1>18. AgreeInv(net', base, cell')
    BY <1>1, <1>2, <1>5, <1>11, AgreeSend
<1>19. ReadyInv(net', base, cell', client)
  <2>1. ReadyInv(q, base, cell, client)
      BY <1>1, ReadyTake DEF HandInv
  <2>2. ReadyInv(q, base, cell', client)
      BY <1>2, <1>13, <2>1, ReadyTables
  <2> QED BY <1>1, <1>2, <1>5, <2>2, ReadySend
<1>20. KickInv(net', base, client, conn, kicked' \cup missed')
  <2>1. KickInv(q, base, client, conn, kd)
      BY <1>1, KickTake DEF HandInv, kd
  <2>2. KickInv(q, base, client, conn, kicked' \cup missed')
      BY <1>13, <2>1, KickTables DEF kd
  <2>3. ASSUME NEW h \in Games, NEW d \in Clients,
               IsBase(base, h, l), d # base[h].owner, conn[d] # "gone",
               \/ <<<<a, c>>, r>> \in Creations(d, l) \/ <<<<a, c>>, r>> \in HandingTo(d, l)
        PROVE  d \in kicked' \cup missed' \/ ~Absent(q, Kicks(h, d))
    <3>1. d = c
        BY <1>15, <2>3 DEF x
    <3>2. d \in kd \/ ~Absent(net, Kicks(h, d))
        BY <1>2, <1>7, <2>3, <3>1 DEF HandInv, KickInv, kd
    <3>3. <<k, m>> \notin Kicks(h, d)
        BY <1>1 DEF Kicks
    <3>4. ~Absent(net, Kicks(h, d)) => ~Absent(q, Kicks(h, d))
        BY <3>3, TakenKinds
    <3> QED BY <3>2, <3>4 DEF kd
  <2> QED BY <1>1, <1>2, <1>5, <2>2, <2>3, KickToken
<1>21. NewsInv(net', base, cell')
  <2>1. NewsInv(q, base, cell)
      BY <1>1, NewsTake DEF HandInv
  <2>2. NewsInv(q, base, cell')
      BY <1>13, <2>1, NewsTables
  <2> QED BY <1>1, <1>2, <1>5, <2>2, NewsSend
<1> QED BY <1>16, <1>17, <1>18, <1>19, <1>20, <1>21 DEF HandInv

LEMMA HandCellReady ==
    ASSUME TypeInv, StageInv, HandInv, UNCHANGED <<base, client, conn, orders, lives>>,
           kicked \cup missed \subseteq kicked' \cup missed',
           NEW k \in Links, NEW m, NEW q, Taking(k, m, q),
           NEW a \in Games, a = k[2], m.to = "cell", cell[a].there, cell[a].life = m.life,
           CellReady(a, m, q)
    PROVE  HandInv'
<1> DEFINE l == m.life
           c == cell[a].owner
           r == Rpc("client", "ready", l, a)
           kd == kicked \cup missed
<1>1. /\ m.name \in {"ready", "on_client_reconnect_success"}
      /\ cell' = [cell EXCEPT ![a].ready = @ \/ m.name = "ready"]
      /\ net' = Send(q, a, c, r)
    BY DEF CellReady
<1>2. /\ q \in [Links -> Seq(Letters)] /\ m \in Letters /\ l \in Lives /\ Placing(base)
      /\ Thin(net, q) /\ <<k, m>> \in Posts
      /\ Tidy(q, base, cell, client, conn, orders, lives) /\ ConnInv(q, base, client, conn)
    BY HandTaken
<1>3. /\ c \in Clients /\ IsCell(cell, a, l) /\ cell[a] \in Entities
    BY ThereIs DEF IsCell
<1>4. /\ cell'[a].there /\ cell'[a].life = l /\ cell'[a].addr = cell[a].addr
      /\ cell'[a].owner = c
      /\ \A h \in Games : h # a => cell'[h] = cell[h]
    BY <1>1, <1>3 DEF Entities, TypeInv, Tables, IsCell
<1>5. /\ r \in Letters /\ r.name = "ready" /\ r.life = l /\ r.to = "client"
    BY <1>2, Facts, RpcType DEF Names, Rpc
<1>6. <<k, m>> \in Later(l)
    BY <1>1, <1>2 DEF Later
<1>7. /\ \A g \in Games : IsBase(base, g, l) => base[g].ready
  <2>1. ~Absent(net, Later(l))
      BY <1>6, TakenKinds
  <2> QED BY <1>2, <2>1 DEF HandInv, Tidy, LateInv
<1> HIDE DEF l, c, r, kd
<1>8. /\ CellsFade(cell, cell') /\ BasesFade(base, base) /\ ClientsFade(client, client)
      /\ \A h \in Games : cell'[h].there => /\ cell[h].there /\ cell'[h].life = cell[h].life
                                            /\ cell'[h].owner = cell[h].owner
  <2>1. \A h \in Games : cell'[h].there => /\ cell[h].there /\ cell'[h].life = cell[h].life
                                           /\ cell'[h].owner = cell[h].owner
                                           /\ cell'[h].addr = cell[h].addr
      BY <1>3, <1>4 DEF IsCell, c
  <2> QED BY <2>1, Unfaded DEF CellsFade
<1>9. Tidy(q, base, cell', client, conn, orders, lives)
  <2>1. Thin(q, q) /\ orders \in SUBSET orders
      BY DEF Thin
  <2> QED BY <1>2, <1>8, <2>1, TidyLater
<1>10. Tidy(net', base, cell', client, conn, orders, lives)
    BY <1>1, <1>2, <1>5, <1>7, <1>9, TidySendLater
<1>11. ConnInv(net', base, client, conn)
    BY <1>1, <1>2, <1>5, ConnSend
<1>12. m.name # "on_reconnect_fromclient" /\ m.name # "on_cell_create" /\ m.name # "on_kick"
       /\ r.name # "on_reconnect_fromclient" /\ r.name # "on_cell_create" /\ ~Creates(r)
    BY <1>1, <1>5 DEF Creates
<1>13. AgreeInv(net', base, cell')
  <2>1. AgreeInv(q, base, cell)
      BY <1>12, AgreeTake DEF HandInv
  <2>2. AgreeInv(q, base, cell')
      BY <1>8, <2>1, AgreeTables
  <2> QED BY <1>1, <1>2, <1>5, <1>12, <2>2, AgreeSend
<1>14. ReadyInv(net', base, cell', client)
  <2>0. /\ \A K : <<k, m>> \notin K /\ ~Absent(net, K) => ~Absent(q, K)
        /\ \A K : ~Absent(q, K) => ~Absent(net', K)
    <3>1. \A K : <<k, m>> \notin K /\ ~Absent(net, K) => ~Absent(q, K)
        BY TakenKinds
    <3>2. net' = Send(q, a, c, r)
        BY <1>1
    <3>3. \A K : ~Absent(q, K) => ~Absent(net', K)
        BY <1>2, <1>5, <3>2, SentKinds
    <3> QED BY <3>1, <3>3
  <2> SUFFICES ASSUME NEW h \in Games, NEW j \in Lives, IsBase(base, h, j),
                      Has(client, base[h].owner, j), ~client[base[h].owner].ready
               PROVE  Promised(net', base, cell', h, base[h].owner, j)
      BY DEF ReadyInv
  <2> DEFINE d == base[h].owner
             b == base[h].addr
  <2>1. CASE j = l
    <3>1. base[h].ready /\ b = a /\ d \in Clients /\ conn[d] = "on"
      <4>1. base[h].ready /\ d \in Clients
          BY <1>2, <1>7, <2>1 DEF Placing, IsBase
      <4>2. b \in Games /\ b # Nobody
          BY <4>1, StageFacts, ProcessesAssumption
      <4>3. b = a
          BY <1>2, <1>3, <2>1, <4>2, StageFacts
      <4> QED BY <4>1, <4>3 DEF HandInv, ConnInv, Has
    <3>2. c = d
      <4>1. Absent(net, Handings(l))
          BY <2>1 DEF HandInv, Tidy, SettledInv
      <4> DEFINE s == net[<<h, a>>]
      <4>2. s \in Seq(Letters) /\ <<h, a>> \in Links
          BY Facts, GameLinks
      <4>3. \A i \in 1 .. Len(s) : ~IsHanding(s[i], l)
        <5>1. \A i \in 1 .. Len(s) : <<<<h, a>>, s[i]>> \notin Handings(l)
            BY <4>1, <4>2 DEF Absent
        <5>2. \A i \in 1 .. Len(s) : s[i] \in Letters
            BY <4>2
        <5> QED BY <4>2, <5>1, <5>2 DEF IsHanding, Handings, Posts
      <4>4. Agreed(s, l, cell[a].owner, d)
          BY <1>3, <2>1 DEF HandInv, AgreeInv
      <4> HIDE DEF s
      <4>5. cell[a].owner = d
          BY <4>2, <4>3, <4>4, AgreedNone
      <4> QED BY <4>5 DEF c
    <3>3. <<a, d>> \in Links /\ <<<<a, d>>, r>> \in Answers(a, d, l)
        BY <1>5, <3>1 DEF Answers, Posts, Links, Procs
    <3>4. ~Absent(net', Answers(a, d, l))
        BY <1>1, <1>2, <1>5, <3>1, <3>2, <3>3, SentKinds
    <3> QED BY <2>1, <3>1, <3>4 DEF Promised
  <2>2. CASE j # l
    <3>1. Promised(net, base, cell, h, d, j)
        BY DEF HandInv, ReadyInv
    <3>2. /\ <<k, m>> \notin Rights(d, h, j) /\ <<k, m>> \notin Firsts(d, h, j)
          /\ <<k, m>> \notin Relayed(h, b, j) /\ <<k, m>> \notin Answers(b, d, j)
        BY <2>2 DEF Rights, Firsts, Relayed, Answers, l
    <3>3. /\ ~Absent(net, Rights(d, h, j)) => ~Absent(net', Rights(d, h, j))
          /\ ~Absent(net, Firsts(d, h, j)) => ~Absent(net', Firsts(d, h, j))
          /\ ~Absent(net, Relayed(h, b, j)) => ~Absent(net', Relayed(h, b, j))
          /\ ~Absent(net, Answers(b, d, j)) => ~Absent(net', Answers(b, d, j))
        BY <2>0, <3>2
    <3>4. \A f \in Games : IsCell(cell', f, j) => IsCell(cell, f, j)
        BY <1>8 DEF IsCell
    <3> QED BY <3>1, <3>3, <3>4, PromisedKinds
  <2> QED BY <2>1, <2>2
<1>15. KickInv(net', base, client, conn, kicked' \cup missed')
  <2>1. KickInv(q, base, client, conn, kd)
      BY <1>12, KickTake DEF HandInv, kd
  <2>2. KickInv(q, base, client, conn, kicked' \cup missed')
      BY <1>8, <2>1, KickTables DEF kd
  <2> QED BY <1>1, <1>2, <1>5, <1>12, <2>2, KickSend
<1>16. NewsInv(net', base, cell')
  <2>1. NewsInv(q, base, cell)
      BY <1>12, NewsTake DEF HandInv
  <2>2. NewsInv(q, base, cell')
      BY <1>8, <2>1, NewsTables
  <2> QED BY <1>1, <1>2, <1>5, <1>12, <2>2, NewsSend
<1> QED BY <1>10, <1>11, <1>13, <1>14, <1>15, <1>16 DEF HandInv

LEMMA HandExecCell ==
    ASSUME TypeInv, StageInv, HandInv, UNCHANGED <<conn, orders, lives>>,
           kicked \cup missed \subseteq kicked' \cup missed',
           NEW k \in Links, NEW m, NEW q, Taking(k, m, q),
           NEW a \in Games, a = k[2], m.to = "cell" => cell[a].life = m.life \/ ~cell[a].there,
           ExecCell(a, m, q)
    PROVE  HandInv'
<1>1. /\ m.to = "cell" /\ cell[a].there /\ cell[a].life = m.life /\ UNCHANGED <<base, client>>
    BY DEF ExecCell
<1>2. CASE m.name = "destroy_self" /\ cell' = [cell EXCEPT ![a].doomed = TRUE] /\ net' = q
  <2>1. cell[a] \in Entities
      BY <1>1, ThereIs
  <2>2. /\ cell'[a].there = cell[a].there /\ cell'[a].life = cell[a].life
        /\ cell'[a].addr = cell[a].addr /\ cell'[a].owner = cell[a].owner
        /\ \A h \in Games : h # a => cell'[h] = cell[h]
      BY <1>1, <1>2, <2>1 DEF Entities, TypeInv, Tables
  <2>3. /\ BasesFade(base, base') /\ CellsFade(cell, cell') /\ ClientsFade(client, client')
        /\ \A h \in Games : cell'[h].there => cell'[h].owner = cell[h].owner
      BY <1>1, <2>2 DEF BasesFade, CellsFade, ClientsFade
  <2> QED BY <1>1, <1>2, <2>3, HandDoomed
<1> QED BY <1>1, <1>2, HandOnReconnect, HandCellReady DEF ExecCell

-----------------------------------------------------------------------------
(* A client executes an rpc. *)

LEMMA HandCreateClient ==
    ASSUME Going, HandInv, UNCHANGED <<base, cell, conn, orders, lives>>,
           kicked \cup missed \subseteq kicked' \cup missed',
           NEW k \in Links, NEW m, NEW q, Taking(k, m, q),
           NEW c \in Clients, c = k[2], CreateClient(c, m, q)
    PROVE  HandInv'
<1> DEFINE l == m.life
           b == m.who
           r == Rpc("base", IF m.name = "create" THEN "ready"
                            ELSE "on_client_reconnect_success", l, c)
           x == <<<<c, b>>, r>>
           kd == kicked \cup missed
<1>0. TypeInv /\ StageInv
    BY DEF Going
<1>1. /\ m.name \in {"create", "create_onreconnect"} /\ Creates(m)
      /\ client' = [client EXCEPT ![c] =
             [Entity(l, b, c) EXCEPT !.check = (m.name = "create")]]
      /\ net' = Send(q, c, b, r)
    BY DEF CreateClient, Creates
<1>2. /\ q \in [Links -> Seq(Letters)] /\ m \in Letters /\ l \in Lives /\ Placing(base)
      /\ Thin(net, q) /\ <<k, m>> \in Posts
      /\ Tidy(q, base, cell, client, conn, orders, lives) /\ ConnInv(q, base, client, conn)
    BY <1>0, HandTaken
<1>3. b \in Games /\ <<c, b>> \in Links
    BY <1>1, <1>2, LetterType DEF Links, Procs
<1>4. /\ client'[c].there /\ client'[c].life = l /\ ~client'[c].ready
      /\ \A d \in Clients : d # c => client'[d] = client[d]
    BY <1>0, <1>1 DEF Entity, TypeInv, Tables
<1>5. /\ r \in Letters /\ r.life = l /\ r.to = "base"
      /\ r.name = IF m.name = "create" THEN "ready" ELSE "on_client_reconnect_success"
  <2>1. \A name \in {"ready", "on_client_reconnect_success"} : Rpc("base", name, l, c) \in Letters
      BY <1>0, <1>2, Facts, RpcType DEF Names
  <2> QED BY <2>1 DEF Rpc
<1>6. /\ <<k, m>> \in Tokens(c) /\ <<k, m>> \in Creations(c, l) /\ <<k, m>> \in ToClient(c)
      /\ IF m.name = "create" THEN <<k, m>> \in Chain(l) ELSE <<k, m>> \in Later(l)
    BY <1>1, <1>2 DEF Tokens, Creations, ToClient, Chain, Later
<1>7. /\ ~Absent(net, Tokens(c)) /\ ~Absent(net, Creations(c, l)) /\ ~Absent(net, ToClient(c))
      /\ Absent(q, Tokens(c))
    BY <1>0, <1>6, TakenKinds DEF HandInv, Tidy, TokenInv
<1>8. /\ ~client[c].there /\ ~Fresh(conn, orders, c) /\ conn[c] = "on"
    BY <1>7 DEF HandInv, Tidy, TokenInv, FreshInv, ConnInv
<1>9. \A g \in Games : IsBase(base, g, l) =>
         g = b /\ (IF m.name = "create" THEN ~base[g].ready ELSE base[g].ready)
  <2> SUFFICES ASSUME NEW g \in Games, IsBase(base, g, l)
               PROVE  g = b /\ (IF m.name = "create" THEN ~base[g].ready ELSE base[g].ready)
      OBVIOUS
  <2>1. Absent(net, WrongBase(g, l))
      BY <1>2 DEF HandInv, Tidy, AddrInv
  <2>2. <<k, m>> \notin WrongBase(g, l)
      BY <1>0, <2>1, TakenKinds
  <2>3. g = b
      BY <1>1, <1>2, <2>2 DEF WrongBase
  <2>4. IF m.name = "create" THEN ~Absent(net, Chain(l)) ELSE ~Absent(net, Later(l))
      BY <1>0, <1>6, TakenKinds
  <2> QED BY <1>2, <2>3, <2>4 DEF HandInv, Tidy, LateInv
<1>10. \A g \in Games : \A j \in Lives : IsBase(base, g, j) /\ base[g].owner = c =>
          ~Ordered(orders, j) /\ Absent(q, News(j))
  <2>1. \A g \in Games : \A j \in Lives : IsBase(base, g, j) /\ base[g].owner = c =>
          ~Ordered(orders, j) /\ Absent(net, News(j))
      BY <1>7 DEF HandInv, Tidy, WaitInv
  <2> QED BY <1>2, <2>1, ThinKinds
<1>11. \A g \in Games : IsBase(base, g, l) /\ base[g].owner = c => Absent(q, Handings(l))
  <2>1. \A g \in Games : IsBase(base, g, l) /\ base[g].owner = c => Absent(net, Handings(l))
      BY <1>2, <1>7 DEF HandInv, Tidy, SettledInv
  <2> QED BY <1>2, <2>1, ThinKinds
<1>12. m.name = "create" => Absent(q, Chain(l))
    BY <1>0, <1>2, <1>6, TakenKinds DEF HandInv, Tidy, ChainInv
<1>13. l <= lives
  <2> DEFINE n == Len(log[l])
  <2>1. n >= Needs(m) /\ Needs(m) \in {2, 3} /\ n \in Nat
      BY <1>0, <1>1, <1>2, Taken, Facts DEF Needs, Sized
  <2>2. n >= 1
    <3> HIDE DEF n
    <3> QED BY <2>1
  <2> QED BY <1>0, <1>2, <2>2, StageFacts
<1> HIDE DEF l, b, r, x, kd
<1>14. Tidy(q, base, cell, client', conn, orders, lives)
  <2> USE <1>2 DEF Tidy
  <2>1. FreshInv(q, base, client', conn, orders)
      BY <1>4, <1>8 DEF FreshInv
  <2>2. WaitInv(q, base, client', orders)
    <3> SUFFICES ASSUME NEW g \in Games, NEW j \in Lives, IsBase(base, g, j),
                        Ordered(orders, j) \/ ~Absent(q, News(j))
                 PROVE  Absent(q, Tokens(base[g].owner)) /\ ~client'[base[g].owner].there
        BY DEF WaitInv
    <3>1. base[g].owner # c /\ base[g].owner \in Clients
        BY <1>10 DEF Placing, IsBase
    <3>2. client'[base[g].owner] = client[base[g].owner]
        BY <1>4, <3>1
    <3> QED BY <3>2 DEF WaitInv
  <2>3. TokenInv(q, client')
      BY <1>4, <1>7 DEF TokenInv
  <2>4. SettledInv(q, base, client')
    <3> SUFFICES ASSUME NEW g \in Games, NEW j \in Lives, IsBase(base, g, j),
                        \/ Has(client', base[g].owner, j)
                        \/ ~Absent(q, Creations(base[g].owner, j))
                 PROVE  Absent(q, Handings(j))
        BY DEF SettledInv
    <3>1. CASE base[g].owner = c /\ Has(client', c, j)
      <4>1. j = l
          BY <1>4, <3>1 DEF Has
      <4> QED BY <1>11, <3>1, <4>1
    <3>2. CASE base[g].owner # c
      <4>1. client'[base[g].owner] = client[base[g].owner]
          BY <1>4, <3>2 DEF Placing, IsBase
      <4> QED BY <4>1 DEF SettledInv, Has
    <3>3. CASE ~Absent(q, Creations(base[g].owner, j))
        BY <3>3 DEF SettledInv
    <3> QED BY <3>1, <3>2, <3>3
  <2>5. LivesInv(client', lives)
      BY <1>4, <1>13 DEF LivesInv
  <2> QED BY <2>1, <2>2, <2>3, <2>4, <2>5
<1>15. /\ x \notin WrongCell
       /\ \A j : x \notin Handings(j) /\ x \notin News(j)
                 /\ (x \in Later(j) => j = l /\ m.name # "create")
                 /\ (x \in Chain(j) => j = l /\ m.name = "create")
                 /\ (\A h : x \notin WrongBase(h, j) /\ \A a : x \notin Astray(h, a, j))
                 /\ (\A d : x \notin Creations(d, j))
       /\ \A d : x \notin Tokens(d)
  <2>1. x[2] = r
      BY DEF x
  <2>2. /\ r.name # "on_cell_create" /\ r.name # "on_reconnect_fromclient" /\ ~Creates(r)
        /\ r.name # "create_onreconnect" /\ r.name # "create"
      BY <1>5 DEF Creates
  <2>3. \A j : /\ (x \in Later(j) => j = l /\ m.name # "create")
               /\ (x \in Chain(j) => j = l /\ m.name = "create")
      BY <1>1, <1>5, <2>1, <2>2 DEF Chain, News, Later
  <2> QED BY <2>1, <2>2, <2>3 DEF WrongCell, News, Handings, WrongBase, Astray, Creations, Tokens
<1>16. Tidy(net', base, cell, client', conn, orders, lives)
  <2>1. \A h \in Games : \A j \in Lives : IsBase(base, h, j) =>
            /\ x \in Chain(j) => ~base[h].ready
            /\ x \in Later(j) => base[h].ready
      BY <1>9, <1>15
  <2>2. \A j \in Lives : x \in Chain(j) => Absent(q, Chain(j))
      BY <1>12, <1>15
  <2>3. Tidy(Send(q, c, b, r), base, cell, client', conn, orders, lives)
      BY <1>2, <1>5, <1>14, <1>15, <2>1, <2>2, TidySend DEF x
  <2> QED BY <1>1, <2>3
<1>17. ConnInv(net', base, client', conn)
  <2>1. ConnInv(q, base, client', conn)
      BY <1>2, <1>4, <1>8 DEF ConnInv
  <2> QED BY <1>1, <1>2, <1>5, <2>1, ConnSend
<1>18. /\ m.name # "on_reconnect_fromclient" /\ m.name # "on_cell_create" /\ m.name # "on_kick"
       /\ m.name \notin {"ready", "on_client_reconnect_success"}
       /\ r.name # "on_reconnect_fromclient" /\ r.name # "on_cell_create" /\ ~Creates(r)
    BY <1>1, <1>5 DEF Creates
<1>19. AgreeInv(net', base, cell)
  <2>1. AgreeInv(q, base, cell)
      BY <1>0, <1>18, AgreeTake DEF HandInv
  <2> QED BY <1>1, <1>2, <1>5, <1>18, <2>1, AgreeSend
<1>20. ReadyInv(net', base, cell, client')
  <2>1. ReadyInv(q, base, cell, client)
      BY <1>0, <1>18, ReadyTake DEF HandInv
  <2>2. ReadyInv(net', base, cell, client)
      BY <1>1, <1>2, <1>5, <2>1, ReadySend
  <2> SUFFICES ASSUME NEW h \in Games, NEW j \in Lives, IsBase(base, h, j),
                      Has(client', base[h].owner, j), ~client'[base[h].owner].ready
               PROVE  Promised(net', base, cell, h, base[h].owner, j)
      BY DEF ReadyInv
  <2>3. CASE base[h].owner = c
    <3>1. j = l /\ h = b
        BY <1>4, <1>9, <2>3 DEF Has
    <3>2. IF m.name = "create" THEN x \in Firsts(c, h, l) /\ ~base[h].ready
                               ELSE x \in Rights(c, h, l)
        BY <1>3, <1>5, <1>9, <3>1 DEF x, Firsts, Rights, Posts
    <3>3. \A K : x \in K => ~Absent(net', K)
        BY <1>1, <1>2, <1>3, <1>5, SentKinds DEF x
    <3> QED BY <2>3, <3>1, <3>2, <3>3 DEF Promised
  <2>4. CASE base[h].owner # c
    <3>1. client'[base[h].owner] = client[base[h].owner]
        BY <1>2, <1>4, <2>4 DEF Placing, IsBase
    <3> QED BY <2>2, <3>1 DEF ReadyInv, Has
  <2> QED BY <2>3, <2>4
<1>21. KickInv(net', base, client', conn, kicked' \cup missed')
  <2>1. KickInv(q, base, client, conn, kd)
      BY <1>0, <1>18, KickTake DEF HandInv, kd
  <2>2. KickInv(q, base, client', conn, kicked' \cup missed')
    <3> SUFFICES ASSUME NEW g \in Games, NEW j \in Lives, NEW d \in Clients,
                        IsBase(base, g, j), d # base[g].owner, conn[d] # "gone",
                        \/ Has(client', d, j) \/ ~Absent(q, Creations(d, j))
                        \/ ~Absent(q, HandingTo(d, j))
                 PROVE  d \in kicked' \cup missed' \/ ~Absent(q, Kicks(g, d))
        BY DEF KickInv
    <3>1. CASE d = c /\ Has(client', d, j)
      <4>1. j = l
          BY <1>4, <3>1 DEF Has
      <4>2. d \in kd \/ ~Absent(net, Kicks(g, d))
          BY <1>7, <3>1, <4>1 DEF HandInv, KickInv, kd
      <4>3. <<k, m>> \notin Kicks(g, d)
          BY <1>18 DEF Kicks
      <4>4. ~Absent(net, Kicks(g, d)) => ~Absent(q, Kicks(g, d))
          BY <1>0, <4>3, TakenKinds
      <4> QED BY <4>2, <4>4 DEF kd
    <3>2. CASE d # c \/ ~Has(client', d, j)
      <4>1. \/ Has(client, d, j) \/ ~Absent(q, Creations(d, j)) \/ ~Absent(q, HandingTo(d, j))
          BY <1>4, <3>2 DEF Has
      <4>2. d \in kd \/ ~Absent(q, Kicks(g, d))
          BY <2>1, <4>1 DEF KickInv
      <4> QED BY <4>2 DEF kd
    <3> QED BY <3>1, <3>2
  <2> QED BY <1>1, <1>2, <1>5, <1>18, <2>2, KickSend
<1>22. NewsInv(net', base, cell)
  <2>1. NewsInv(q, base, cell)
      BY <1>0, <1>18, NewsTake DEF HandInv
  <2> QED BY <1>1, <1>2, <1>5, <1>18, <2>1, NewsSend
<1> QED BY <1>16, <1>17, <1>19, <1>20, <1>21, <1>22 DEF HandInv

LEMMA HandCallClient ==
    ASSUME TypeInv, HandInv, UNCHANGED <<base, cell, conn, orders, lives>>,
           kicked \cup missed \subseteq kicked' \cup missed',
           NEW k \in Links, NEW m, NEW q, Taking(k, m, q),
           NEW c \in Clients, c = k[2], m.to = "client", CallClient(c, m, q)
    PROVE  HandInv'
<1> DEFINE kd == kicked \cup missed
<1>1. /\ client[c].there /\ net' = q /\ m.name \in {"ready", "on_kick", "destroy_self"}
      /\ m.name = "on_kick" => c \in kicked'
    BY DEF CallClient
<1>2. client' = [client EXCEPT ![c].ready = TRUE] \/ client' = client
      \/ client' = [client EXCEPT ![c].doomed = TRUE]
    BY DEF CallClient
<1>3. client[c] \in Entities
    BY <1>1, ThereIs
<1>4. /\ client'[c].there = client[c].there /\ client'[c].life = client[c].life
      /\ client[c].ready => client'[c].ready
      /\ \A d \in Clients : d # c => client'[d] = client[d]
  <2>0. client \in [Clients -> Entities \cup {None}]
      BY DEF TypeInv, Tables
  <2> HIDE DEF None
  <2>1. CASE client' = [client EXCEPT ![c].ready = TRUE]
      BY <1>3, <2>0, <2>1 DEF Entities
  <2>2. CASE client' = [client EXCEPT ![c].doomed = TRUE]
      BY <1>3, <2>0, <2>2 DEF Entities
  <2> QED BY <1>2, <2>1, <2>2
<1>5. m.name = "ready" => client'[c].ready
    BY <1>3 DEF CallClient, Entities, TypeInv, Tables
<1>6. /\ BasesFade(base, base') /\ CellsFade(cell, cell') /\ ClientsFade(client, client')
      /\ \A h \in Games : cell'[h].there => cell'[h].owner = cell[h].owner
      /\ \A d \in Clients : client'[d].there /\ client[d].ready => client'[d].ready
    BY <1>4 DEF BasesFade, CellsFade, ClientsFade
<1>7. CASE m.name = "destroy_self"
    BY <1>1, <1>6, <1>7, HandDoomed
<1>8. CASE m.name # "destroy_self"
  <2>0. m.name # "on_reconnect_fromclient" /\ m.name # "on_cell_create"
      BY <1>1
  <2>1. /\ Thin(net, net') /\ ConnInv(net', base, client, conn) /\ Placing(base)
        /\ m \in Letters /\ <<k, m>> \in Posts
      BY <1>1, HandTaken
  <2>2. /\ AgreeInv(net', base, cell) /\ NewsInv(net', base, cell)
      BY <1>1, <2>0, AgreeTake, NewsTake DEF HandInv
  <2>3. \A K : <<k, m>> \notin K /\ ~Absent(net, K) => ~Absent(q, K)
      BY TakenKinds
  <2>4. \A K : ~Absent(q, K) => ~Absent(net, K)
      BY TakenKinds
  <2>5. ReadyInv(net', base', cell', client')
    <3>1. CASE m.name = "ready"
      <4> SUFFICES ASSUME NEW h \in Games, NEW j \in Lives, IsBase(base, h, j),
                          Has(client', base[h].owner, j), ~client'[base[h].owner].ready
                   PROVE  Promised(q, base, cell, h, base[h].owner, j)
          BY <1>1 DEF ReadyInv
      <4> DEFINE d == base[h].owner
                 b == base[h].addr
      <4>1. d # c /\ d \in Clients
          BY <1>5, <2>1, <3>1 DEF Placing, IsBase
      <4>2. client'[d] = client[d]
          BY <1>4, <4>1
      <4> HIDE DEF d
      <4>3. Promised(net, base, cell, h, d, j)
          BY <4>2 DEF HandInv, ReadyInv, Has, d
      <4>6. /\ <<k, m>> \notin Rights(d, h, j) /\ <<k, m>> \notin Firsts(d, h, j)
            /\ <<k, m>> \notin Relayed(h, b, j) /\ <<k, m>> \notin Answers(b, d, j)
          BY <4>1 DEF Rights, Firsts, Relayed, Answers
      <4>7. /\ ~Absent(net, Rights(d, h, j)) => ~Absent(q, Rights(d, h, j))
            /\ ~Absent(net, Firsts(d, h, j)) => ~Absent(q, Firsts(d, h, j))
            /\ ~Absent(net, Relayed(h, b, j)) => ~Absent(q, Relayed(h, b, j))
            /\ ~Absent(net, Answers(b, d, j)) => ~Absent(q, Answers(b, d, j))
          BY <2>3, <4>6
      <4> QED BY <4>3, <4>7, PromisedKinds DEF d
    <3>2. CASE m.name = "on_kick"
      <4>1. ReadyInv(q, base, cell, client)
          BY <3>2, ReadyTake DEF HandInv
      <4> QED BY <1>1, <1>6, <2>1, <4>1, ReadyTables
    <3> QED BY <1>1, <1>8, <3>1, <3>2
  <2>6. KickInv(net', base', client', conn', kicked' \cup missed')
    <3> SUFFICES ASSUME NEW g \in Games, NEW j \in Lives, NEW d \in Clients,
                        IsBase(base, g, j), d # base[g].owner, conn[d] # "gone",
                        \/ Has(client', d, j) \/ ~Absent(q, Creations(d, j))
                        \/ ~Absent(q, HandingTo(d, j))
                 PROVE  d \in kicked' \cup missed' \/ ~Absent(q, Kicks(g, d))
        BY <1>1 DEF KickInv
    <3>1. \/ Has(client, d, j) \/ ~Absent(net, Creations(d, j)) \/ ~Absent(net, HandingTo(d, j))
        BY <1>4, <2>4 DEF Has
    <3>2. d \in kd \/ ~Absent(net, Kicks(g, d))
        BY <3>1 DEF HandInv, KickInv
    <3>3. <<k, m>> \in Kicks(g, d) => d \in kicked'
        BY <1>1 DEF Kicks
    <3> QED BY <2>3, <3>2, <3>3
  <2> QED BY <1>6, <2>1, <2>2, <2>5, <2>6, HandFades
<1> QED BY <1>7, <1>8

-----------------------------------------------------------------------------
(* An rpc that finds no entity, and the execution of any rpc. *)

LEMMA HandDrop ==
    ASSUME TypeInv, StageInv, HandInv, UNCHANGED <<base, cell, client, conn, orders, lives>>,
           kicked \cup missed \subseteq kicked' \cup missed',
           NEW k \in Links, NEW m, NEW q, Taking(k, m, q), net' = q,
           ~Addressed(k[2], m.to).there, ~Creates(m),
           k[2] \in Clients /\ m.name = "on_kick" => k[2] \in missed'
    PROVE  HandInv'
<1> DEFINE p == k[2]
<1>1. /\ Thin(net, net') /\ ConnInv(net', base, client, conn) /\ Placing(base)
      /\ m \in Letters /\ <<k, m>> \in Posts
    BY HandTaken
<1>2. /\ \A K : Absent(net, K) => <<k, m>> \notin K
      /\ \A K : <<k, m>> \notin K /\ ~Absent(net, K) => ~Absent(q, K)
      /\ \A K : ~Absent(q, K) => ~Absent(net, K)
    BY TakenKinds
<1>3. /\ m.to = "base" => ~base[p].there
      /\ m.to = "cell" => ~cell[p].there
      /\ m.to = "client" => ~client[p].there
    BY DEF Addressed
<1>4. NewsInv(net', base, cell)
  <2>1. m.name = "on_cell_create" => m.to = "base"
      BY <1>1, <1>2 DEF HandInv, Tidy, AddrInv, WrongCell
  <2>2. m.name # "on_cell_create" \/ (k[2] \in Games => ~base[k[2]].there)
      BY <1>3, <2>1
  <2> QED BY <2>2, NewsTake DEF HandInv
<1>5. AgreeInv(net', base, cell)
  <2>1. CASE m.name # "on_reconnect_fromclient"
      BY <2>1, AgreeTake DEF HandInv
  <2>2. CASE m.name = "on_reconnect_fromclient"
    <3> SUFFICES ASSUME NEW g \in Games, NEW h \in Games, NEW j \in Lives,
                        IsBase(base, g, j), IsCell(cell, h, j)
                 PROVE  Agreed(q[<<g, h>>], j, cell[h].owner, base[g].owner)
        BY DEF AgreeInv
    <3> DEFINE s == net[<<g, h>>]
               co == cell[h].owner
               bo == base[g].owner
    <3>1. Agreed(s, j, co, bo)
        BY DEF HandInv, AgreeInv
    <3>2. s \in Seq(Letters) /\ <<g, h>> \in Links
        BY Facts, GameLinks
    <3>3. CASE k = <<g, h>>
      <4>1. ~IsHanding(m, j)
        <5>1. Absent(net, Astray(g, base[g].addr, j))
            BY DEF HandInv, Tidy, PlaceInv
        <5>2. <<k, m>> \in Handings(j) => m.to = "cell"
            BY <1>2, <5>1 DEF Astray
        <5>3. cell[p].there
            BY <3>3 DEF IsCell
        <5> QED BY <1>1, <1>3, <5>2, <5>3 DEF IsHanding, Handings
      <4>2. s # <<>> /\ m = Head(s) /\ q[<<g, h>>] = Tail(s)
          BY <3>2, <3>3, Facts DEF Taking
      <4> HIDE DEF s, co, bo
      <4>3. Agreed(Tail(s), j, co, bo)
          BY <3>1, <3>2, <4>1, <4>2, AgreedTail
      <4> QED BY <4>2, <4>3 DEF co, bo
    <3>4. CASE k # <<g, h>>
      <4>1. q[<<g, h>>] = s
          BY <3>2, <3>4, Facts DEF Taking
      <4> QED BY <3>1, <4>1
    <3> QED BY <3>3, <3>4
  <2> QED BY <2>1, <2>2
<1>6. ReadyInv(net', base', cell', client')
  <2> SUFFICES ASSUME NEW h \in Games, NEW j \in Lives, IsBase(base, h, j),
                      Has(client, base[h].owner, j), ~client[base[h].owner].ready
               PROVE  Promised(q, base, cell, h, base[h].owner, j)
      BY DEF ReadyInv
  <2> DEFINE d == base[h].owner
             b == base[h].addr
  <2>1. Promised(net, base, cell, h, d, j)
      BY DEF HandInv, ReadyInv
  <2>2. /\ <<k, m>> \notin Rights(d, h, j) /\ <<k, m>> \notin Firsts(d, h, j)
        /\ <<k, m>> \notin Answers(b, d, j)
      BY <1>3 DEF Rights, Firsts, Answers, IsBase, Has
  <2>3. base[h].ready /\ <<k, m>> \in Relayed(h, b, j) => \A f \in Games : ~IsCell(cell, f, j)
    <3> SUFFICES ASSUME base[h].ready, <<k, m>> \in Relayed(h, b, j),
                        NEW f \in Games, IsCell(cell, f, j)
                 PROVE  FALSE
        OBVIOUS
    <3>1. b \in Games /\ b # Nobody
        BY StageFacts, ProcessesAssumption
    <3>2. f = b
        BY <3>1, StageFacts
    <3>3. p = b /\ m.to = "cell"
        BY DEF Relayed
    <3> QED BY <1>3, <3>2, <3>3 DEF IsCell
  <2>4. /\ ~Absent(net, Rights(d, h, j)) => ~Absent(q, Rights(d, h, j))
        /\ ~Absent(net, Firsts(d, h, j)) => ~Absent(q, Firsts(d, h, j))
        /\ ~Absent(net, Answers(b, d, j)) => ~Absent(q, Answers(b, d, j))
        /\ <<k, m>> \notin Relayed(h, b, j) /\ ~Absent(net, Relayed(h, b, j)) =>
               ~Absent(q, Relayed(h, b, j))
      BY <1>2, <2>2
  <2> QED BY <2>1, <2>3, <2>4 DEF Promised
<1>7. KickInv(net', base', client', conn', kicked' \cup missed')
  <2> SUFFICES ASSUME NEW g \in Games, NEW j \in Lives, NEW d \in Clients,
                      IsBase(base, g, j), d # base[g].owner, conn[d] # "gone",
                      \/ Has(client, d, j) \/ ~Absent(q, Creations(d, j))
                      \/ ~Absent(q, HandingTo(d, j))
               PROVE  d \in kicked' \cup missed' \/ ~Absent(q, Kicks(g, d))
      BY DEF KickInv
  <2>1. d \in kicked \cup missed \/ ~Absent(net, Kicks(g, d))
      BY <1>2 DEF HandInv, KickInv
  <2>2. <<k, m>> \in Kicks(g, d) => d \in missed'
      BY DEF Kicks
  <2> QED BY <1>2, <2>1, <2>2
<1>8. /\ BasesFade(base, base') /\ CellsFade(cell, cell') /\ ClientsFade(client, client')
      /\ \A h \in Games : cell'[h].there => cell'[h].owner = cell[h].owner
    BY DEF BasesFade, CellsFade, ClientsFade
<1>9. UNCHANGED <<conn, lives>> /\ orders' \in SUBSET orders
    OBVIOUS
<1> QED BY <1>1, <1>4, <1>5, <1>6, <1>7, <1>8, <1>9, HandFades

LEMMA HandExec ==
    ASSUME Going, HandInv, NEW k \in Links, Exec(k[1], k[2])
    PROVE  HandInv'
<1> DEFINE m == Head(net[k])
           q == [net EXCEPT ![k] = Tail(@)]
           p == k[2]
           e == Addressed(p, m.to)
<1>0. TypeInv /\ StageInv
    BY DEF Going
<1>1. k = <<k[1], k[2]>>
    BY DEF Links
<1>2. UNCHANGED <<conn, orders, lives>> /\ net[k] # <<>>
    BY <1>1 DEF Exec
<1>3. Taking(k, m, q)
    BY <1>2 DEF Taking
<1>4. \/ p \in Games /\ (ExecBase(p, m, q) \/ ExecCell(p, m, q))
      \/ p \in Clients /\ ExecClient(p, m, q)
      \/ /\ ~e.there /\ ~Creates(m) /\ net' = q
         /\ UNCHANGED <<base, cell, client, kicked>>
    BY <1>1 DEF Exec, tables
<1>5. e.there /\ ~Creates(m) => e.life = m.life
  <2>1. crossed' = (crossed \/ (e.there /\ ~Creates(m) /\ e.life # m.life))
      BY <1>1 DEF Exec
  <2> QED BY <2>1 DEF Going
<1>6. /\ missed \subseteq missed'
      /\ p \in Clients /\ ~e.there /\ m.name = "on_kick" => p \in missed'
  <2>1. missed' = IF p \in Clients /\ ~e.there /\ m.name = "on_kick"
                  THEN missed \cup {p} ELSE missed
      BY <1>1 DEF Exec
  <2> QED BY <2>1
<1> HIDE DEF m, q, p
<1>7. kicked \subseteq kicked'
  <2>1. ExecBase(p, m, q) \/ ExecCell(p, m, q) => kicked' = kicked
      BY DEF ExecBase, ExecCell
  <2>2. ExecClient(p, m, q) => kicked \subseteq kicked'
      BY DEF ExecClient, CreateClient, CallClient
  <2> QED BY <1>4, <2>1, <2>2
<1>8. kicked \cup missed \subseteq kicked' \cup missed'
    BY <1>6, <1>7
<1>9. ASSUME p \in Games, ExecBase(p, m, q) PROVE HandInv'
  <2>1. ~Creates(m)
      BY <1>9 DEF ExecBase, OnCellCreate, BaseReady, OnClientReconnectSuccess, Creates
  <2>2. m.to = "base" => base[p].life = m.life \/ ~base[p].there
      BY <1>5, <2>1 DEF Addressed
  <2> QED BY <1>2, <1>3, <1>8, <1>9, <2>2, HandExecBase DEF p
<1>10. ASSUME p \in Games, ExecCell(p, m, q) PROVE HandInv'
  <2>1. ~Creates(m)
      BY <1>10 DEF ExecCell, OnReconnectFromClient, CellReady, Creates
  <2>2. m.to = "cell" => cell[p].life = m.life \/ ~cell[p].there
      BY <1>5, <2>1 DEF Addressed
  <2> QED BY <1>0, <1>2, <1>3, <1>8, <1>10, <2>2, HandExecCell DEF p
<1>11. ASSUME p \in Clients, ExecClient(p, m, q) PROVE HandInv'
  <2>1. /\ m.to = "client" /\ UNCHANGED <<base, cell, conn, orders, lives>>
        /\ (CreateClient(p, m, q) \/ CallClient(p, m, q))
      BY <1>2, <1>11 DEF ExecClient
  <2>2. ASSUME CreateClient(p, m, q) PROVE HandInv'
      BY <1>3, <1>8, <1>11, <2>1, <2>2, HandCreateClient DEF p
  <2>3. ASSUME CallClient(p, m, q) PROVE HandInv'
      BY <1>0, <1>3, <1>8, <1>11, <2>1, <2>3, HandCallClient DEF p
  <2> QED BY <2>1, <2>2, <2>3
<1>12. ASSUME ~e.there, ~Creates(m), net' = q, UNCHANGED <<base, cell, client, kicked>>
       PROVE  HandInv'
    BY <1>0, <1>2, <1>3, <1>6, <1>8, <1>12, HandDrop DEF p
<1> QED BY <1>4, <1>9, <1>10, <1>11, <1>12

-----------------------------------------------------------------------------
(* The invariant. *)

LEMMA InitHand == Init => HandInv
<1> SUFFICES ASSUME Init PROVE HandInv
    OBVIOUS
<1>1. /\ \A g \in Games : ~base[g].there /\ ~cell[g].there
      /\ \A c \in Clients : ~client[c].there
      /\ \A l \in Links : net[l] = <<>>
      /\ \A c \in Clients : conn[c] = "new"
      /\ orders = {}
    BY DEF Init, None
<1>2. \A K : Absent(net, K) /\ AtMostOne(net, K)
    BY <1>1 DEF Absent, AtMostOne
<1>3. \A g \in Games : \A l \in Lives : ~IsBase(base, g, l) /\ ~IsCell(cell, g, l)
    BY <1>1 DEF IsBase, IsCell
<1>4. ConnInv(net, base, client, conn)
    BY <1>1, <1>2 DEF ConnInv
<1>5. Tidy(net, base, cell, client, conn, orders, lives)
  <2>1. /\ FreshInv(net, base, client, conn, orders) /\ OwnersInv(base)
        /\ AddrInv(net, base, cell, orders)
      BY <1>1, <1>2, <1>3 DEF FreshInv, OwnersInv, AddrInv
  <2>2. LateInv(net, base) /\ ChainInv(net) /\ WaitInv(net, base, client, orders)
      BY <1>2, <1>3 DEF LateInv, ChainInv, WaitInv
  <2>3. /\ TokenInv(net, client) /\ PlaceInv(net, base) /\ SettledInv(net, base, client)
        /\ LivesInv(client, lives)
      BY <1>1, <1>2, <1>3 DEF TokenInv, PlaceInv, SettledInv, LivesInv
  <2> QED BY <2>1, <2>2, <2>3 DEF Tidy
<1>6. /\ AgreeInv(net, base, cell) /\ ReadyInv(net, base, cell, client)
      /\ KickInv(net, base, client, conn, kicked \cup missed) /\ NewsInv(net, base, cell)
    BY <1>1, <1>3 DEF AgreeInv, ReadyInv, KickInv, NewsInv
<1> QED BY <1>4, <1>5, <1>6 DEF HandInv

LEMMA HandStep ==
    ASSUME TypeInv, TypeInv', StageInv, HandInv, [Next]_vars, ~crossed'
    PROVE  HandInv'
<1>1. Going
    BY DEF Going
<1>2. CASE UNCHANGED vars
    BY <1>2 DEF vars, tables, HandInv
<1>3. CASE Next
  <2>1. ASSUME NEW g \in Loads, NEW c \in Clients, CreateEntity(g, c) PROVE HandInv'
      BY <2>1, HandCreateEntity
  <2>2. ASSUME NEW l \in Links, Exec(l[1], l[2]) PROVE HandInv'
      BY <1>1, <2>2, HandExec
  <2>3. ASSUME NEW g \in Games, CreateCell(g) PROVE HandInv'
      BY <2>3, HandCreateCell
  <2>4. ASSUME \/ \E g \in Games : \/ Tick(g) \/ LoseTouch(g) \/ BaseReadyCheck(g)
                                   \/ CellReadyCheck(g)
               \/ \E c \in Clients : ClientTick(c) \/ ClientReadyCheck(c)
        PROVE  HandInv'
      BY <2>4, HandTimer
  <2>5. ASSUME NEW c \in Clients, Connect(c) PROVE HandInv'
      BY <2>5, HandConnect
  <2>6. ASSUME NEW c \in Clients, Disconnect(c) PROVE HandInv'
      BY <2>6, HandDisconnect
  <2> QED BY <1>3, <2>1, <2>2, <2>3, <2>4, <2>5, <2>6 DEF Next, Progress
<1> QED BY <1>2, <1>3

LEMMA InvHandover ==
    ASSUME TypeInv, ~crossed => StageInv /\ HandInv
    PROVE  Handover
<1> SUFFICES ASSUME Quiet, ~crossed, StageInv, HandInv, NEW g \in Games, Linked(g), base[g].ready
             PROVE  /\ cell[base[g].addr].owner = base[g].owner
                    /\ \A c \in Clients : client[c].there /\ client[c].life = base[g].life =>
                          IF c = base[g].owner THEN client[c].ready
                                               ELSE c \in kicked \cup missed
    BY DEF Handover
<1> DEFINE l == base[g].life
           a == base[g].addr
           o == base[g].owner
<1>1. \A k \in Links : net[k] = <<>>
    BY DEF Quiet
<1>2. \A K : Absent(net, K)
    BY <1>1 DEF Absent
<1>3. /\ a \in Games /\ cell[a].there /\ cell[a].addr = g /\ IsBase(base, g, l)
      /\ l \in Lives /\ o \in Clients
    BY ThereIs DEF Linked, IsBase
<1>4. IsCell(cell, a, l)
  <2>1. cell[a].life # l => Comes(net[<<a, g>>], cell[a].life)
      BY <1>3 DEF HandInv, NewsInv, IsBase
  <2>2. net[<<a, g>>] = <<>>
      BY <1>1, <1>3, GameLinks
  <2>3. ~Comes(<<>>, cell[a].life)
      BY DEF Comes
  <2> QED BY <1>3, <2>1, <2>2, <2>3 DEF IsCell
<1>5. cell[a].owner = o
  <2> DEFINE s == net[<<g, a>>]
  <2>1. Agreed(s, l, cell[a].owner, o)
      BY <1>3, <1>4 DEF HandInv, AgreeInv
  <2>2. s = <<>> /\ s \in Seq(Letters)
      BY <1>1, <1>3, GameLinks, Facts
  <2> HIDE DEF s
  <2>3. \A i \in 1 .. Len(s) : ~IsHanding(s[i], l)
      BY <2>2
  <2> DEFINE co == cell[a].owner
  <2> HIDE DEF co, l, o
  <2>4. Agreed(s, l, co, o) <=> co = o
      BY <2>2, <2>3, AgreedNone
  <2> QED BY <2>1, <2>4 DEF co
<1>6. ASSUME NEW c \in Clients, client[c].there, client[c].life = l
      PROVE  IF c = o THEN client[c].ready ELSE c \in kicked \cup missed
  <2>1. Has(client, c, l)
      BY <1>6 DEF Has
  <2>2. CASE c = o
    <3>1. ~Promised(net, base, cell, g, o, l)
        BY <1>2, <1>3, <1>4 DEF Promised
    <3> QED BY <1>3, <2>1, <2>2, <3>1 DEF HandInv, ReadyInv
  <2>3. CASE c # o
    <3>1. conn[c] # "gone"
        BY <1>6 DEF HandInv, ConnInv
    <3> QED BY <1>2, <1>3, <2>1, <2>3, <3>1 DEF HandInv, KickInv
  <2> QED BY <2>2, <2>3
<1> QED BY <1>5, <1>6

(* README.md, 549-550: however many clients come, reconnect and go, when   *)
(* nothing is under way a base and its cell name the same client, that     *)
(* client has been told that the entity is ready if it has it, and every   *)
(* other client that has the entity was sent the kick, as long as no rpc   *)
(* of one life is executed by an entity of another.                        *)
THEOREM HandedOver == Spec => []Handover
<1> DEFINE I == TypeInv /\ (~crossed => StageInv /\ HandInv)
<1>1. Init => I
    BY InitType, InitStage, InitHand
<1>2. I /\ [Next]_vars => I'
  <2> SUFFICES ASSUME I, [Next]_vars PROVE I'
      OBVIOUS
  <2>1. TypeInv /\ TypeInv'
      BY TypeStep
  <2>2. ~crossed' => StageInv' /\ HandInv'
      BY <2>1, StageStep, HandStep, CrossedStays
  <2> QED BY <2>1, <2>2
<1>3. I => Handover
    BY InvHandover
<1> QED BY <1>1, <1>2, <1>3, PTL DEF Spec

=============================================================================
