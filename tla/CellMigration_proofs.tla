------------------------ MODULE CellMigration_proofs ------------------------
(***************************************************************************)
(* Proofs about CellMigration: its types, for all behaviours; and, as long *)
(* as no migration times out, that exactly one cell, or one packet, is the *)
(* entity, and that its owners know.                                       *)
(***************************************************************************)
EXTENDS CellMigration, LetterQueues, FiniteSetTheorems, SequenceTheorems, TLAPS

-----------------------------------------------------------------------------
(* The letters, by what they are. *)
CallRpc(c) == [op |-> "call", arg |-> c]
AckRpc(s) == [op |-> "ack", arg |-> s]

CallLetters == {SendRpc(c[1], g, CallRpc(c)) : c \in Calls, g \in Games}
AckLetters == {SendRpc(s, g, AckRpc(s)) : s \in Sources, g \in Games}
FinishLetters == {NewMailBoxCall(g, h, "finish") : g \in Games, h \in Games}

OwnerOps == {"migrate_req_from_cell", "new_cell_migrate_in"}
OwnerLetters == {ToOwner(g, s, op) : g \in Games, s \in Sources, op \in OwnerOps}

PacketType ==
    [oldAddr : Games, applied : [Sources -> Seq(Nat)], own : SUBSET Belongings]
PacketLetters ==
    {Letter(gate, g, "game", "migrate", p) : gate \in Gates, g \in Games, p \in PacketType}

Letters == CallLetters \cup AckLetters \cup FinishLetters
               \cup OwnerLetters \cup PacketLetters

(* What an owner caches. *)
RpcsOf(s) == {CallRpc(c) : c \in {c \in Calls : c[1] = s}} \cup {AckRpc(s)}

Boxes == [addr : Games, caching : BOOLEAN, cache : Seq(UNION {RpcsOf(s) : s \in Sources})]

Places ==
    /\ cells \in [Games -> CellType \cup {NoCell}]
    /\ \A g \in Games : Exists(g) /\ cells[g].state # "None" => cells[g].newAddr \in Games
    /\ mb \in [Sources -> Boxes]
    /\ \A s \in Sources : /\ mb[s].cache \in Seq(RpcsOf(s))
                          /\ ~mb[s].caching => mb[s].cache = <<>>

Ups == [Nodes -> [Gates -> Seq(Letters)]]

Legs ==
    /\ up \in Ups
    /\ down \in [Gates -> [Nodes -> Seq(Letters)]]
    /\ imp \in [Nodes -> Seq([letter : Letters, decoded : BOOLEAN])]

Counts ==
    /\ crashed \subseteq Games
    /\ issued \in [Sources -> Nat] /\ \A s \in Sources : issued[s] <= MaxCalls[s]
    /\ migrations \in 0 .. MaxMigrations /\ timeouts \in 0 .. MaxTimeouts

TypeInv == Places /\ Legs /\ Counts

-----------------------------------------------------------------------------
LEMMA SeqFacts ==
    ASSUME NEW S, NEW q \in Seq(S)
    PROVE  /\ Len(q) \in Nat /\ \A i \in 1 .. Len(q) : q[i] \in S
           /\ ToSet(q) \subseteq S
           /\ \A x \in S : Append(q, x) \in Seq(S)
BY DEF ToSet

LEMMA NoneQueued == ASSUME NEW S PROVE <<>> \in Seq(S)
OBVIOUS

LEMMA Owners ==
    /\ "base" \in Sources
    /\ \A s \in Sources : s \in {"base", "client"} /\ At[s] \in Nodes
    /\ \A g \in Games : g \in Nodes
BY SourcesAssumption DEF Nodes

LEMMA Routes ==
    /\ \A n \in Nodes : \A m \in Nodes : Fixed[n][m] \in Gates
    /\ ClientGate \in Gates /\ Home \in Games
    /\ \A s \in Sources : CellGate(s) \in Gates
BY PlacesAssumption, Owners DEF CellGate

(* What a letter is for says what it carries. *)
LEMMA CallLetter ==
    ASSUME NEW l \in Letters, l.to = "cell", l.op = "call"
    PROVE  \E c \in Calls, g \in Games : l = SendRpc(c[1], g, CallRpc(c))
BY SourcesAssumption
   DEF Letters, CallLetters, AckLetters, FinishLetters, OwnerLetters, PacketLetters,
       OwnerOps, SendRpc, NewMailBoxCall, ToOwner, Letter, CallRpc, AckRpc

LEMMA AckLetter ==
    ASSUME NEW l \in Letters, l.to = "cell", l.op = "ack"
    PROVE  \E s \in Sources, g \in Games : l = SendRpc(s, g, AckRpc(s))
BY SourcesAssumption
   DEF Letters, CallLetters, AckLetters, FinishLetters, OwnerLetters, PacketLetters,
       OwnerOps, SendRpc, NewMailBoxCall, ToOwner, Letter, CallRpc, AckRpc

LEMMA FinishLetter ==
    ASSUME NEW l \in Letters, l.to = "cell", l.op = "finish"
    PROVE  \E g \in Games, h \in Games : l = NewMailBoxCall(g, h, "finish")
BY SourcesAssumption
   DEF Letters, CallLetters, AckLetters, FinishLetters, OwnerLetters, PacketLetters,
       OwnerOps, SendRpc, NewMailBoxCall, ToOwner, Letter, CallRpc, AckRpc

LEMMA PacketLetter ==
    ASSUME NEW l \in Letters, l.to = "game" \/ l.op = "migrate"
    PROVE  \E gate \in Gates, g \in Games, p \in PacketType :
               l = Letter(gate, g, "game", "migrate", p)
BY SourcesAssumption
   DEF Letters, CallLetters, AckLetters, FinishLetters, OwnerLetters, PacketLetters,
       OwnerOps, SendRpc, NewMailBoxCall, ToOwner, Letter, CallRpc, AckRpc

LEMMA OwnerLetter ==
    ASSUME NEW l \in Letters, l.to \in Sources
    PROVE  \E g \in Games, op \in OwnerOps : l = ToOwner(g, l.to, op)
BY SourcesAssumption
   DEF Letters, CallLetters, AckLetters, FinishLetters, OwnerLetters, PacketLetters,
       OwnerOps, SendRpc, NewMailBoxCall, ToOwner, Letter, CallRpc, AckRpc

LEMMA LetterAddress ==
    ASSUME NEW l \in Letters
    PROVE  /\ l.dst \in Nodes /\ l.via \in Gates
           /\ l.to \in Sources \cup {"cell", "game"}
<1>1. \A c \in Calls : c[1] \in Sources
    BY DEF Calls
<1> QED
    BY <1>1, Owners, Routes
       DEF Letters, CallLetters, AckLetters, FinishLetters, OwnerLetters, PacketLetters,
           OwnerOps, SendRpc, NewMailBoxCall, ToOwner, Letter, CallRpc, AckRpc

(* Sending keeps the queues to the gates well-formed. *)
LEMMA SentType ==
    ASSUME NEW queues \in Ups, NEW n \in Nodes, NEW l \in Letters
    PROVE  Sent(queues, n, l) \in Ups
BY LetterAddress DEF Ups, Sent

LEMMA TellType ==
    ASSUME NEW queues \in Ups, NEW g \in Games, NEW op \in OwnerOps
    PROVE  TellOwners(queues, g, op) \in Ups
<1>1. \A s \in Sources : ToOwner(g, s, op) \in Letters
    BY DEF Letters, OwnerLetters
<1>2. Sent(queues, g, ToOwner(g, "base", op)) \in Ups
    BY <1>1, SentType, Owners
<1> QED BY <1>1, <1>2, SentType, Owners DEF TellOwners

LEMMA AnnouncedType ==
    ASSUME NEW queues \in Ups, NEW g \in Games, NEW h \in Games
    PROVE  Announced(queues, g, h) \in Ups
<1>1. NewMailBoxCall(g, h, "finish") \in Letters
    BY DEF Letters, FinishLetters
<1>2. TellOwners(queues, g, "new_cell_migrate_in") \in Ups
    BY TellType DEF OwnerOps
<1> QED BY <1>1, <1>2, SentType, Owners DEF Announced

LEMMA RpcLetter ==
    ASSUME NEW s \in Sources, NEW g \in Games, NEW rpc \in RpcsOf(s)
    PROVE  SendRpc(s, g, rpc) \in Letters
BY DEF RpcsOf, Letters, CallLetters, AckLetters

LEMMA InitType == Init => TypeInv
<1> SUFFICES ASSUME Init PROVE TypeInv
    OBVIOUS
<1>1. Places
  <2>1. NewCell([s \in Sources |-> <<>>], Belongings) \in CellType
      BY DEF NewCell, CellType, Belongings
  <2>2. NoCell # NewCell([s \in Sources |-> <<>>], Belongings)
      BY <2>1, NoCellAssumption
  <2>3. NewCell([s \in Sources |-> <<>>], Belongings).state = "None"
      BY DEF NewCell
  <2>4. cells \in [Games -> CellType \cup {NoCell}]
      BY <2>1 DEF Init
  <2>5. \A g \in Games : Exists(g) => cells[g].state = "None"
      BY <2>3, <2>2 DEF Init, Exists
  <2>6. mb \in [Sources -> Boxes] /\ \A s \in Sources : mb[s].cache = <<>>
      BY PlacesAssumption DEF Init, Boxes
  <2>7. \A s \in Sources : mb[s].cache \in Seq(RpcsOf(s))
    <3> SUFFICES ASSUME NEW s \in Sources PROVE mb[s].cache \in Seq(RpcsOf(s))
        OBVIOUS
    <3> QED BY <2>6, NoneQueued, Zenon
  <2>8. \A g \in Games : Exists(g) /\ cells[g].state # "None" => cells[g].newAddr \in Games
      BY <2>5
  <2>9. \A s \in Sources : ~mb[s].caching => mb[s].cache = <<>>
      BY <2>6
  <2> QED BY <2>4, <2>6, <2>7, <2>8, <2>9, Zenon DEF Places
<1>2. Legs
    BY DEF Init, Legs, Ups
<1>3. Counts
    BY BoundsAssumption DEF Init, Counts
<1> QED BY <1>1, <1>2, <1>3 DEF TypeInv

-----------------------------------------------------------------------------
(* The steps of the transport, and the removal of the rpc that is executed. *)

LEMMA ForwardType ==
    ASSUME TypeInv, NEW n \in Nodes, NEW gate \in Gates, Forward(n, gate)
    PROVE  TypeInv'
<1> DEFINE l == Head(up[n][gate])
<1>1. up[n][gate] \in Seq(Letters) /\ up[n][gate] # <<>>
    BY DEF TypeInv, Legs, Ups, Forward
<1>2. l \in Letters /\ Tail(up[n][gate]) \in Seq(Letters)
    BY <1>1, HeadTailProperties
<1>3. l.dst \in Nodes
    BY <1>2, LetterAddress
<1>4. up' \in Ups
    BY <1>2 DEF TypeInv, Legs, Ups, Forward
<1>5. down' \in [Gates -> [Nodes -> Seq(Letters)]]
  <2>1. Append(down[gate][l.dst], l) \in Seq(Letters)
      BY <1>2, <1>3 DEF TypeInv, Legs
  <2> QED BY <2>1, <1>3 DEF TypeInv, Legs, Forward
<1> QED BY <1>4, <1>5 DEF TypeInv, Legs, Places, Counts, Forward, bounds, Exists

LEMMA ArriveType ==
    ASSUME TypeInv, NEW n \in Nodes, NEW gate \in Gates, Arrive(gate, n)
    PROVE  TypeInv'
<1> DEFINE l == Head(down[gate][n])
           entry == [letter |-> l, decoded |-> l.to = "cell" => Exists(n)]
<1>1. down[gate][n] \in Seq(Letters) /\ down[gate][n] # <<>>
    BY DEF TypeInv, Legs, Arrive
<1>2. l \in Letters /\ Tail(down[gate][n]) \in Seq(Letters)
    BY <1>1, HeadTailProperties
<1>3. down' \in [Gates -> [Nodes -> Seq(Letters)]]
    BY <1>2 DEF TypeInv, Legs, Arrive
<1>4. imp' \in [Nodes -> Seq([letter : Letters, decoded : BOOLEAN])]
  <2>1. entry \in [letter : Letters, decoded : BOOLEAN]
      BY <1>2
  <2>2. imp' = [imp EXCEPT ![n] = Append(@, entry)]
      BY DEF Arrive
  <2> HIDE DEF entry
  <2>3. /\ imp \in [Nodes -> Seq([letter : Letters, decoded : BOOLEAN])]
        /\ imp[n] \in Seq([letter : Letters, decoded : BOOLEAN])
      BY DEF TypeInv, Legs
  <2>4. Append(imp[n], entry) \in Seq([letter : Letters, decoded : BOOLEAN])
      BY <2>1, <2>3, SeqFacts
  <2> QED BY <2>2, <2>3, <2>4
<1> QED BY <1>3, <1>4 DEF TypeInv, Legs, Places, Counts, Arrive, bounds, Exists

LEMMA TakeType ==
    ASSUME TypeInv, NEW n \in Nodes, NEW to, NEW op, Take(n, to, op)
    PROVE  /\ Head(imp[n]).letter \in Letters
           /\ Head(imp[n]).letter.to = to /\ Head(imp[n]).letter.op = op
           /\ imp' \in [Nodes -> Seq([letter : Letters, decoded : BOOLEAN])]
<1>1. imp[n] \in Seq([letter : Letters, decoded : BOOLEAN]) /\ imp[n] # <<>>
    BY DEF TypeInv, Legs, Take
<1>2. /\ Head(imp[n]) \in [letter : Letters, decoded : BOOLEAN]
      /\ Tail(imp[n]) \in Seq([letter : Letters, decoded : BOOLEAN])
    BY <1>1, HeadTailProperties
<1> QED BY <1>2 DEF TypeInv, Legs, Take

-----------------------------------------------------------------------------
(* The steps of the cells. *)

LEMMA DropType ==
    ASSUME TypeInv, NEW g \in Games, NoSuchCell(g) \/ NullRpc(g)
    PROVE  TypeInv'
<1>1. imp' \in [Nodes -> Seq([letter : Letters, decoded : BOOLEAN])]
    BY TakeType, Owners DEF NoSuchCell, NullRpc
<1>2. crashed' \subseteq Games
    BY DEF NoSuchCell, NullRpc, TypeInv, Counts
<1> QED BY <1>1, <1>2 DEF TypeInv, Legs, Places, Counts, NoSuchCell, NullRpc, bounds, Exists

LEMMA BeginMigrateType ==
    ASSUME TypeInv, NEW g \in Games, NEW newAddr \in Games, BeginMigrate(g, newAddr)
    PROVE  TypeInv'
<1> DEFINE c == [cells[g] EXCEPT !.state = "Prepare", !.timer = TRUE, !.newAddr = newAddr]
<1>1. cells[g] \in CellType
    BY DEF TypeInv, Places, BeginMigrate, Exists
<1>2. c \in CellType /\ c.newAddr \in Games
    BY <1>1 DEF CellType
<1>3. cells' = [cells EXCEPT ![g] = c]
    BY DEF BeginMigrate
<1>4. Places'
  <2> HIDE DEF c
  <2>1. cells' \in [Games -> CellType \cup {NoCell}]
      BY <1>2, <1>3 DEF TypeInv, Places
  <2>2. \A h \in Games : h # g => cells'[h] = cells[h]
      BY <1>3 DEF TypeInv, Places
  <2>3. cells'[g] = c
      BY <1>3 DEF TypeInv, Places
  <2> QED BY <2>1, <2>2, <2>3, <1>2 DEF TypeInv, Places, BeginMigrate, Exists
<1>5. up' \in Ups
    BY TellType DEF TypeInv, Legs, BeginMigrate, OwnerOps
<1>6. migrations' \in 0 .. MaxMigrations
    BY BoundsAssumption DEF TypeInv, Counts, BeginMigrate
<1> QED BY <1>4, <1>5, <1>6 DEF TypeInv, Legs, Counts, BeginMigrate

(* What a change of one cell has to keep. *)
LEMMA CellChange ==
    ASSUME TypeInv, NEW g \in Games, NEW c \in CellType \cup {NoCell},
           cells' = [cells EXCEPT ![g] = c], UNCHANGED mb,
           c # NoCell /\ c.state # "None" => c.newAddr \in Games
    PROVE  Places'
<1>1. cells' \in [Games -> CellType \cup {NoCell}]
    BY DEF TypeInv, Places
<1>2. \A h \in Games : h # g => cells'[h] = cells[h]
    BY DEF TypeInv, Places
<1>3. cells'[g] = c
    BY DEF TypeInv, Places
<1> QED BY <1>1, <1>2, <1>3 DEF TypeInv, Places, Exists

LEMMA MigrateReqackType ==
    ASSUME TypeInv, NEW g \in Games, MigrateReqack(g)
    PROVE  TypeInv'
<1> DEFINE c == [cells[g] EXCEPT !.acks = @ \cup {Arg(g)}]
           packet == [oldAddr |-> g, applied |-> c.applied, own |-> c.own]
<1>1. cells[g] \in CellType /\ cells[g] # NoCell
    BY DEF TypeInv, Places, MigrateReqack, TakeForCell, Exists
<1>2. /\ Head(imp[g]).letter \in Letters /\ Head(imp[g]).letter.to = "cell"
      /\ Head(imp[g]).letter.op = "ack"
      /\ imp' \in [Nodes -> Seq([letter : Letters, decoded : BOOLEAN])]
    BY TakeType, Owners DEF MigrateReqack, TakeForCell
<1>3. Arg(g) \in Sources
    BY <1>2, AckLetter DEF SendRpc, AckRpc, Letter, Arg
<1>4. c \in CellType /\ c.state = cells[g].state /\ c.newAddr = cells[g].newAddr
    BY <1>1, <1>3 DEF CellType
<1>5. c.state # "None" => c.newAddr \in Games
    BY <1>1, <1>4 DEF TypeInv, Places, Exists
<1>6. CASE AckComplete(c)
  <2>1. PICK gate \in Gates : up' = Sent(up, g, Letter(gate, c.newAddr, "game", "migrate", packet))
      BY <1>6 DEF MigrateReqack
  <2>2. packet \in PacketType /\ c.newAddr \in Games
      BY <1>4, <1>5, <1>6 DEF PacketType, CellType, AckComplete
  <2>3. Letter(gate, c.newAddr, "game", "migrate", packet) \in Letters
      BY <2>2 DEF Letters, PacketLetters
  <2>4. up' \in Ups
    <3> HIDE DEF packet, c
    <3> QED BY <2>1, <2>3, SentType, Owners DEF TypeInv, Legs
  <2>5. SentAway(c) \in CellType /\ SentAway(c).newAddr \in Games
      BY <1>4, <2>2 DEF SentAway, CellType
  <2>6. cells' = [cells EXCEPT ![g] = SentAway(c)] /\ UNCHANGED mb
      BY <1>6 DEF MigrateReqack
  <2>7. Places'
    <3> HIDE DEF c
    <3> QED BY <2>5, <2>6, CellChange
  <2> QED BY <2>4, <2>7, <1>2 DEF TypeInv, Legs, Counts, MigrateReqack, bounds
<1>7. CASE ~AckComplete(c)
  <2>1. cells' = [cells EXCEPT ![g] = c] /\ UNCHANGED <<mb, up>>
      BY <1>7 DEF MigrateReqack
  <2>2. Places'
    <3> HIDE DEF c
    <3> QED BY <2>1, <1>4, <1>5, CellChange
  <2> QED BY <2>1, <2>2, <1>2 DEF TypeInv, Legs, Counts, MigrateReqack, bounds
<1> QED BY <1>6, <1>7

LEMMA MigrateFromOldCellType ==
    ASSUME TypeInv, NEW g \in Games, MigrateFromOldCell(g)
    PROVE  TypeInv'
<1> DEFINE packet == Arg(g)
<1>1. /\ Head(imp[g]).letter \in Letters /\ Head(imp[g]).letter.to = "game"
      /\ imp' \in [Nodes -> Seq([letter : Letters, decoded : BOOLEAN])]
    BY TakeType, Owners DEF MigrateFromOldCell
<1>2. packet \in PacketType
    BY <1>1, PacketLetter DEF Letter, Arg
<1>3. NewCell(packet.applied, packet.own) \in CellType
    BY <1>2 DEF NewCell, CellType, PacketType
<1>4. NewCell(packet.applied, packet.own).state = "None"
    BY DEF NewCell
<1>5. cells' = [cells EXCEPT ![g] = NewCell(packet.applied, packet.own)] /\ UNCHANGED mb
    BY DEF MigrateFromOldCell
<1>6. packet.oldAddr \in Games /\ up' = Announced(up, g, packet.oldAddr)
    BY <1>2 DEF MigrateFromOldCell, PacketType
<1> HIDE DEF packet
<1>7. Places'
    BY <1>3, <1>4, <1>5, CellChange
<1>8. up' \in Ups
    BY <1>6, AnnouncedType DEF TypeInv, Legs
<1> QED BY <1>1, <1>7, <1>8 DEF TypeInv, Legs, Counts, MigrateFromOldCell, bounds

LEMMA FinishType ==
    ASSUME TypeInv, NEW g \in Games, NewCellMigrateFinish(g) \/ DestroyCell(g)
    PROVE  TypeInv'
<1>1. cells[g] \in CellType /\ cells[g] # NoCell
    BY DEF TypeInv, Places, NewCellMigrateFinish, DestroyCell, TakeForCell, Exists
<1>2. cells[g].state # "None" => cells[g].newAddr \in Games
    BY <1>1 DEF TypeInv, Places, Exists
<1>3. CASE NewCellMigrateFinish(g)
  <2> DEFINE c == [cells[g] EXCEPT !.dying = TRUE]
  <2>1. c \in CellType /\ c.state = cells[g].state /\ c.newAddr = cells[g].newAddr
      BY <1>1 DEF CellType
  <2>2. cells' = [cells EXCEPT ![g] = c] /\ UNCHANGED mb
      BY <1>3 DEF NewCellMigrateFinish
  <2>3. imp' \in [Nodes -> Seq([letter : Letters, decoded : BOOLEAN])]
      BY <1>3, TakeType, Owners DEF NewCellMigrateFinish, TakeForCell
  <2> HIDE DEF c
  <2>4. Places'
      BY <2>1, <2>2, <1>2, CellChange
  <2> QED BY <1>3, <2>3, <2>4 DEF TypeInv, Legs, Counts, NewCellMigrateFinish, bounds
<1>4. CASE DestroyCell(g)
  <2>1. Places'
      BY <1>4, CellChange DEF DestroyCell
  <2> QED BY <1>4, <2>1 DEF TypeInv, Legs, Counts, DestroyCell, bounds, net
<1> QED BY <1>3, <1>4

LEMMA ExecCallType ==
    ASSUME TypeInv, NEW g \in Games, ExecCall(g)
    PROVE  TypeInv'
<1> DEFINE s == Arg(g)[1]
           a == [cells[g].applied EXCEPT ![s] = Append(@, Arg(g)[2])]
           c == [cells[g] EXCEPT !.applied = a]
<1>1. cells[g] \in CellType /\ cells[g] # NoCell
    BY DEF TypeInv, Places, ExecCall, TakeForCell, Exists
<1>2. /\ Head(imp[g]).letter \in Letters /\ Head(imp[g]).letter.to = "cell"
      /\ Head(imp[g]).letter.op = "call"
      /\ imp' \in [Nodes -> Seq([letter : Letters, decoded : BOOLEAN])]
    BY TakeType, Owners DEF ExecCall, TakeForCell
<1>3. Arg(g) \in Calls
    BY <1>2, CallLetter DEF SendRpc, CallRpc, Letter, Arg
<1>4. s \in Sources /\ Arg(g)[2] \in Nat
    BY <1>3, BoundsAssumption DEF Calls
<1>5. cells[g].applied \in [Sources -> Seq(Nat)]
    BY <1>1 DEF CellType
<1>6. a \in [Sources -> Seq(Nat)]
    BY <1>4, <1>5
<1>7. cells' = [cells EXCEPT ![g] = c] /\ UNCHANGED mb
    BY DEF ExecCall
<1> HIDE DEF a, s
<1>8. c \in CellType /\ c.state = cells[g].state /\ c.newAddr = cells[g].newAddr
    BY <1>1, <1>6 DEF CellType
<1>9. c.state # "None" => c.newAddr \in Games
    BY <1>1, <1>8 DEF TypeInv, Places, Exists
<1> HIDE DEF c
<1>10. Places'
    BY <1>7, <1>8, <1>9, CellChange
<1> QED BY <1>2, <1>10 DEF TypeInv, Legs, Counts, ExecCall, bounds

LEMMA MigrateCheckTimerType ==
    ASSUME TypeInv, NEW g \in Games, MigrateCheckTimer(g)
    PROVE  TypeInv'
<1> DEFINE c == cells[g]
           d == IF c.dying THEN NoCell ELSE RolledBack(c)
<1>1. c \in CellType /\ c # NoCell
    BY DEF TypeInv, Places, MigrateCheckTimer, Exists
<1>2. c.state # "None" => c.newAddr \in Games
    BY <1>1 DEF TypeInv, Places, Exists
<1>3. cells' = [cells EXCEPT ![g] = d] /\ UNCHANGED mb
    BY DEF MigrateCheckTimer
<1>4. RolledBack(c) \in CellType /\ RolledBack(c).state = "None"
    BY <1>1 DEF RolledBack, CellType, Belongings
<1>5. Places'
    BY <1>3, <1>4, CellChange
<1>6. up' \in Ups
  <2>1. up' = RollbackTold(up, g, c)
      BY DEF MigrateCheckTimer
  <2>2. c.state \in {"None", "Prepare", "RealMigrate"}
      BY <1>1 DEF CellType
  <2>3. up \in Ups
      BY DEF TypeInv, Legs
  <2>4. CASE c.state = "None"
      BY <2>1, <2>3, <2>4 DEF RollbackTold
  <2>5. CASE c.state = "Prepare"
      BY <2>1, <2>3, <2>5, TellType DEF RollbackTold, OwnerOps
  <2>6. CASE c.state = "RealMigrate"
      BY <2>1, <2>3, <2>6, <1>2, AnnouncedType DEF RollbackTold
  <2> QED BY <2>2, <2>4, <2>5, <2>6
<1>7. timeouts' \in 0 .. MaxTimeouts
    BY BoundsAssumption DEF TypeInv, Counts, MigrateCheckTimer
<1> QED BY <1>5, <1>6, <1>7 DEF TypeInv, Legs, Counts, MigrateCheckTimer

-----------------------------------------------------------------------------
(* The steps of the owners. *)

(* What a change of one mailbox has to keep. *)
LEMMA BoxChange ==
    ASSUME TypeInv, NEW s \in Sources, NEW box,
           box.addr \in Games, box.caching \in BOOLEAN, box.cache \in Seq(RpcsOf(s)),
           box = [addr |-> box.addr, caching |-> box.caching, cache |-> box.cache],
           ~box.caching => box.cache = <<>>,
           mb' = [mb EXCEPT ![s] = box], UNCHANGED cells
    PROVE  Places'
<1>1. box.cache \in Seq(UNION {RpcsOf(t) : t \in Sources})
  <2>1. RpcsOf(s) \subseteq UNION {RpcsOf(t) : t \in Sources}
      OBVIOUS
  <2> QED BY <2>1
<1>2. box \in Boxes
    BY <1>1 DEF Boxes
<1>3. mb' \in [Sources -> Boxes]
    BY <1>2 DEF TypeInv, Places
<1>4. mb'[s] = box /\ \A t \in Sources : t # s => mb'[t] = mb[t]
    BY DEF TypeInv, Places
<1> QED BY <1>3, <1>4 DEF TypeInv, Places, Exists

LEMMA BoxFields ==
    ASSUME TypeInv, NEW s \in Sources
    PROVE  /\ mb[s].addr \in Games /\ mb[s].caching \in BOOLEAN
           /\ mb[s].cache \in Seq(RpcsOf(s))
           /\ mb[s] = [addr |-> mb[s].addr, caching |-> mb[s].caching, cache |-> mb[s].cache]
           /\ ~mb[s].caching => mb[s].cache = <<>>
<1>1. mb[s] \in Boxes
    BY DEF TypeInv, Places
<1> QED BY <1>1 DEF TypeInv, Places, Boxes

LEMMA MigrateReqType ==
    ASSUME TypeInv, NEW s \in Sources, MigrateReqFromCell(s)
    PROVE  TypeInv'
<1> DEFINE ack == [op |-> "ack", arg |-> s]
<1>1. imp' \in [Nodes -> Seq([letter : Letters, decoded : BOOLEAN])]
    BY TakeType, Owners DEF MigrateReqFromCell
<1>2. ack \in RpcsOf(s)
    BY DEF RpcsOf, AckRpc
<1>3. CASE mb[s].caching
  <2> DEFINE box == [addr |-> mb[s].addr, caching |-> TRUE, cache |-> Append(mb[s].cache, ack)]
  <2>1. mb' = [mb EXCEPT ![s] = box] /\ UNCHANGED <<up, cells>>
      BY <1>3, BoxFields DEF MigrateReqFromCell
  <2>2. Append(mb[s].cache, ack) \in Seq(RpcsOf(s))
    <3> HIDE DEF ack
    <3> QED BY <1>2, BoxFields, SeqFacts, Zenon
  <2>3. Places'
      BY <2>1, <2>2, BoxFields, BoxChange
  <2> QED BY <2>1, <2>3, <1>1 DEF TypeInv, Legs, Counts, MigrateReqFromCell, bounds
<1>4. CASE ~mb[s].caching
  <2> DEFINE box == [addr |-> mb[s].addr, caching |-> TRUE, cache |-> mb[s].cache]
  <2>1. mb' = [mb EXCEPT ![s] = box] /\ up' = Sent(up, At[s], SendRpc(s, mb[s].addr, ack))
      BY <1>4, BoxFields DEF MigrateReqFromCell
  <2>2. SendRpc(s, mb[s].addr, ack) \in Letters
      BY <1>2, BoxFields, RpcLetter
  <2>3. up' \in Ups
    <3> HIDE DEF ack
    <3> QED BY <2>1, <2>2, SentType, Owners DEF TypeInv, Legs
  <2>4. UNCHANGED cells
      BY DEF MigrateReqFromCell
  <2>5. Places'
      BY <2>1, <2>4, BoxFields, BoxChange
  <2> QED BY <2>3, <2>5, <1>1 DEF TypeInv, Legs, Counts, MigrateReqFromCell, bounds
<1> QED BY <1>3, <1>4

LEMMA FlushType ==
    ASSUME TypeInv, NEW s \in Sources, NEW g \in Games
    PROVE  Flush(s, g) \in Seq(Letters) /\ Len(Flush(s, g)) = Len(mb[s].cache)
<1> DEFINE n == Len(mb[s].cache)
           e(i) == SendRpc(s, g, mb[s].cache[i])
<1>1. n \in Nat /\ \A i \in 1 .. n : mb[s].cache[i] \in RpcsOf(s)
    BY BoxFields, SeqFacts, Zenon
<1>2. \A i \in 1 .. n : e(i) \in Letters
    BY <1>1, RpcLetter
<1>3. Flush(s, g) = [i \in 1 .. n |-> e(i)]
    BY DEF Flush
<1> HIDE DEF n, e
<1>4. Flush(s, g) \in Seq(Letters) /\ Len(Flush(s, g)) = n
    BY <1>1, <1>2, <1>3
<1> QED BY <1>4 DEF n

LEMMA NewCellMigrateInType ==
    ASSUME TypeInv, NEW s \in Sources, NewCellMigrateIn(s)
    PROVE  TypeInv'
<1> DEFINE addr == Arg(At[s])
<1>1. /\ imp' \in [Nodes -> Seq([letter : Letters, decoded : BOOLEAN])]
      /\ Head(imp[At[s]]).letter \in Letters /\ Head(imp[At[s]]).letter.to = s
    BY TakeType, Owners DEF NewCellMigrateIn
<1>2. addr \in Games
    BY <1>1, OwnerLetter DEF Arg, ToOwner, Letter
<1>3. mb' = [mb EXCEPT ![s] = StopCache(@, addr)]
    BY DEF NewCellMigrateIn
<1>4. up' = [up EXCEPT ![At[s]][CellGate(s)] = @ \o Flush(s, addr)]
    BY DEF NewCellMigrateIn
<1>5. UNCHANGED <<cells, down, crashed, issued, bounds>>
    BY DEF NewCellMigrateIn
<1> HIDE DEF addr
<1> DEFINE box == [addr |-> addr, caching |-> FALSE, cache |-> <<>>]
<1>6. Places'
  <2>1. mb' = [mb EXCEPT ![s] = box]
      BY <1>3 DEF StopCache
  <2>2. <<>> \in Seq(RpcsOf(s))
      BY NoneQueued, Zenon
  <2> QED BY <2>1, <2>2, <1>2, <1>5, BoxChange
<1>7. up' \in Ups
  <2>1. up[At[s]][CellGate(s)] \in Seq(Letters)
      BY Owners, Routes DEF TypeInv, Legs, Ups
  <2>2. Flush(s, addr) \in Seq(Letters)
      BY <1>2, FlushType
  <2>3. up[At[s]][CellGate(s)] \o Flush(s, addr) \in Seq(Letters)
      BY <2>1, <2>2, ConcatProperties
  <2> QED BY <2>3, <1>4, Owners, Routes DEF TypeInv, Legs, Ups
<1> QED BY <1>1, <1>5, <1>6, <1>7 DEF TypeInv, Legs, Counts, bounds

LEMMA CallCellType ==
    ASSUME TypeInv, NEW s \in Sources, CallCell(s)
    PROVE  TypeInv'
<1> DEFINE rpc == [op |-> "call", arg |-> <<s, issued[s] + 1>>]
<1>1. issued[s] \in Nat /\ issued[s] < MaxCalls[s] /\ MaxCalls[s] \in Nat
    BY BoundsAssumption DEF TypeInv, Counts, CallCell
<1>2. <<s, issued[s] + 1>> \in Calls
    BY <1>1 DEF Calls
<1>3. rpc \in RpcsOf(s)
    BY <1>2 DEF RpcsOf, CallRpc
<1>4. Call(s, rpc) /\ UNCHANGED <<cells, down, imp, crashed, bounds>>
    BY DEF CallCell
<1>5. issued' \in [Sources -> Nat] /\ \A t \in Sources : issued'[t] <= MaxCalls[t]
    BY <1>1 DEF TypeInv, Counts, CallCell
<1> HIDE DEF rpc
<1>6. CASE mb[s].caching
  <2> DEFINE box == [addr |-> mb[s].addr, caching |-> TRUE, cache |-> Append(mb[s].cache, rpc)]
  <2>1. mb' = [mb EXCEPT ![s] = box] /\ UNCHANGED up
      BY <1>4, <1>6, BoxFields DEF Call
  <2>2. Append(mb[s].cache, rpc) \in Seq(RpcsOf(s))
      BY <1>3, BoxFields, SeqFacts, Zenon
  <2>3. Places'
      BY <2>1, <2>2, <1>4, BoxFields, BoxChange
  <2> QED BY <2>1, <2>3, <1>4, <1>5 DEF TypeInv, Legs, Counts, bounds
<1>7. CASE ~mb[s].caching
  <2>1. up' = Sent(up, At[s], SendRpc(s, mb[s].addr, rpc)) /\ UNCHANGED mb
      BY <1>4, <1>7 DEF Call
  <2>2. SendRpc(s, mb[s].addr, rpc) \in Letters
      BY <1>3, BoxFields, RpcLetter
  <2>3. up' \in Ups
      BY <2>1, <2>2, SentType, Owners DEF TypeInv, Legs
  <2>4. Places'
      BY <2>1, <1>4 DEF TypeInv, Places, Exists
  <2> QED BY <2>3, <2>4, <1>4, <1>5 DEF TypeInv, Legs, Counts, bounds
<1> QED BY <1>6, <1>7

LEMMA StepType == TypeInv /\ [Next]_vars => TypeInv'
<1> SUFFICES ASSUME TypeInv, [Next]_vars
             PROVE  TypeInv'
    OBVIOUS
<1>1. CASE Transport
    BY <1>1, ForwardType, ArriveType DEF Transport
<1>2. ASSUME NEW g \in Games, CellStep(g) \/ DestroyCell(g) \/ MigrateCheckTimer(g)
      PROVE  TypeInv'
    BY <1>2, DropType, MigrateReqackType, FinishType, ExecCallType,
       MigrateFromOldCellType, MigrateCheckTimerType DEF CellStep
<1>3. ASSUME NEW g \in Games, NEW newAddr \in Games, BeginMigrate(g, newAddr)
      PROVE  TypeInv'
    BY <1>3, BeginMigrateType
<1>4. ASSUME NEW s \in Sources, OwnerStep(s) \/ CallCell(s)
      PROVE  TypeInv'
    BY <1>4, MigrateReqType, NewCellMigrateInType, CallCellType DEF OwnerStep
<1>5. CASE UNCHANGED vars
    BY <1>5 DEF vars, net, bounds, TypeInv, Places, Legs, Counts, Exists
<1> QED BY <1>1, <1>2, <1>3, <1>4, <1>5 DEF Next

LEMMA Typed == Spec => []TypeInv
<1> QED BY InitType, StepType, PTL DEF Spec

LEMMA LettersTyped ==
    ASSUME TypeInv
    PROVE  InNetwork \subseteq Letters
<1>1. \A n \in Nodes, gate \in Gates : ToSet(up[n][gate]) \subseteq Letters
    BY DEF TypeInv, Legs, Ups, ToSet
<1>2. \A n \in Nodes, gate \in Gates : ToSet(down[gate][n]) \subseteq Letters
    BY DEF TypeInv, Legs, ToSet
<1>3. \A n \in Nodes : \A entry \in ToSet(imp[n]) : entry.letter \in Letters
  <2> SUFFICES ASSUME NEW n \in Nodes, NEW entry \in ToSet(imp[n])
               PROVE  entry.letter \in Letters
      OBVIOUS
  <2>1. imp[n] \in Seq([letter : Letters, decoded : BOOLEAN])
      BY DEF TypeInv, Legs
  <2>2. entry \in [letter : Letters, decoded : BOOLEAN]
      BY <2>1, SeqFacts
  <2> QED BY <2>2
<1> DEFINE U == UNION {ToSet(up[n][gate]) : n \in Nodes, gate \in Gates}
           D == UNION {ToSet(down[gate][n]) : n \in Nodes, gate \in Gates}
           I == {entry.letter : entry \in UNION {ToSet(imp[n]) : n \in Nodes}}
<1>4. I \subseteq Letters
    BY <1>3
<1>5. U \subseteq Letters /\ D \subseteq Letters
    BY <1>1, <1>2
<1>6. InNetwork = U \cup D \cup I
    BY DEF InNetwork
<1> HIDE DEF U, D, I
<1> QED BY <1>4, <1>5, <1>6

LEMMA LetterTypeOK == \A l \in Letters : IsLetter(l)
<1> SUFFICES ASSUME NEW l \in Letters PROVE IsLetter(l)
    OBVIOUS
<1>1. l.via \in Gates /\ l.dst \in Nodes
    BY LetterAddress
<1>2. CASE l \in CallLetters
    BY <1>1, <1>2 DEF CallLetters, SendRpc, CallRpc, Letter, IsLetter, IsCellRpc
<1>3. CASE l \in AckLetters
    BY <1>1, <1>3 DEF AckLetters, SendRpc, AckRpc, Letter, IsLetter, IsCellRpc
<1>4. CASE l \in FinishLetters
    BY <1>1, <1>4 DEF FinishLetters, NewMailBoxCall, Letter, IsLetter, IsCellRpc
<1>5. CASE l \in OwnerLetters
    BY <1>1, <1>5 DEF OwnerLetters, OwnerOps, ToOwner, Letter, IsLetter
<1>6. CASE l \in PacketLetters
    BY <1>1, <1>6 DEF PacketLetters, PacketType, Letter, IsLetter, IsPacket
<1> QED BY <1>2, <1>3, <1>4, <1>5, <1>6 DEF Letters

(* Every cell, mailbox and rpc under way has its type, whatever the games, *)
(* gates and routes, however many migrations begin, time out and are       *)
(* rolled back (entity.cpp, mailbox.h).                                    *)
THEOREM TypeCorrect == Spec => []TypeOK
<1>1. TypeInv => TypeOK
  <2> SUFFICES ASSUME TypeInv PROVE TypeOK
      OBVIOUS
  <2>1. \A letter \in InNetwork : IsLetter(letter)
      BY LettersTyped, LetterTypeOK
  <2>2. \A s \in Sources : \A rpc \in ToSet(mb[s].cache) : IsCellRpc(rpc.op, rpc.arg)
    <3>1. \A s \in Sources : ToSet(mb[s].cache) \subseteq RpcsOf(s)
        BY BoxFields, SeqFacts, Zenon
    <3>2. \A s \in Sources : \A rpc \in RpcsOf(s) : IsCellRpc(rpc.op, rpc.arg)
        BY DEF RpcsOf, CallRpc, AckRpc, IsCellRpc
    <3> QED BY <3>1, <3>2
  <2>3. \A s \in Sources :
           /\ mb[s].addr \in Games /\ mb[s].caching \in BOOLEAN
           /\ ~mb[s].caching => mb[s].cache = <<>>
      BY BoxFields
  <2>4. cells \in [Games -> CellType \cup {NoCell}]
      BY DEF TypeInv, Places
  <2>5. /\ crashed \subseteq Games
        /\ issued \in [Sources -> Nat] /\ \A s \in Sources : issued[s] <= MaxCalls[s]
        /\ migrations \in 0 .. MaxMigrations /\ timeouts \in 0 .. MaxTimeouts
      BY DEF TypeInv, Counts
  <2>6. \A s \in Sources :
           /\ mb[s].addr \in Games /\ mb[s].caching \in BOOLEAN
           /\ \A rpc \in ToSet(mb[s].cache) : IsCellRpc(rpc.op, rpc.arg)
           /\ ~mb[s].caching => mb[s].cache = <<>>
    <3> SUFFICES ASSUME NEW s \in Sources
                 PROVE  /\ mb[s].addr \in Games /\ mb[s].caching \in BOOLEAN
                        /\ \A rpc \in ToSet(mb[s].cache) : IsCellRpc(rpc.op, rpc.arg)
                        /\ ~mb[s].caching => mb[s].cache = <<>>
        OBVIOUS
    <3>1. \A rpc \in ToSet(mb[s].cache) : IsCellRpc(rpc.op, rpc.arg)
        BY <2>2
    <3>2. mb[s].caching \in BOOLEAN
        BY <2>3
    <3>3. mb[s].addr \in Games /\ (~mb[s].caching => mb[s].cache = <<>>)
        BY <2>3
    <3> QED BY <3>1, <3>2, <3>3
  <2> QED BY <2>1, <2>4, <2>5, <2>6, Zenon DEF TypeOK
<1> QED BY <1>1, Typed, PTL

-----------------------------------------------------------------------------
(* No timer fires, and either everything goes through one gate or there is *)
(* one migration.  Otherwise a packet back to an old cell, which goes by   *)
(* any gate, may overtake the word that the old cell is to go.             *)
LoneGate == Gates = {ClientGate}
Ordered == MaxTimeouts = 0 /\ (LoneGate \/ MaxMigrations <= 1)

-----------------------------------------------------------------------------
(* The queues of the network as one function, by how far along the way     *)
(* they are: to the gates, from the gates, and decoded.                    *)
Where == {1, 2, 3} \X Nodes \X Gates
Stage == [w \in Where |-> w[1]]

Up(n, gate) == <<1, n, gate>>
Down(gate, n) == <<2, n, gate>>
Imp(n) == <<3, n, ClientGate>>

LettersOf(entries) == [i \in 1 .. Len(entries) |-> entries[i].letter]

Queues(u, d, m) ==
    [w \in Where |->
        IF w[1] = 1 THEN u[w[2]][w[3]]
        ELSE IF w[1] = 2 THEN d[w[3]][w[2]]
        ELSE IF w[3] = ClientGate THEN LettersOf(m[w[2]]) ELSE <<>>]

Mail == Queues(up, down, imp)

(* The letters by kind. *)
Pk == {l \in Letters : l.op = "migrate"}
PkTo(g) == {l \in Pk : l.dst = g}
PkOf(g) == {l \in Pk : l.arg.oldAddr = g}
Fins == {l \in Letters : l.op = "finish"}
Fin(g) == {l \in Fins : l.dst = g}
AckOf(s) == {l \in Letters : l.op = "ack" /\ l.arg = s}
CallsOf(s) == {l \in Letters : l.op = "call" /\ l.arg[1] = s}
Req(s) == {l \in Letters : l.op = "migrate_req_from_cell" /\ l.to = s}
New(s) == {l \in Letters : l.op = "new_cell_migrate_in" /\ l.to = s}

SeatKinds == Pk \cup Fins
ToCell(s) == AckOf(s) \cup CallsOf(s)
FromCell(s) == Req(s) \cup New(s)
OwnerKinds(s) == ToCell(s) \cup FromCell(s)

(* Every letter is on the way to its destination, through its gate. *)
Placed(q) ==
    \A w \in Where : \A i \in 1 .. Len(q[w]) :
        /\ w[1] # 3 => q[w][i].via = w[3]
        /\ w[1] # 1 => q[w][i].dst = w[2]
        /\ w[1] = 3 => w[3] = ClientGate

-----------------------------------------------------------------------------
(* What the cells are: in charge; among these, migrating; the owners that  *)
(* have acknowledged; and the old ones that are not marked.                *)
Prep == {g \in Live : cells[g].state = "Prepare"}
Acks == UNION {cells[g].acks : g \in Live}
Old == {g \in Frozen : ~cells[g].dying}

CellsInv ==
    \A g \in Live :
        /\ ~cells[g].dying
        /\ cells[g].state = "None" => cells[g].acks = {}
        /\ cells[g].state = "Prepare" => cells[g].acks # Sources /\ cells[g].newAddr # g

DecodedInv ==
    /\ crashed = {} /\ timeouts = 0
    /\ \A n \in Nodes : \A i \in 1 .. Len(imp[n]) : imp[n][i].decoded

(* There is one cell in charge, or one packet under way ... *)
Seat(q, live) ==
    /\ Free(q, Pk) <=> live # {}
    /\ Single(q, Pk)
    /\ \A g, h \in live : g = h
    /\ Free(q, {l \in Pk : l.dst = l.arg.oldAddr})

(* ... and an old cell goes in three steps: its packet is under way, the   *)
(* new cell's word is under way, it is marked.                             *)
OldCell(q, g, old) ==
    /\ Single(q, Fin(g))
    /\ Free(q, Fin(g)) \/ g \in old
    /\ Free(q, PkOf(g)) \/ (g \in old /\ Free(q, Fin(g)))

(* A packet back to an old cell does not overtake the new cell's word. *)
NoReturn(q, live) ==
    LoneGate =>
        /\ \A g \in Games : Ahead(q, Stage, Fin(g), PkTo(g))
        /\ JoinAhead(q, Stage, Fins, Pk)
        /\ \A g \in live : JoinAt(q, Stage, Fins, Up(g, ClientGate))

OneMigration(q, begun, prep) ==
    ~LoneGate =>
        /\ begun = 0 => Free(q, Fins) /\ Free(q, Pk) /\ prep = {}
        /\ Free(q, Fins) \/ (Free(q, Pk) /\ prep = {})

SeatInv(q, live, prep, old, begun) ==
    /\ Seat(q, live)
    /\ \A g \in Games : OldCell(q, g, old)
    /\ NoReturn(q, live)
    /\ OneMigration(q, begun, prep)

-----------------------------------------------------------------------------
(* The rpcs between owner s and the cell.  live, prep and acks are what    *)
(* Live, Prep and Acks are, box the mailbox.                               *)
OwnerVia(g, s) == ToOwner(g, s, "new_cell_migrate_in").via

Traffic(q, s, live) ==
    /\ Free(q, {l \in ToCell(s) : l.dst \notin live})
    /\ Free(q, {l \in FromCell(s) : l.arg \notin live})
    /\ Single(q, New(s)) /\ Single(q, Req(s)) /\ Single(q, AckOf(s))
    /\ Ahead(q, Stage, New(s), Req(s))
    /\ Ahead(q, Stage, CallsOf(s), AckOf(s))
    /\ JoinAt(q, Stage, CallsOf(s), Up(At[s], CellGate(s)))
    /\ \A g \in live : JoinAt(q, Stage, New(s), Up(g, OwnerVia(g, s)))

(* How far an owner is: it calls the cell; it has been asked and its       *)
(* acknowledgement is under way, or has arrived (and the cell may have     *)
(* left); the cell has come and has not been heard of.                     *)
Calling(q, s, box, live, prep, acks) ==
    /\ ~box.caching /\ box.addr \in live
    /\ Free(q, New(s)) /\ Free(q, AckOf(s)) /\ s \notin acks
    /\ Free(q, Req(s)) <=> prep = {}

Acking(q, s, box, prep, acks) ==
    /\ box.caching /\ prep # {}
    /\ Free(q, New(s)) /\ Free(q, Req(s)) /\ ~Free(q, AckOf(s)) /\ s \notin acks

Waiting(q, s, box, live, prep, acks) ==
    /\ box.caching
    /\ Free(q, New(s)) /\ Free(q, Req(s)) /\ Free(q, AckOf(s)) /\ Free(q, CallsOf(s))
    /\ live # {} => prep # {} /\ s \in acks

Unaware(q, s, box, prep, acks) ==
    /\ box.caching
    /\ ~Free(q, New(s)) /\ Free(q, AckOf(s)) /\ Free(q, CallsOf(s)) /\ s \notin acks
    /\ Free(q, Req(s)) <=> prep = {}

Phase(q, s, box, live, prep, acks) ==
    \/ Calling(q, s, box, live, prep, acks) \/ Acking(q, s, box, prep, acks)
    \/ Waiting(q, s, box, live, prep, acks) \/ Unaware(q, s, box, prep, acks)

OnlyCalls(s, cache) ==
    \A i \in 1 .. Len(cache) : cache[i] \in {CallRpc(c) : c \in {c \in Calls : c[1] = s}}

OwnerInv(q, s, box, live, prep, acks) ==
    /\ Traffic(q, s, live)
    /\ Phase(q, s, box, live, prep, acks)
    /\ OnlyCalls(s, box.cache)

AuthorityInv ==
    /\ CellsInv /\ DecodedInv /\ Placed(Mail)
    /\ SeatInv(Mail, Live, Prep, Old, migrations)
    /\ \A s \in Sources : OwnerInv(Mail, s, mb[s], Live, Prep, Acks)

-----------------------------------------------------------------------------
LEMMA Stages ==
    /\ Stage \in [Where -> Nat]
    /\ \A w \in Where : Stage[w] = w[1] /\ w[1] \in {1, 2, 3} /\ w[2] \in Nodes /\ w[3] \in Gates
    /\ \A n \in Nodes, gate \in Gates :
          /\ Up(n, gate) \in Where /\ Stage[Up(n, gate)] = 1
          /\ Down(gate, n) \in Where /\ Stage[Down(gate, n)] = 2
    /\ \A n \in Nodes : Imp(n) \in Where /\ Stage[Imp(n)] = 3
<1>1. ASSUME NEW w \in Where
      PROVE  w[1] \in {1, 2, 3} /\ w[2] \in Nodes /\ w[3] \in Gates
    BY DEF Where
<1>2. ASSUME NEW k \in {1, 2, 3}, NEW n \in Nodes, NEW gate \in Gates
      PROVE  <<k, n, gate>> \in Where /\ <<k, n, gate>>[1] = k
    BY DEF Where
<1>3. \A w \in Where : Stage[w] = w[1]
    BY DEF Stage
<1>4. Stage \in [Where -> Nat]
    BY <1>1 DEF Stage
<1>5. ASSUME NEW n \in Nodes, NEW gate \in Gates
      PROVE  /\ Up(n, gate) \in Where /\ Stage[Up(n, gate)] = 1
             /\ Down(gate, n) \in Where /\ Stage[Down(gate, n)] = 2
             /\ Imp(n) \in Where /\ Stage[Imp(n)] = 3
    BY <1>2, <1>3, Routes DEF Up, Down, Imp
<1> QED BY <1>1, <1>3, <1>4, <1>5, Routes

LEMMA LettersOfType ==
    ASSUME NEW m \in Seq([letter : Letters, decoded : BOOLEAN])
    PROVE  /\ LettersOf(m) \in Seq(Letters) /\ Len(LettersOf(m)) = Len(m)
           /\ \A i \in 1 .. Len(m) : LettersOf(m)[i] = m[i].letter
<1>1. Len(m) \in Nat /\ \A i \in 1 .. Len(m) : m[i] \in [letter : Letters, decoded : BOOLEAN]
    BY SeqFacts, Zenon
<1>2. \A i \in 1 .. Len(m) : m[i].letter \in Letters
    BY <1>1
<1> QED BY <1>1, <1>2 DEF LettersOf

Ups3 == [Gates -> [Nodes -> Seq(Letters)]]
Imps == [Nodes -> Seq([letter : Letters, decoded : BOOLEAN])]

LEMMA QueuesType ==
    ASSUME NEW u \in Ups, NEW d \in Ups3, NEW m \in Imps
    PROVE  /\ Queues(u, d, m) \in [Where -> Seq(Letters)]
           /\ \A n \in Nodes, gate \in Gates :
                 /\ Queues(u, d, m)[Up(n, gate)] = u[n][gate]
                 /\ Queues(u, d, m)[Down(gate, n)] = d[gate][n]
           /\ \A n \in Nodes : Queues(u, d, m)[Imp(n)] = LettersOf(m[n])
<1>1. ASSUME NEW w \in Where
      PROVE  Queues(u, d, m)[w] \in Seq(Letters)
  <2>1. u[w[2]][w[3]] \in Seq(Letters) /\ d[w[3]][w[2]] \in Seq(Letters)
      BY Stages DEF Ups, Ups3
  <2>2. LettersOf(m[w[2]]) \in Seq(Letters)
      BY Stages, LettersOfType DEF Imps
  <2>3. <<>> \in Seq(Letters)
      BY NoneQueued
  <2> QED BY <2>1, <2>2, <2>3 DEF Queues
<1>2. ASSUME NEW n \in Nodes, NEW gate \in Gates
      PROVE  /\ Queues(u, d, m)[Up(n, gate)] = u[n][gate]
             /\ Queues(u, d, m)[Down(gate, n)] = d[gate][n]
             /\ Queues(u, d, m)[Imp(n)] = LettersOf(m[n])
    BY Stages, Routes DEF Queues, Up, Down, Imp
<1>3. Queues(u, d, m) = [w \in Where |-> Queues(u, d, m)[w]]
    BY DEF Queues
<1> QED BY <1>1, <1>2, <1>3, Routes

LEMMA MailType ==
    ASSUME TypeInv
    PROVE  /\ up \in Ups /\ down \in Ups3 /\ imp \in Imps
           /\ Mail \in [Where -> Seq(Letters)]
BY QueuesType DEF TypeInv, Legs, Ups3, Imps, Mail

(* What the steps do to the queues.                                        *)
Extended(u, n, gate, ls) == [u EXCEPT ![n][gate] = @ \o ls]

LEMMA ExtendedJoins ==
    ASSUME NEW u \in Ups, NEW d \in Ups3, NEW m \in Imps, NEW n \in Nodes,
           NEW gate \in Gates, NEW ls \in Seq(Letters)
    PROVE  Queues(Extended(u, n, gate, ls), d, m) = Joined(Queues(u, d, m), Up(n, gate), ls)
<1> DEFINE v == Extended(u, n, gate, ls)
<1>0. v = [u EXCEPT ![n][gate] = @ \o ls]
    BY DEF Extended
<1> HIDE DEF v
<1>1. Queues(u, d, m) \in [Where -> Seq(Letters)] /\ Queues(u, d, m)[Up(n, gate)] = u[n][gate]
    BY QueuesType
<1>2. Joined(Queues(u, d, m), Up(n, gate), ls)
          = [w \in Where |-> IF w = Up(n, gate) THEN u[n][gate] \o ls ELSE Queues(u, d, m)[w]]
    BY <1>1, Stages DEF Joined
<1>3. ASSUME NEW w \in Where
      PROVE  Queues(v, d, m)[w]
                 = IF w = Up(n, gate) THEN u[n][gate] \o ls ELSE Queues(u, d, m)[w]
  <2>1. CASE w = Up(n, gate)
    <3>1. w[1] = 1 /\ w[2] = n /\ w[3] = gate
        BY <2>1 DEF Up
    <3>2. v[n][gate] = u[n][gate] \o ls
        BY <1>0 DEF Ups
    <3> QED BY <2>1, <3>1, <3>2 DEF Queues
  <2>2. CASE w # Up(n, gate)
    <3>1. w[1] = 1 => v[w[2]][w[3]] = u[w[2]][w[3]]
      <4>1. w[1] = 1 => ~(w[2] = n /\ w[3] = gate)
          BY <2>2 DEF Up, Where
      <4> QED BY <1>0, <4>1, Stages DEF Ups
    <3> QED BY <2>2, <3>1 DEF Queues
  <2> QED BY <2>1, <2>2
<1>4. Queues(v, d, m) = [w \in Where |-> Queues(v, d, m)[w]]
    BY DEF Queues
<1> QED BY <1>2, <1>3, <1>4 DEF v

LEMMA SentJoined ==
    ASSUME NEW u \in Ups, NEW d \in Ups3, NEW m \in Imps, NEW n \in Nodes, NEW l \in Letters
    PROVE  /\ Queues(Sent(u, n, l), d, m) = Joined(Queues(u, d, m), Up(n, l.via), <<l>>)
           /\ Sent(u, n, l) \in Ups /\ <<l>> \in Seq(Letters) /\ Up(n, l.via) \in Where
<1>1. l.via \in Gates /\ <<l>> \in Seq(Letters)
    BY LetterAddress
<1>2. u[n][l.via] \in Seq(Letters)
    BY <1>1 DEF Ups
<1>3. Append(u[n][l.via], l) = u[n][l.via] \o <<l>>
    BY <1>2, <1>1, AppendIsConcat, Zenon
<1>4. Sent(u, n, l) = Extended(u, n, l.via, <<l>>)
  <2> DEFINE x == Append(u[n][l.via], l)
  <2>1. Sent(u, n, l) = [u EXCEPT ![n][l.via] = x]
      BY DEF Sent
  <2>2. Extended(u, n, l.via, <<l>>) = [u EXCEPT ![n][l.via] = u[n][l.via] \o <<l>>]
      BY DEF Extended
  <2>3. x = u[n][l.via] \o <<l>>
      BY <1>3
  <2> HIDE DEF x
  <2> QED BY <2>1, <2>2, <2>3
<1>5. Queues(Sent(u, n, l), d, m) = Joined(Queues(u, d, m), Up(n, l.via), <<l>>)
  <2>1. ASSUME NEW gate \in Gates, NEW ls \in Seq(Letters)
        PROVE  Queues(Extended(u, n, gate, ls), d, m) = Joined(Queues(u, d, m), Up(n, gate), ls)
      BY ExtendedJoins, Zenon
  <2>2. l.via \in Gates /\ <<l>> \in Seq(Letters)
      BY <1>1
  <2> QED BY <2>1, <2>2, <1>4, Zenon
<1> QED BY <1>1, <1>5, SentType, Stages

Entries == [letter : Letters, decoded : BOOLEAN]

LEMMA LettersOfTail ==
    ASSUME NEW m \in Seq(Entries), m # <<>>
    PROVE  /\ LettersOf(Tail(m)) = Tail(LettersOf(m)) /\ LettersOf(m) # <<>>
           /\ Head(LettersOf(m)) = Head(m).letter
<1>1. /\ Len(m) \in Nat /\ Len(m) > 0 /\ Tail(m) \in Seq(Entries)
      /\ Len(Tail(m)) = Len(m) - 1 /\ \A i \in 1 .. Len(m) - 1 : Tail(m)[i] = m[i + 1]
      /\ Head(m) = m[1]
    OBVIOUS
<1>2. /\ LettersOf(m) \in Seq(Letters) /\ Len(LettersOf(m)) = Len(m)
      /\ \A i \in 1 .. Len(m) : LettersOf(m)[i] = m[i].letter
    BY LettersOfType DEF Entries
<1>3. /\ LettersOf(Tail(m)) \in Seq(Letters) /\ Len(LettersOf(Tail(m))) = Len(m) - 1
      /\ \A i \in 1 .. Len(m) - 1 : LettersOf(Tail(m))[i] = Tail(m)[i].letter
    BY <1>1, LettersOfType DEF Entries
<1>4. LettersOf(m) # <<>>
    BY <1>1, <1>2
<1>5. /\ Tail(LettersOf(m)) \in Seq(Letters) /\ Len(Tail(LettersOf(m))) = Len(m) - 1
      /\ \A i \in 1 .. Len(m) - 1 : Tail(LettersOf(m))[i] = LettersOf(m)[i + 1]
      /\ Head(LettersOf(m)) = LettersOf(m)[1]
    BY <1>1, <1>2, <1>4
<1>6. ASSUME NEW i \in 1 .. Len(m) - 1
      PROVE  LettersOf(Tail(m))[i] = Tail(LettersOf(m))[i]
  <2>1. i + 1 \in 1 .. Len(m)
      BY <1>1
  <2> QED BY <2>1, <1>1, <1>2, <1>3, <1>5
<1>7. LettersOf(Tail(m)) = Tail(LettersOf(m))
    BY <1>1, <1>3, <1>5, <1>6, SeqEqual
<1> QED BY <1>1, <1>2, <1>4, <1>5, <1>7

LEMMA LettersOfAppend ==
    ASSUME NEW m \in Seq(Entries), NEW e \in Entries
    PROVE  LettersOf(Append(m, e)) = Append(LettersOf(m), e.letter)
<1>1. /\ Len(m) \in Nat /\ Append(m, e) \in Seq(Entries) /\ Len(Append(m, e)) = Len(m) + 1
      /\ \A i \in 1 .. Len(m) : Append(m, e)[i] = m[i]
      /\ Append(m, e)[Len(m) + 1] = e
    OBVIOUS
<1>2. /\ LettersOf(m) \in Seq(Letters) /\ Len(LettersOf(m)) = Len(m)
      /\ \A i \in 1 .. Len(m) : LettersOf(m)[i] = m[i].letter
    BY LettersOfType DEF Entries
<1>3. /\ LettersOf(Append(m, e)) \in Seq(Letters) /\ Len(LettersOf(Append(m, e))) = Len(m) + 1
      /\ \A i \in 1 .. Len(m) + 1 : LettersOf(Append(m, e))[i] = Append(m, e)[i].letter
    BY <1>1, LettersOfType DEF Entries
<1>4. e.letter \in Letters
    BY DEF Entries
<1>5. /\ Append(LettersOf(m), e.letter) \in Seq(Letters)
      /\ Len(Append(LettersOf(m), e.letter)) = Len(m) + 1
      /\ \A i \in 1 .. Len(m) : Append(LettersOf(m), e.letter)[i] = LettersOf(m)[i]
      /\ Append(LettersOf(m), e.letter)[Len(m) + 1] = e.letter
    BY <1>2, <1>4
<1>6. ASSUME NEW i \in 1 .. Len(m) + 1
      PROVE  LettersOf(Append(m, e))[i] = Append(LettersOf(m), e.letter)[i]
  <2>1. CASE i \in 1 .. Len(m)
      BY <2>1, <1>1, <1>2, <1>3, <1>5
  <2>2. CASE i = Len(m) + 1
      BY <2>2, <1>1, <1>3, <1>5
  <2>3. Len(m) \in Nat
      OBVIOUS
  <2>4. i \in 1 .. Len(m) \/ i = Len(m) + 1
      BY <2>3
  <2> QED BY <2>1, <2>2, <2>4
<1> QED BY <1>1, <1>3, <1>5, <1>6, SeqEqual

(* The main thread takes the next letter of n.                             *)
LEMMA TakeMail ==
    ASSUME NEW u \in Ups, NEW d \in Ups3, NEW m \in Imps, NEW n \in Nodes, m[n] # <<>>
    PROVE  /\ Queues(u, d, [m EXCEPT ![n] = Tail(@)]) = Taken(Queues(u, d, m), Imp(n))
           /\ [m EXCEPT ![n] = Tail(@)] \in Imps
           /\ Queues(u, d, m)[Imp(n)] # <<>>
           /\ Head(Queues(u, d, m)[Imp(n)]) = Head(m[n]).letter
           /\ Head(m[n]).letter \in Letters
<1> DEFINE q == Queues(u, d, m)
           x == [m EXCEPT ![n] = Tail(@)]
<1>1. m[n] \in Seq(Entries)
    BY DEF Imps, Entries
<1>2. Tail(m[n]) \in Seq(Entries) /\ Head(m[n]) \in Entries
    BY <1>1
<1>3. x \in Imps /\ x[n] = Tail(m[n]) /\ \A k \in Nodes : k # n => x[k] = m[k]
    BY <1>2 DEF Imps, Entries
<1>4. /\ LettersOf(Tail(m[n])) = Tail(LettersOf(m[n])) /\ LettersOf(m[n]) # <<>>
      /\ Head(LettersOf(m[n])) = Head(m[n]).letter
    BY <1>1, LettersOfTail
<1>5. q[Imp(n)] = LettersOf(m[n]) /\ q \in [Where -> Seq(Letters)]
    BY QueuesType
<1>6. Taken(q, Imp(n)) = [w \in Where |-> IF w = Imp(n) THEN Tail(LettersOf(m[n])) ELSE q[w]]
    BY <1>5, Stages DEF Taken
<1> HIDE DEF x
<1>7. ASSUME NEW w \in Where
      PROVE  Queues(u, d, x)[w] = IF w = Imp(n) THEN Tail(LettersOf(m[n])) ELSE q[w]
  <2>1. CASE w = Imp(n)
    <3>1. w[1] = 3 /\ w[2] = n /\ w[3] = ClientGate
        BY <2>1 DEF Imp
    <3> QED BY <2>1, <3>1, <1>3, <1>4 DEF Queues
  <2>2. CASE w # Imp(n)
    <3>1. w[1] = 3 /\ w[3] = ClientGate => w[2] # n
        BY <2>2 DEF Imp, Where
    <3>2. w[1] = 3 /\ w[3] = ClientGate => x[w[2]] = m[w[2]]
        BY <3>1, <1>3, Stages
    <3>3. w[1] \in {1, 2, 3}
        BY Stages
    <3> QED BY <2>2, <3>2, <3>3 DEF Queues
  <2> QED BY <2>1, <2>2
<1>8. Queues(u, d, x) = [w \in Where |-> Queues(u, d, x)[w]]
    BY DEF Queues
<1>9. Queues(u, d, x) = Taken(q, Imp(n))
    BY <1>6, <1>7, <1>8
<1>10. Head(m[n]).letter \in Letters
    BY <1>2 DEF Entries
<1> QED BY <1>3, <1>4, <1>5, <1>9, <1>10 DEF x

(* A letter goes from its gate towards its destination.                    *)
LEMMA ForwardMail ==
    ASSUME TypeInv, NEW n \in Nodes, NEW gate \in Gates, Forward(n, gate),
           NEW h, h = Head(up[n][gate])
    PROVE  Queues(up', down', imp) = Moved(Mail, Up(n, gate), Down(gate, h.dst))
<1>0. up \in Ups /\ down \in Ups3 /\ imp \in Imps /\ up[n][gate] # <<>>
    BY MailType DEF Forward
<1>00. /\ up' = [up EXCEPT ![n][gate] = Tail(@)]
       /\ down' = [down EXCEPT ![gate][h.dst] = Append(@, h)]
    BY DEF Forward
<1> DEFINE q == Mail
           a == Up(n, gate)
           b == Down(gate, h.dst)
<1>1. up[n][gate] \in Seq(Letters)
    BY <1>0 DEF Ups
<1>2. h \in Letters
    BY <1>0, <1>1
<1>3. h.dst \in Nodes
    BY <1>2, LetterAddress
<1>4. q \in [Where -> Seq(Letters)] /\ q[a] = up[n][gate] /\ q[b] = down[gate][h.dst]
    BY <1>0, QueuesType, <1>3 DEF Mail
<1>5. a \in Where /\ b \in Where /\ a # b /\ Stage[a] = 1 /\ Stage[b] = 2
    BY Stages, <1>3
<1>6. Moved(q, a, b)
        = [w \in Where |-> IF w = a THEN Tail(up[n][gate])
                           ELSE IF w = b THEN Append(down[gate][h.dst], h) ELSE q[w]]
    BY <1>4, <1>5 DEF Moved
<1>7. up'[n][gate] = Tail(up[n][gate])
      /\ \A k \in Nodes, g \in Gates : ~(k = n /\ g = gate) => up'[k][g] = up[k][g]
    BY <1>0, <1>00 DEF Ups
<1>8. down'[gate][h.dst] = Append(down[gate][h.dst], h)
      /\ \A k \in Nodes, g \in Gates : ~(k = h.dst /\ g = gate) => down'[g][k] = down[g][k]
    BY <1>0, <1>00, <1>3 DEF Ups3
<1>9. ASSUME NEW w \in Where
      PROVE  Queues(up', down', imp)[w] = IF w = a THEN Tail(up[n][gate])
                                  ELSE IF w = b THEN Append(down[gate][h.dst], h) ELSE q[w]
  <2>0. w[1] \in {1, 2, 3} /\ w[2] \in Nodes /\ w[3] \in Gates /\ w = <<w[1], w[2], w[3]>>
      BY DEF Where
  <2>1. CASE w[1] = 1
    <3>1. w # b /\ (w = a <=> w[2] = n /\ w[3] = gate)
        BY <2>0, <2>1 DEF Up, Down
    <3> QED BY <2>0, <2>1, <3>1, <1>7 DEF Queues, Mail
  <2>2. CASE w[1] = 2
    <3>1. w # a /\ (w = b <=> w[2] = h.dst /\ w[3] = gate)
        BY <2>0, <2>2 DEF Up, Down
    <3>2. Queues(up', down', imp)[w] = down'[w[3]][w[2]] /\ q[w] = down[w[3]][w[2]]
        BY <2>2 DEF Queues, Mail
    <3>3. w # b => down'[w[3]][w[2]] = down[w[3]][w[2]]
        BY <2>0, <3>1, <1>8, Zenon
    <3>4. w = b => down'[w[3]][w[2]] = Append(down[gate][h.dst], h)
        BY <3>1, <1>8, Zenon
    <3> QED BY <3>1, <3>2, <3>3, <3>4
  <2>3. CASE w[1] = 3
    <3>1. w # a /\ w # b
        BY <2>3 DEF Up, Down
    <3> QED BY <2>3, <3>1 DEF Queues, Mail
  <2> QED BY <2>0, <2>1, <2>2, <2>3
<1>10. Queues(up', down', imp) = [w \in Where |-> Queues(up', down', imp)[w]]
    BY DEF Queues, Mail
<1> QED BY <1>6, <1>9, <1>10

LEMMA ArriveMail ==
    ASSUME TypeInv, NEW n \in Nodes, NEW gate \in Gates, Arrive(gate, n),
           NEW h, h = Head(down[gate][n]), NEW b, b = (h.to = "cell" => Exists(n))
    PROVE  Queues(up, down', imp') = Moved(Mail, Down(gate, n), Imp(n))
<1>0. /\ up \in Ups /\ down \in Ups3 /\ imp \in Imps /\ down[gate][n] # <<>>
      /\ down' = [down EXCEPT ![gate][n] = Tail(@)]
      /\ imp' = [imp EXCEPT ![n] = Append(@, [letter |-> h, decoded |-> b])]
      /\ b \in BOOLEAN
    BY MailType DEF Arrive
<1> DEFINE q == Mail
           from == Down(gate, n)
           into == Imp(n)
           entry == [letter |-> h, decoded |-> b]
<1>1. down[gate][n] \in Seq(Letters) /\ imp[n] \in Seq(Entries)
    BY <1>0 DEF Ups3, Imps, Entries
<1>2. h \in Letters
    BY <1>0, <1>1
<1>3. entry \in Entries /\ entry.letter = h
    BY <1>0, <1>2 DEF Entries
<1>4. q \in [Where -> Seq(Letters)] /\ q[from] = down[gate][n] /\ q[into] = LettersOf(imp[n])
    BY <1>0, QueuesType DEF Mail
<1>5. from \in Where /\ into \in Where /\ from # into
    BY Stages
<1>6. Moved(q, from, into)
        = [w \in Where |-> IF w = from THEN Tail(down[gate][n])
                           ELSE IF w = into THEN Append(LettersOf(imp[n]), h) ELSE q[w]]
    BY <1>4, <1>5 DEF Moved
<1>7. down'[gate][n] = Tail(down[gate][n])
      /\ \A k \in Nodes, g \in Gates : ~(k = n /\ g = gate) => down'[g][k] = down[g][k]
    BY <1>0 DEF Ups3
<1>8. imp'[n] = Append(imp[n], entry) /\ \A k \in Nodes : k # n => imp'[k] = imp[k]
    BY <1>0 DEF Imps
<1>9. LettersOf(imp'[n]) = Append(LettersOf(imp[n]), h)
    BY <1>8, <1>1, <1>3, LettersOfAppend
<1>10. ASSUME NEW w \in Where
       PROVE  Queues(up, down', imp')[w] = IF w = from THEN Tail(down[gate][n])
                                   ELSE IF w = into THEN Append(LettersOf(imp[n]), h) ELSE q[w]
  <2>0. w[1] \in {1, 2, 3} /\ w[2] \in Nodes /\ w[3] \in Gates /\ w = <<w[1], w[2], w[3]>>
      BY DEF Where
  <2>1. CASE w[1] = 1
    <3>1. w # from /\ w # into
        BY <2>1 DEF Down, Imp
    <3> QED BY <2>1, <3>1 DEF Queues, Mail
  <2>2. CASE w[1] = 2
    <3>1. w # into /\ (w = from <=> w[2] = n /\ w[3] = gate)
        BY <2>0, <2>2 DEF Down, Imp
    <3> QED BY <2>0, <2>2, <3>1, <1>7 DEF Queues, Mail
  <2>3. CASE w[1] = 3
    <3>1. w # from /\ (w = into <=> w[2] = n /\ w[3] = ClientGate)
        BY <2>0, <2>3 DEF Down, Imp
    <3>2. /\ Queues(up, down', imp')[w] = IF w[3] = ClientGate THEN LettersOf(imp'[w[2]]) ELSE <<>>
          /\ q[w] = IF w[3] = ClientGate THEN LettersOf(imp[w[2]]) ELSE <<>>
        BY <2>3 DEF Queues, Mail
    <3>3. w = into => LettersOf(imp'[w[2]]) = Append(LettersOf(imp[n]), h)
        BY <3>1, <1>9, Zenon
    <3>4. w # into /\ w[3] = ClientGate => imp'[w[2]] = imp[w[2]]
        BY <2>0, <3>1, <1>8, Zenon
    <3> QED BY <3>1, <3>2, <3>3, <3>4
  <2> QED BY <2>0, <2>1, <2>2, <2>3
<1>11. Queues(up, down', imp') = [w \in Where |-> Queues(up, down', imp')[w]]
    BY DEF Queues, Mail
<1> QED BY <1>6, <1>10, <1>11

-----------------------------------------------------------------------------
(* What the letters of a kind have in common.                              *)
LEMMA ForCell ==
    ASSUME NEW l \in Letters, l.op \in {"call", "ack", "finish"}
    PROVE  l.to = "cell"
BY SourcesAssumption
   DEF Letters, CallLetters, AckLetters, FinishLetters, OwnerLetters, PacketLetters,
       OwnerOps, SendRpc, NewMailBoxCall, ToOwner, Letter, CallRpc, AckRpc

LEMMA ToCellKind ==
    ASSUME NEW s \in Sources, NEW l \in ToCell(s)
    PROVE  l \in Letters /\ l.via = CellGate(s) /\ l.dst \in Games /\ l.to = "cell"
<1>1. CASE l \in AckOf(s)
  <2>1. l \in Letters /\ l.op = "ack" /\ l.arg = s
      BY <1>1 DEF AckOf
  <2>2. l.to = "cell"
      BY <2>1, ForCell
  <2>3. PICK t \in Sources, g \in Games : l = SendRpc(t, g, AckRpc(t))
      BY <2>1, <2>2, AckLetter
  <2> QED BY <2>1, <2>2, <2>3 DEF SendRpc, AckRpc, Letter
<1>2. CASE l \in CallsOf(s)
  <2>1. l \in Letters /\ l.op = "call" /\ l.arg[1] = s
      BY <1>2 DEF CallsOf
  <2>2. l.to = "cell"
      BY <2>1, ForCell
  <2>3. PICK c \in Calls, g \in Games : l = SendRpc(c[1], g, CallRpc(c))
      BY <2>1, <2>2, CallLetter
  <2> QED BY <2>1, <2>2, <2>3 DEF SendRpc, CallRpc, Letter
<1> QED BY <1>1, <1>2 DEF ToCell

LEMMA FromCellKind ==
    ASSUME NEW s \in Sources, NEW l \in FromCell(s)
    PROVE  /\ l \in Letters /\ l.to = s /\ l.arg \in Games
           /\ l.via = OwnerVia(l.arg, s) /\ l.dst = At[s]
<1>1. l \in Letters /\ l.to = s
    BY DEF FromCell, Req, New
<1>2. PICK g \in Games, op \in OwnerOps : l = ToOwner(g, l.to, op)
    BY <1>1, OwnerLetter, Zenon
<1> QED BY <1>1, <1>2 DEF ToOwner, Letter, OwnerVia

LEMMA SeatKind ==
    /\ \A l \in Pk : /\ l \in Letters /\ l.op = "migrate" /\ l.via \in Gates /\ l.dst \in Games
                     /\ l.arg \in PacketType /\ l.to = "game"
    /\ \A l \in Fins : l \in Letters /\ l.via \in Gates /\ l.dst \in Games /\ l.to = "cell"
<1>1. ASSUME NEW l \in Pk
      PROVE  /\ l \in Letters /\ l.op = "migrate" /\ l.via \in Gates /\ l.dst \in Games
             /\ l.arg \in PacketType /\ l.to = "game"
  <2>1. l \in Letters /\ l.op = "migrate"
      BY DEF Pk
  <2>2. PICK gate \in Gates, g \in Games, p \in PacketType :
             l = Letter(gate, g, "game", "migrate", p)
      BY <2>1, PacketLetter
  <2> QED BY <2>1, <2>2 DEF Letter
<1>2. ASSUME NEW l \in Fins
      PROVE  l \in Letters /\ l.via \in Gates /\ l.dst \in Games /\ l.to = "cell"
  <2>1. l \in Letters /\ l.op = "finish"
      BY DEF Fins
  <2>2. l.to = "cell"
      BY <2>1, ForCell
  <2>3. PICK g \in Games, h \in Games : l = NewMailBoxCall(g, h, "finish")
      BY <2>1, <2>2, FinishLetter
  <2> QED BY <2>1, <2>2, <2>3, LetterAddress DEF NewMailBoxCall, Letter
<1> QED BY <1>1, <1>2

(* The kinds are apart.                                                    *)
LEMMA Apart ==
    /\ \A s \in Sources : \A l \in OwnerKinds(s) : l \notin SeatKinds
    /\ \A s, t \in Sources : s # t => \A l \in OwnerKinds(s) : l \notin OwnerKinds(t)
    /\ \A s \in Sources : \A l \in ToCell(s) : l \notin FromCell(s)
    /\ \A s \in Sources : \A l \in New(s) : l \notin Req(s)
    /\ \A s \in Sources : \A l \in AckOf(s) : l \notin CallsOf(s)
    /\ \A l \in Pk : l \notin Fins
<1>1. \A s \in Sources : \A l \in OwnerKinds(s) : l \notin SeatKinds
    BY DEF OwnerKinds, ToCell, FromCell, AckOf, CallsOf, Req, New, SeatKinds, Pk, Fins
<1>2. ASSUME NEW s \in Sources, NEW t \in Sources, s # t, NEW l \in OwnerKinds(s)
      PROVE  l \notin OwnerKinds(t)
    BY <1>2 DEF OwnerKinds, ToCell, FromCell, AckOf, CallsOf, Req, New
<1> QED BY <1>1, <1>2 DEF ToCell, FromCell, AckOf, CallsOf, Req, New, Pk, Fins

(* What is placed stays placed.                                            *)
LEMMA PlacedTake ==
    ASSUME NEW q \in [Where -> Seq(Letters)], NEW v \in Where, q[v] # <<>>, Placed(q),
           NEW r, r = Taken(q, v)
    PROVE  Placed(r)
<1>1. AfterTake(Where, q, v, r)
    BY TakenAt
<1>2. ASSUME NEW w \in Where, NEW i \in 1 .. Len(r[w])
      PROVE  \E k \in 1 .. Len(q[w]) : r[w][i] = q[w][k]
    BY <1>1 DEF AfterTake
<1>3. ASSUME NEW w \in Where, NEW i \in 1 .. Len(r[w])
      PROVE  /\ w[1] # 3 => r[w][i].via = w[3]
             /\ w[1] # 1 => r[w][i].dst = w[2]
             /\ w[1] = 3 => w[3] = ClientGate
  <2>1. PICK k \in 1 .. Len(q[w]) : r[w][i] = q[w][k]
      BY <1>2
  <2> QED BY <2>1 DEF Placed
<1> QED BY <1>3 DEF Placed

LEMMA PlacedJoin ==
    ASSUME NEW q \in [Where -> Seq(Letters)], NEW n \in Nodes, NEW gate \in Gates,
           NEW ls \in Seq(Letters), \A i \in 1 .. Len(ls) : ls[i].via = gate, Placed(q),
           NEW r, r = Joined(q, Up(n, gate), ls)
    PROVE  Placed(r)
<1>1. Up(n, gate) \in Where
    BY Stages
<1>2. AfterJoin(Where, q, Up(n, gate), ls, r)
    BY <1>1, JoinedAt
<1>4. ASSUME NEW w \in Where, NEW i \in 1 .. Len(r[w])
      PROVE  \/ i \in 1 .. Len(q[w]) /\ r[w][i] = q[w][i]
             \/ w = Up(n, gate) /\ \E k \in 1 .. Len(ls) : r[w][i] = ls[k]
    BY <1>2 DEF AfterJoin
<1>3. ASSUME NEW w \in Where, NEW i \in 1 .. Len(r[w])
      PROVE  /\ w[1] # 3 => r[w][i].via = w[3]
             /\ w[1] # 1 => r[w][i].dst = w[2]
             /\ w[1] = 3 => w[3] = ClientGate
  <2>1. CASE i \in 1 .. Len(q[w]) /\ r[w][i] = q[w][i]
      BY <2>1 DEF Placed
  <2>2. CASE w = Up(n, gate) /\ \E k \in 1 .. Len(ls) : r[w][i] = ls[k]
      BY <2>2 DEF Up
  <2> QED BY <2>1, <2>2, <1>4
<1> QED BY <1>3 DEF Placed

(* The first letter of v moves on to w, on its way.                        *)
Hop(q, r, v, w) ==
    /\ v \in Where /\ w \in Where /\ v # w /\ q[v] # <<>> /\ r = Moved(q, v, w)
    /\ Stage[w] = Stage[v] + 1
    /\ w = IF Stage[v] = 1 THEN Down(Head(q[v]).via, Head(q[v]).dst)
                           ELSE Imp(Head(q[v]).dst)

LEMMA PlacedHop ==
    ASSUME NEW q \in [Where -> Seq(Letters)], NEW v, NEW w, NEW r, Hop(q, r, v, w), Placed(q)
    PROVE  Placed(r)
<1>1. v \in Where /\ w \in Where /\ v # w /\ q[v] # <<>> /\ r = Moved(q, v, w)
    BY DEF Hop
<1>2. AfterMove(Where, q, v, w, r)
    BY <1>1, MovedAt
<1>3. q[v][1].via = w[3] \/ w[1] = 3
  <2>1. w = Down(q[v][1].via, q[v][1].dst) \/ w = Imp(q[v][1].dst)
      BY <1>2 DEF Hop, AfterMove
  <2> QED BY <2>1 DEF Down, Imp
<1>4. q[v][1].dst = w[2] /\ (w[1] = 3 => w[3] = ClientGate)
  <2>1. w = Down(q[v][1].via, q[v][1].dst) \/ w = Imp(q[v][1].dst)
      BY <1>2 DEF Hop, AfterMove
  <2> QED BY <2>1 DEF Down, Imp
<1>5. ASSUME NEW u \in Where, NEW i \in 1 .. Len(r[u])
      PROVE  (u = w /\ r[u][i] = q[v][1]) \/ \E k \in 1 .. Len(q[u]) : r[u][i] = q[u][k]
    BY <1>2 DEF AfterMove
<1>6. ASSUME NEW u \in Where, NEW i \in 1 .. Len(r[u])
      PROVE  /\ u[1] # 3 => r[u][i].via = u[3]
             /\ u[1] # 1 => r[u][i].dst = u[2]
             /\ u[1] = 3 => u[3] = ClientGate
  <2>1. CASE u = w /\ r[u][i] = q[v][1]
      BY <2>1, <1>3, <1>4
  <2>2. CASE \E k \in 1 .. Len(q[u]) : r[u][i] = q[u][k]
      BY <2>2 DEF Placed
  <2> QED BY <2>1, <2>2, <1>5
<1> QED BY <1>6 DEF Placed

(* Letters with one gate and one destination do not overtake one another.  *)
LEMMA HopOrder ==
    ASSUME NEW q \in [Where -> Seq(Letters)], NEW v, NEW w, NEW r, Hop(q, r, v, w), Placed(q),
           NEW K, NEW M, NEW via, NEW dst, Ahead(q, Stage, K, M),
           \A l \in K \cup M : Free(q, {l}) \/ (l.via = via /\ l.dst = dst)
    PROVE  Ahead(r, Stage, K, M)
<1>1. /\ v \in Where /\ w \in Where /\ v # w /\ q[v] # <<>> /\ r = Moved(q, v, w)
      /\ Stage[w] = Stage[v] + 1
    BY DEF Hop
<1>2. ASSUME NEW u \in Where, NEW i \in 1 .. Len(q[u]), q[u][i] \in K \cup M
      PROVE  q[u][i].via = via /\ q[u][i].dst = dst
    BY <1>2 DEF Free
<1>3. ASSUME Head(q[v]) \in M
      PROVE  Gathered(q, Stage, w, K)
  <2>1. 1 \in 1 .. Len(q[v]) /\ q[v][1] = Head(q[v])
    <3>1. q[v] \in Seq(Letters)
        BY <1>1
    <3> QED BY <3>1, <1>1
  <2>2. Head(q[v]).via = via /\ Head(q[v]).dst = dst
      BY <1>1, <1>2, <1>3, <2>1
  <2>3. w = Down(via, dst) \/ w = Imp(dst)
      BY <2>2 DEF Hop
  <2>4. ASSUME NEW u \in Where, NEW i \in 1 .. Len(q[u]), Stage[u] = Stage[w], q[u][i] \in K
        PROVE  u = w
    <3>1. q[u][i].via = via /\ q[u][i].dst = dst
        BY <2>4, <1>2
    <3>2. u = <<u[1], u[2], u[3]>> /\ Stage[u] = u[1] /\ Stage[w] = w[1] /\ w[1] \in {1, 2, 3}
        BY <1>1, Stages DEF Where
    <3>3. u[1] # 1 /\ u[1] = w[1]
      <4>1. Stage[v] \in {1, 2, 3}
          BY <1>1, Stages
      <4> QED BY <4>1, <3>2, <2>4, <1>1
    <3>4. /\ u[1] # 3 => u[3] = via
          /\ u[2] = dst
          /\ u[1] = 3 => u[3] = ClientGate
        BY <3>1, <3>3 DEF Placed
    <3>5. CASE u[1] = 2
      <4>1. u = <<2, dst, via>>
          BY <3>2, <3>4, <3>5
      <4>2. Imp(dst)[1] = 3
          BY DEF Imp
      <4>4. w[1] = 2
          BY <3>3, <3>5
      <4>5. w = Imp(dst) => w[1] = 3
          BY <4>2, Zenon
      <4>3. w = Down(via, dst)
          BY <4>4, <4>5, <2>3
      <4> QED BY <4>1, <4>3 DEF Down
    <3>6. CASE u[1] = 3
      <4>1. u = <<3, dst, ClientGate>>
          BY <3>2, <3>4, <3>6
      <4>2. Down(via, dst)[1] = 2
          BY DEF Down
      <4>4. w[1] = 3
          BY <3>3, <3>6
      <4>5. w = Down(via, dst) => w[1] = 2
          BY <4>2, Zenon
      <4>3. w = Imp(dst)
          BY <4>4, <4>5, <2>3
      <4> QED BY <4>1, <4>3 DEF Imp
    <3> QED BY <3>2, <3>3, <3>5, <3>6
  <2> QED BY <2>4 DEF Gathered
<1> QED BY <1>1, <1>3, Stages, MoveOrder

-----------------------------------------------------------------------------
(* What an owner's part of the invariant is about, and what leaves it as   *)
(* it is: letters that join and are not between it and the cell, another   *)
(* letter that is taken, a letter that moves on.                           *)
AllOfCell(s, live) == {l \in ToCell(s) : l.dst \notin live}
AllOfOwner(s, live) == {l \in FromCell(s) : l.arg \notin live}

LEMMA KindParts ==
    ASSUME NEW s, NEW live
    PROVE  /\ AllOfCell(s, live) \in SUBSET OwnerKinds(s)
           /\ AllOfOwner(s, live) \in SUBSET OwnerKinds(s)
           /\ New(s) \in SUBSET OwnerKinds(s) /\ Req(s) \in SUBSET OwnerKinds(s)
           /\ AckOf(s) \in SUBSET OwnerKinds(s) /\ CallsOf(s) \in SUBSET OwnerKinds(s)
BY DEF AllOfCell, AllOfOwner, OwnerKinds, ToCell, FromCell

LEMMA OwnerSame ==
    ASSUME NEW s, NEW q, NEW r, Same(q, r, OwnerKinds(s)),
           NEW box, NEW live, NEW prep, NEW acks
    PROVE  /\ Traffic(q, s, live) => Traffic(r, s, live)
           /\ Phase(q, s, box, live, prep, acks) => Phase(r, s, box, live, prep, acks)
           /\ OwnerInv(q, s, box, live, prep, acks) => OwnerInv(r, s, box, live, prep, acks)
<1>1. \A K \in SUBSET OwnerKinds(s) : Free(r, K) <=> Free(q, K)
    BY SameFree
<1>2. \A K \in SUBSET OwnerKinds(s) : Single(q, K) => Single(r, K)
    BY SameSingle
<1>3. \A K, M \in SUBSET OwnerKinds(s) : Ahead(q, Stage, K, M) => Ahead(r, Stage, K, M)
    BY SameOrder
<1>4. ASSUME NEW K \in SUBSET OwnerKinds(s), NEW u, JoinAt(q, Stage, K, u)
      PROVE  JoinAt(r, Stage, K, u)
    BY <1>4, SameJoinAt
<1>5. Traffic(q, s, live) => Traffic(r, s, live)
  <2> SUFFICES ASSUME Traffic(q, s, live) PROVE Traffic(r, s, live)
      OBVIOUS
  <2>1. Free(r, AllOfCell(s, live)) /\ Free(r, AllOfOwner(s, live))
      BY <1>1, KindParts DEF Traffic, AllOfCell, AllOfOwner
  <2>2. Single(r, New(s)) /\ Single(r, Req(s)) /\ Single(r, AckOf(s))
      BY <1>2, KindParts DEF Traffic
  <2>3. Ahead(r, Stage, New(s), Req(s)) /\ Ahead(r, Stage, CallsOf(s), AckOf(s))
      BY <1>3, KindParts DEF Traffic
  <2>4. JoinAt(r, Stage, CallsOf(s), Up(At[s], CellGate(s)))
      BY <1>4, KindParts DEF Traffic
  <2>5. \A g \in live : JoinAt(r, Stage, New(s), Up(g, OwnerVia(g, s)))
      BY <1>4, KindParts DEF Traffic
  <2> QED BY <2>1, <2>2, <2>3, <2>4, <2>5 DEF Traffic, AllOfCell, AllOfOwner
<1>6. Phase(q, s, box, live, prep, acks) => Phase(r, s, box, live, prep, acks)
  <2>1. /\ Free(r, New(s)) <=> Free(q, New(s))
        /\ Free(r, Req(s)) <=> Free(q, Req(s))
        /\ Free(r, AckOf(s)) <=> Free(q, AckOf(s))
        /\ Free(r, CallsOf(s)) <=> Free(q, CallsOf(s))
      BY <1>1, KindParts
  <2> QED BY <2>1 DEF Phase, Calling, Acking, Waiting, Unaware
<1> QED BY <1>5, <1>6 DEF OwnerInv

LEMMA TrafficTake ==
    ASSUME NEW s, NEW q \in [Where -> Seq(Letters)], NEW v \in Where, q[v] # <<>>,
           NEW r, r = Taken(q, v), NEW live, Traffic(q, s, live)
    PROVE  Traffic(r, s, live)
<1>1. ASSUME NEW K PROVE Free(q, K) => Free(r, K)
    BY TakeFree
<1>2. ASSUME NEW K PROVE Single(q, K) => Single(r, K)
    BY TakeSingle
<1>3. ASSUME NEW K, NEW M PROVE Ahead(q, Stage, K, M) => Ahead(r, Stage, K, M)
    BY TakeOrder
<1>4. ASSUME NEW K, NEW u PROVE JoinAt(q, Stage, K, u) => JoinAt(r, Stage, K, u)
    BY TakeJoinAt
<1> QED BY <1>1, <1>2, <1>3, <1>4 DEF Traffic

LEMMA OwnerPass ==
    ASSUME NEW s, NEW q \in [Where -> Seq(Letters)], NEW v \in Where, q[v] # <<>>,
           NEW r, r = Taken(q, v), Head(q[v]) \notin AckOf(s) \cup FromCell(s),
           NEW box, NEW live, NEW prep, NEW acks, OwnerInv(q, s, box, live, prep, acks),
           NEW acks2, s \in acks2 <=> s \in acks
    PROVE  OwnerInv(r, s, box, live, prep, acks2)
<1>1. Traffic(r, s, live)
    BY TrafficTake DEF OwnerInv
<1>2. /\ Free(r, New(s)) <=> Free(q, New(s))
      /\ Free(r, Req(s)) <=> Free(q, Req(s))
      /\ Free(r, AckOf(s)) <=> Free(q, AckOf(s))
      /\ Free(q, CallsOf(s)) => Free(r, CallsOf(s))
  <2>1. Head(q[v]) \notin New(s) /\ Head(q[v]) \notin Req(s) /\ Head(q[v]) \notin AckOf(s)
      BY DEF FromCell
  <2>2. ASSUME NEW K, Head(q[v]) \notin K
        PROVE  Free(r, K) <=> Free(q, K)
      BY <2>2, TakeFree
  <2>3. Free(q, CallsOf(s)) => Free(r, CallsOf(s))
      BY TakeFree
  <2> QED BY <2>1, <2>2, <2>3
<1>3. Phase(r, s, box, live, prep, acks2)
  <2>1. Phase(q, s, box, live, prep, acks)
      BY DEF OwnerInv
  <2> QED BY <1>2, <2>1 DEF Phase, Calling, Acking, Waiting, Unaware
<1> QED BY <1>1, <1>3 DEF OwnerInv

LEMMA OwnerHop ==
    ASSUME NEW s \in Sources, NEW q \in [Where -> Seq(Letters)], NEW v, NEW w, NEW r,
           Hop(q, r, v, w), Placed(q),
           NEW box, NEW live, NEW prep, NEW acks, OwnerInv(q, s, box, live, prep, acks),
           \A g, h \in live : g = h
    PROVE  OwnerInv(r, s, box, live, prep, acks)
<1>1. /\ v \in Where /\ w \in Where /\ v # w /\ q[v] # <<>> /\ r = Moved(q, v, w)
      /\ Stage[w] = Stage[v] + 1
    BY DEF Hop
<1>2. Traffic(q, s, live)
    BY DEF OwnerInv
<1>3. ASSUME NEW K PROVE Free(r, K) <=> Free(q, K)
    BY <1>1, MoveFree
<1>4. ASSUME NEW K PROVE Single(q, K) => Single(r, K)
    BY <1>1, MoveSingle
<1>5. Stage[w] # 1
  <2>1. Stage[v] \in {1, 2, 3}
      BY <1>1, Stages
  <2> QED BY <2>1, <1>1
<1>6. ASSUME NEW K, NEW u PROVE JoinAt(q, Stage, K, u) => JoinAt(r, Stage, K, u)
    BY <1>1, <1>5, MoveJoinAt
<1>7. Ahead(r, Stage, New(s), Req(s))
  <2>1. ASSUME NEW l \in New(s) \cup Req(s), ~Free(q, {l})
        PROVE  l \in FromCell(s) /\ l.arg \in live
    <3>1. l \in FromCell(s)
        BY <2>1 DEF FromCell
    <3>2. ASSUME l.arg \notin live PROVE FALSE
        BY <3>1, <3>2, <2>1, <1>2 DEF Traffic, Free
    <3> QED BY <3>1, <3>2
  <2>2. PICK via, dst : \A l \in New(s) \cup Req(s) : Free(q, {l}) \/ (l.via = via /\ l.dst = dst)
    <3>1. CASE live = {}
        BY <3>1, <2>1
    <3>2. CASE live # {}
      <4>1. PICK g \in live : TRUE
          BY <3>2
      <4>2. ASSUME NEW l \in New(s) \cup Req(s), ~Free(q, {l})
            PROVE  l.via = OwnerVia(g, s) /\ l.dst = At[s]
        <5>1. l \in FromCell(s) /\ l.arg = g
            BY <2>1, <4>2, <4>1
        <5> QED BY <5>1, FromCellKind
      <4> QED BY <4>2
    <3> QED BY <3>1, <3>2
  <2>3. Ahead(q, Stage, New(s), Req(s))
      BY <1>2 DEF Traffic
  <2> QED BY <2>2, <2>3, HopOrder
<1>8. Ahead(r, Stage, CallsOf(s), AckOf(s))
  <2>1. ASSUME NEW l \in CallsOf(s) \cup AckOf(s), ~Free(q, {l})
        PROVE  l \in ToCell(s) /\ l.dst \in live
    <3>1. l \in ToCell(s)
        BY <2>1 DEF ToCell
    <3>2. ASSUME l.dst \notin live PROVE FALSE
        BY <3>1, <3>2, <2>1, <1>2 DEF Traffic, Free
    <3> QED BY <3>1, <3>2
  <2>2. PICK via, dst : \A l \in CallsOf(s) \cup AckOf(s) : Free(q, {l}) \/ (l.via = via /\ l.dst = dst)
    <3>1. CASE live = {}
        BY <3>1, <2>1
    <3>2. CASE live # {}
      <4>1. PICK g \in live : TRUE
          BY <3>2
      <4>2. ASSUME NEW l \in CallsOf(s) \cup AckOf(s), ~Free(q, {l})
            PROVE  l.via = CellGate(s) /\ l.dst = g
        <5>1. l \in ToCell(s) /\ l.dst = g
            BY <2>1, <4>2, <4>1
        <5> QED BY <5>1, ToCellKind
      <4> QED BY <4>2
    <3> QED BY <3>1, <3>2
  <2>3. Ahead(q, Stage, CallsOf(s), AckOf(s))
      BY <1>2 DEF Traffic
  <2> QED BY <2>2, <2>3, HopOrder
<1>9. Traffic(r, s, live)
    BY <1>2, <1>3, <1>4, <1>6, <1>7, <1>8 DEF Traffic
<1>10. Phase(r, s, box, live, prep, acks)
  <2>1. Phase(q, s, box, live, prep, acks)
      BY DEF OwnerInv
  <2> QED BY <2>1, <1>3 DEF Phase, Calling, Acking, Waiting, Unaware
<1> QED BY <1>9, <1>10 DEF OwnerInv

-----------------------------------------------------------------------------
(* Letters that join.                                                      *)
LEMMA JoinsFree ==
    ASSUME NEW q \in [Where -> Seq(Letters)], NEW w \in Where, NEW ls \in Seq(Letters),
           NEW r, r = Joined(q, w, ls), NEW K
    PROVE  /\ Free(r, K) => Free(q, K)
           /\ Without(ls, K) => (Free(r, K) <=> Free(q, K))
           /\ Without(ls, K) /\ Single(q, K) => Single(r, K)
           /\ Free(q, K) /\ Len(ls) = 1 => Single(r, K)
BY JoinFree, JoinSingle

LEMMA JoinsOrder ==
    ASSUME NEW q \in [Where -> Seq(Letters)], NEW w \in Where, Stage[w] = 1,
           NEW ls \in Seq(Letters), NEW r, r = Joined(q, w, ls), NEW K, NEW M,
           Ahead(q, Stage, K, M), Without(ls, K), Without(ls, M) \/ JoinAt(q, Stage, K, w)
    PROVE  Ahead(r, Stage, K, M)
<1>1. Stage \in [Where -> Nat] /\ \A u \in Where : Stage[u] >= 1
  <2>1. ASSUME NEW u \in Where PROVE Stage[u] >= 1
    <3>1. Stage[u] \in {1, 2, 3}
        BY Stages
    <3> QED BY <3>1
  <2> QED BY <2>1, Stages
<1> QED BY <1>1, JoinOrder

LEMMA JoinsAt ==
    ASSUME NEW q \in [Where -> Seq(Letters)], NEW w \in Where, NEW ls \in Seq(Letters),
           NEW r, r = Joined(q, w, ls), NEW K, NEW u, JoinAt(q, Stage, K, u),
           w = u \/ Without(ls, K)
    PROVE  JoinAt(r, Stage, K, u)
BY JoinJoinAt

(* One letter joins.                                                       *)
Posted(q, w, l) == Joined(q, w, <<l>>)

LEMMA OneLetter ==
    ASSUME NEW l \in Letters
    PROVE  /\ <<l>> \in Seq(Letters) /\ Len(<<l>>) = 1
           /\ \A i \in 1 .. Len(<<l>>) : <<l>>[i] = l
           /\ \A K : Without(<<l>>, K) <=> l \notin K
<1>1. <<l>> \in Seq(Letters) /\ Len(<<l>>) = 1 /\ <<l>>[1] = l
    OBVIOUS
<1>2. \A i \in 1 .. Len(<<l>>) : i = 1
    BY <1>1
<1>3. 1 \in 1 .. Len(<<l>>)
    BY <1>1
<1> QED BY <1>1, <1>2, <1>3 DEF Without

LEMMA PostedFree ==
    ASSUME NEW q \in [Where -> Seq(Letters)], NEW w \in Where, NEW l \in Letters,
           NEW r, r = Posted(q, w, l), NEW K
    PROVE  /\ l \notin K => (Free(r, K) <=> Free(q, K))
           /\ l \notin K /\ Single(q, K) => Single(r, K)
           /\ l \in K => ~Free(r, K)
           /\ Free(q, K) => Single(r, K)
<1> DEFINE ls == <<l>>
<1>1. ls \in Seq(Letters) /\ Len(ls) = 1 /\ (Without(ls, K) <=> l \notin K)
    BY OneLetter
<1>2. r = Joined(q, w, ls)
    BY DEF Posted
<1> HIDE DEF ls
<1> QED BY <1>1, <1>2, JoinFree, JoinSingle

LEMMA PostedOrder ==
    ASSUME NEW q \in [Where -> Seq(Letters)], NEW w \in Where, Stage[w] = 1,
           NEW l \in Letters, NEW r, r = Posted(q, w, l), NEW K, NEW M,
           Ahead(q, Stage, K, M), l \notin K, l \notin M \/ JoinAt(q, Stage, K, w)
    PROVE  Ahead(r, Stage, K, M)
<1> DEFINE ls == <<l>>
<1>1. ls \in Seq(Letters) /\ Without(ls, K) /\ (Without(ls, M) <=> l \notin M)
    BY OneLetter
<1>2. r = Joined(q, w, ls)
    BY DEF Posted
<1> HIDE DEF ls
<1> QED BY <1>1, <1>2, JoinsOrder

LEMMA PostedAt ==
    ASSUME NEW q \in [Where -> Seq(Letters)], NEW w \in Where, NEW l \in Letters,
           NEW r, r = Posted(q, w, l), NEW K, NEW u, JoinAt(q, Stage, K, u),
           w = u \/ l \notin K
    PROVE  JoinAt(r, Stage, K, u)
<1> DEFINE ls == <<l>>
<1>1. ls \in Seq(Letters) /\ (Without(ls, K) <=> l \notin K)
    BY OneLetter
<1>2. r = Joined(q, w, ls)
    BY DEF Posted
<1> HIDE DEF ls
<1> QED BY <1>1, <1>2, JoinJoinAt

LEMMA PostedSame ==
    ASSUME NEW q \in [Where -> Seq(Letters)], NEW w \in Where, NEW l \in Letters,
           NEW r, r = Posted(q, w, l), NEW X
    PROVE  /\ r \in [Where -> Seq(Letters)]
           /\ l \notin X => Same(q, r, X)
<1> DEFINE ls == <<l>>
<1>1. ls \in Seq(Letters) /\ \A K : Without(ls, K) <=> l \notin K
    BY OneLetter
<1>2. r = Joined(q, w, ls)
    BY DEF Posted
<1> HIDE DEF ls
<1>3. r \in [Where -> Seq(Letters)]
    BY <1>1, <1>2, JoinedAt
<1>4. l \notin X => Same(q, r, X)
    BY <1>1, <1>2, JoinSame
<1> QED BY <1>3, <1>4

(* A letter that has been taken was the last: what was to be ahead of it   *)
(* has arrived.                                                            *)
LEMMA Arrived ==
    ASSUME NEW q \in [Where -> Seq(Letters)], NEW n \in Nodes, q[Imp(n)] # <<>>,
           NEW K, NEW M, Ahead(q, Stage, K, M), Head(q[Imp(n)]) \in M
    PROVE  Free(q, K)
<1>1. Imp(n) \in Where /\ Stage \in [Where -> Nat] /\ \A u \in Where : Stage[u] <= Stage[Imp(n)]
  <2>1. Stage[Imp(n)] = 3 /\ Imp(n) \in Where
      BY Stages
  <2>2. ASSUME NEW u \in Where PROVE Stage[u] <= 3
    <3>1. Stage[u] \in {1, 2, 3}
        BY Stages
    <3> QED BY <3>1
  <2> QED BY <2>1, <2>2, Stages
<1> QED BY <1>1, TakeLast

-----------------------------------------------------------------------------
(* The steps of a migration, seen from one owner.                          *)

(* It is asked.                                                            *)
LEMMA OwnerAsked ==
    ASSUME NEW s \in Sources, NEW q \in [Where -> Seq(Letters)], NEW g \in Games, NEW l,
           l = ToOwner(g, s, "migrate_req_from_cell"), NEW r, r = Posted(q, Up(g, l.via), l),
           NEW box, NEW acks, OwnerInv(q, s, box, {g}, {}, acks)
    PROVE  OwnerInv(r, s, box, {g}, {g}, acks)
<1>1. l \in Letters /\ l.to = s /\ l.op = "migrate_req_from_cell" /\ l.arg = g
      /\ l.via = OwnerVia(g, s)
    BY DEF ToOwner, Letter, Letters, OwnerLetters, OwnerOps, OwnerVia
<1>2. l \in Req(s) /\ l \notin New(s) /\ l \notin AckOf(s) /\ l \notin CallsOf(s)
      /\ l \notin ToCell(s) /\ l \in FromCell(s)
    BY <1>1, Apart DEF Req, New, AckOf, CallsOf, ToCell, FromCell
<1>3. g \in Nodes /\ l.via \in Gates
    BY <1>1, Owners, LetterAddress
<1> DEFINE w == Up(g, l.via)
<1>4. w \in Where /\ Stage[w] = 1 /\ r = Posted(q, w, l) /\ w = Up(g, OwnerVia(g, s))
    BY <1>1, <1>3, Stages
<1> HIDE DEF w
<1>5. Traffic(q, s, {g}) /\ Phase(q, s, box, {g}, {}, acks)
    BY DEF OwnerInv
<1>6. Free(q, Req(s)) /\ (Calling(q, s, box, {g}, {}, acks) \/ Unaware(q, s, box, {}, acks))
    BY <1>5 DEF Phase, Calling, Acking, Waiting, Unaware
<1>7. ASSUME NEW K, l \notin K
      PROVE  (Free(r, K) <=> Free(q, K)) /\ (Single(q, K) => Single(r, K))
    BY <1>1, <1>4, <1>7, PostedFree
<1>8. Single(r, Req(s)) /\ ~Free(r, Req(s))
    BY <1>1, <1>2, <1>4, <1>6, PostedFree
<1>9. Traffic(r, s, {g})
  <2>1. l \notin AllOfCell(s, {g}) /\ l \notin AllOfOwner(s, {g})
      BY <1>1, <1>2 DEF AllOfCell, AllOfOwner
  <2>2. Free(r, AllOfCell(s, {g})) /\ Free(r, AllOfOwner(s, {g}))
      BY <2>1, <1>5, <1>7 DEF Traffic, AllOfCell, AllOfOwner
  <2>3. Ahead(r, Stage, New(s), Req(s))
    <3>1. Ahead(q, Stage, New(s), Req(s)) /\ JoinAt(q, Stage, New(s), w)
        BY <1>4, <1>5 DEF Traffic
    <3> QED BY <3>1, <1>1, <1>2, <1>4, PostedOrder
  <2>4. Ahead(r, Stage, CallsOf(s), AckOf(s))
    <3>2. Ahead(q, Stage, CallsOf(s), AckOf(s))
        BY <1>5 DEF Traffic
    <3> QED BY <3>2, <1>1, <1>2, <1>4, PostedOrder
  <2>5. ASSUME NEW K, NEW u, l \notin K, JoinAt(q, Stage, K, u)
        PROVE  JoinAt(r, Stage, K, u)
      BY <2>5, <1>1, <1>4, PostedAt
  <2> QED BY <2>2, <2>3, <2>4, <2>5, <1>2, <1>5, <1>7, <1>8 DEF Traffic, AllOfCell, AllOfOwner
<1>10. Phase(r, s, box, {g}, {g}, acks)
    BY <1>2, <1>6, <1>7, <1>8 DEF Phase, Calling, Unaware
<1> QED BY <1>9, <1>10 DEF OwnerInv

(* It acknowledges.                                                        *)
LEMMA AskedCalls ==
    ASSUME NEW s \in Sources, NEW q \in [Where -> Seq(Letters)], q[Imp(At[s])] # <<>>,
           Head(q[Imp(At[s])]) \in Req(s),
           NEW box, NEW live, NEW prep, NEW acks, OwnerInv(q, s, box, live, prep, acks)
    PROVE  Calling(q, s, box, live, prep, acks) /\ prep # {} /\ Free(q, New(s))
<1>1. At[s] \in Nodes /\ Imp(At[s]) \in Where
    BY Owners, Stages
<1>2. ~Free(q, Req(s))
    BY <1>1, TakeFree
<1>3. Free(q, New(s))
    BY <1>1, Arrived DEF OwnerInv, Traffic
<1> QED BY <1>2, <1>3 DEF OwnerInv, Phase, Calling, Acking, Waiting, Unaware

LEMMA AckJoins ==
    ASSUME NEW s \in Sources, NEW r \in [Where -> Seq(Letters)], NEW w \in Where,
           Stage[w] = 1, JoinAt(r, Stage, CallsOf(s), w), NEW live, Traffic(r, s, live),
           Free(r, New(s)), Free(r, Req(s)), Free(r, AckOf(s)),
           NEW l \in AckOf(s), l.dst \in live, NEW t, t = Posted(r, w, l)
    PROVE  /\ Traffic(t, s, live) /\ ~Free(t, AckOf(s))
           /\ Free(t, New(s)) /\ Free(t, Req(s))
<1>1. /\ l \in Letters /\ l \in ToCell(s) /\ l \notin FromCell(s) /\ l \notin CallsOf(s)
      /\ l \notin New(s) /\ l \notin Req(s)
    BY Apart DEF AckOf, ToCell, FromCell
<1>2. ASSUME NEW K, l \notin K
      PROVE  (Free(t, K) <=> Free(r, K)) /\ (Single(r, K) => Single(t, K))
    BY <1>1, <1>2, PostedFree
<1>3. Single(t, AckOf(s)) /\ ~Free(t, AckOf(s))
    BY <1>1, PostedFree
<1>4. Free(t, AllOfCell(s, live)) /\ Free(t, AllOfOwner(s, live))
  <2>1. l \notin AllOfCell(s, live) /\ l \notin AllOfOwner(s, live)
      BY <1>1 DEF AllOfCell, AllOfOwner
  <2> QED BY <2>1, <1>2 DEF Traffic, AllOfCell, AllOfOwner
<1>5. Ahead(t, Stage, New(s), Req(s))
  <2>1. Ahead(r, Stage, New(s), Req(s))
      BY DEF Traffic
  <2> QED BY <2>1, <1>1, PostedOrder
<1>6. Ahead(t, Stage, CallsOf(s), AckOf(s))
  <2>1. Ahead(r, Stage, CallsOf(s), AckOf(s))
      BY DEF Traffic
  <2> QED BY <2>1, <1>1, PostedOrder
<1>7. ASSUME NEW K, NEW u, l \notin K, JoinAt(r, Stage, K, u)
      PROVE  JoinAt(t, Stage, K, u)
    BY <1>7, <1>1, PostedAt
<1>8. Traffic(t, s, live)
    BY <1>1, <1>2, <1>3, <1>4, <1>5, <1>6, <1>7 DEF Traffic, AllOfCell, AllOfOwner
<1> QED BY <1>1, <1>2, <1>3, <1>8

LEMMA OwnerAcks ==
    ASSUME NEW s \in Sources, NEW q \in [Where -> Seq(Letters)], q[Imp(At[s])] # <<>>,
           Head(q[Imp(At[s])]) \in Req(s), NEW r, r = Taken(q, Imp(At[s])),
           NEW box, NEW live \in SUBSET Games, NEW prep, NEW acks,
           OwnerInv(q, s, box, live, prep, acks),
           NEW l, l = SendRpc(s, box.addr, AckRpc(s)),
           NEW t, t = Posted(r, Up(At[s], l.via), l),
           NEW box2, box2.caching, box2.cache = box.cache
    PROVE  OwnerInv(t, s, box2, live, prep, acks)
<1>1. Calling(q, s, box, live, prep, acks) /\ prep # {} /\ Free(q, New(s))
    BY AskedCalls
<1>2. box.addr \in live /\ box.addr \in Games /\ s \notin acks
    BY <1>1 DEF Calling
<1>3. l \in Letters /\ l.op = "ack" /\ l.arg = s /\ l.dst = box.addr /\ l.via = CellGate(s)
    BY <1>2 DEF SendRpc, AckRpc, Letter, Letters, AckLetters
<1>4. l \in AckOf(s) /\ l.dst \in live
    BY <1>2, <1>3 DEF AckOf
<1>5. At[s] \in Nodes /\ l.via \in Gates /\ Imp(At[s]) \in Where
    BY <1>3, Owners, LetterAddress, Stages
<1> DEFINE w == Up(At[s], l.via)
<1>6. w \in Where /\ Stage[w] = 1 /\ t = Posted(r, w, l) /\ w = Up(At[s], CellGate(s))
    BY <1>3, <1>5, Stages
<1> HIDE DEF w
<1>7. r \in [Where -> Seq(Letters)] /\ Traffic(r, s, live)
    BY <1>5, TakenAt, TrafficTake DEF OwnerInv
<1>8. Free(r, Req(s)) /\ Free(r, New(s)) /\ Free(r, AckOf(s))
  <2>1. Single(q, Req(s)) /\ Free(q, AckOf(s))
      BY <1>1 DEF OwnerInv, Traffic, Calling
  <2> QED BY <2>1, <1>1, <1>5, TakeFree, TakeSingle
<1>9. JoinAt(r, Stage, CallsOf(s), w)
    BY <1>6, <1>7 DEF Traffic
<1>10. /\ Traffic(t, s, live) /\ ~Free(t, AckOf(s))
       /\ Free(t, New(s)) /\ Free(t, Req(s))
    BY <1>4, <1>6, <1>7, <1>8, <1>9, AckJoins
<1>11. Phase(t, s, box2, live, prep, acks)
    BY <1>1, <1>2, <1>10 DEF Phase, Acking
<1> QED BY <1>10, <1>11 DEF OwnerInv

(* Its acknowledgement arrives ...                                         *)
LEMMA OwnerAnswered ==
    ASSUME NEW s \in Sources, NEW q \in [Where -> Seq(Letters)], NEW n \in Nodes,
           q[Imp(n)] # <<>>, Head(q[Imp(n)]) \in AckOf(s), NEW r, r = Taken(q, Imp(n)),
           NEW box, NEW live, NEW prep, NEW acks, OwnerInv(q, s, box, live, prep, acks),
           NEW acks2, s \in acks2
    PROVE  OwnerInv(r, s, box, live, prep, acks2) /\ prep # {}
<1>1. Imp(n) \in Where
    BY Stages
<1>2. ~Free(q, AckOf(s)) /\ Traffic(q, s, live)
    BY <1>1, TakeFree DEF OwnerInv
<1>3. Acking(q, s, box, prep, acks)
    BY <1>2 DEF OwnerInv, Phase, Calling, Waiting, Unaware
<1>4. Free(q, CallsOf(s))
    BY <1>2, Arrived DEF Traffic
<1>5. Free(r, New(s)) /\ Free(r, Req(s)) /\ Free(r, CallsOf(s)) /\ Free(r, AckOf(s))
  <2>1. Single(q, AckOf(s))
      BY <1>2 DEF Traffic
  <2> QED BY <2>1, <1>1, <1>3, <1>4, TakeFree, TakeSingle DEF Acking
<1>6. Traffic(r, s, live)
    BY <1>1, <1>2, TrafficTake
<1> QED BY <1>3, <1>5, <1>6 DEF OwnerInv, Phase, Acking, Waiting

(* ... and with the last one the cell leaves.                              *)
LEMMA OwnerLeft ==
    ASSUME NEW s \in Sources, NEW q, NEW box, NEW live, NEW prep, NEW acks, s \in acks,
           OwnerInv(q, s, box, live, prep, acks)
    PROVE  OwnerInv(q, s, box, {}, {}, {})
<1>1. Waiting(q, s, box, live, prep, acks)
    BY DEF OwnerInv, Phase, Calling, Acking, Unaware
<1>2. Free(q, AllOfCell(s, {})) /\ Free(q, AllOfOwner(s, {}))
    BY <1>1 DEF Waiting, Free, AllOfCell, AllOfOwner, ToCell, FromCell
<1>3. Traffic(q, s, {})
    BY <1>2 DEF OwnerInv, Traffic, AllOfCell, AllOfOwner
<1>4. Phase(q, s, box, {}, {}, {})
    BY <1>1 DEF Phase, Waiting
<1> QED BY <1>3, <1>4 DEF OwnerInv

(* The cell has come to g.                                                 *)
LEMMA OwnerMet ==
    ASSUME NEW s \in Sources, NEW q \in [Where -> Seq(Letters)], NEW g \in Games, NEW l,
           l = ToOwner(g, s, "new_cell_migrate_in"), NEW r, r = Posted(q, Up(g, l.via), l),
           NEW box, NEW prep, NEW acks, OwnerInv(q, s, box, {}, prep, acks)
    PROVE  OwnerInv(r, s, box, {g}, {}, {})
<1>1. l \in Letters /\ l.to = s /\ l.op = "new_cell_migrate_in" /\ l.arg = g
      /\ l.via = OwnerVia(g, s)
    BY DEF ToOwner, Letter, Letters, OwnerLetters, OwnerOps, OwnerVia
<1>2. l \in New(s) /\ l \notin Req(s) /\ l \notin AckOf(s) /\ l \notin CallsOf(s)
      /\ l \notin ToCell(s) /\ l \in FromCell(s)
    BY <1>1, Apart DEF Req, New, AckOf, CallsOf, ToCell, FromCell
<1>3. g \in Nodes /\ l.via \in Gates
    BY <1>1, Owners, LetterAddress
<1> DEFINE w == Up(g, l.via)
<1>4. w \in Where /\ Stage[w] = 1 /\ r = Posted(q, w, l) /\ w = Up(g, OwnerVia(g, s))
    BY <1>1, <1>3, Stages
<1> HIDE DEF w
<1>5. Free(q, AllOfCell(s, {})) /\ Free(q, AllOfOwner(s, {}))
    BY DEF OwnerInv, Traffic, AllOfCell, AllOfOwner
<1>6. Free(q, New(s)) /\ Free(q, Req(s)) /\ Free(q, AckOf(s)) /\ Free(q, CallsOf(s))
    BY <1>5 DEF Free, AllOfCell, AllOfOwner, ToCell, FromCell
<1>7. box.caching /\ OnlyCalls(s, box.cache)
    BY <1>6 DEF OwnerInv, Phase, Calling, Acking, Waiting, Unaware
<1>8. ASSUME NEW K, l \notin K
      PROVE  Free(r, K) <=> Free(q, K)
    BY <1>1, <1>4, <1>8, PostedFree
<1>9. Free(r, Req(s)) /\ Free(r, AckOf(s)) /\ Free(r, CallsOf(s))
    BY <1>2, <1>6, <1>8
<1>10. Single(r, New(s)) /\ ~Free(r, New(s))
    BY <1>1, <1>2, <1>4, <1>6, PostedFree
<1>11. Traffic(r, s, {g})
  <2>1. l \notin AllOfOwner(s, {g}) /\ AllOfOwner(s, {g}) \subseteq AllOfOwner(s, {})
      BY <1>1 DEF AllOfOwner
  <2>2. Free(r, AllOfOwner(s, {g}))
    <3>1. Free(q, AllOfOwner(s, {g}))
        BY <2>1, <1>5 DEF Free
    <3> QED BY <3>1, <2>1, <1>8
  <2>3. Free(r, AllOfCell(s, {g}))
    <3>1. \A k \in AllOfCell(s, {g}) : k \in AckOf(s) \/ k \in CallsOf(s)
        BY DEF AllOfCell, ToCell
    <3> QED BY <3>1, <1>9 DEF Free
  <2>4. Ahead(r, Stage, New(s), Req(s)) /\ Ahead(r, Stage, CallsOf(s), AckOf(s))
      BY <1>9, FreeAhead
  <2>5. Single(r, Req(s)) /\ Single(r, AckOf(s)) /\ JoinAt(r, Stage, CallsOf(s), Up(At[s], CellGate(s)))
      BY <1>9, FreeJoinAt
  <2>6. JoinAt(r, Stage, New(s), Up(g, OwnerVia(g, s)))
    <3>1. JoinAt(q, Stage, New(s), w)
        BY <1>6, FreeJoinAt
    <3>2. JoinAt(r, Stage, New(s), w)
        BY <3>1, <1>1, <1>4, PostedAt
    <3> QED BY <3>2, <1>4
  <2> QED BY <2>2, <2>3, <2>4, <2>5, <2>6, <1>10 DEF Traffic, AllOfCell, AllOfOwner
<1>12. Phase(r, s, box, {g}, {}, {})
    BY <1>7, <1>9, <1>10 DEF Phase, Unaware
<1> QED BY <1>7, <1>11, <1>12 DEF OwnerInv

(* It calls the cell, or sends what it has cached.                         *)
LEMMA OwnerCalls ==
    ASSUME NEW s \in Sources, NEW q \in [Where -> Seq(Letters)], NEW live,
           Traffic(q, s, live), Free(q, AckOf(s)), NEW ls \in Seq(Letters),
           \A i \in 1 .. Len(ls) : ls[i] \in CallsOf(s) /\ ls[i].dst \in live,
           NEW r, r = Joined(q, Up(At[s], CellGate(s)), ls)
    PROVE  /\ Traffic(r, s, live) /\ Free(r, AckOf(s))
           /\ Free(r, New(s)) <=> Free(q, New(s))
           /\ Free(r, Req(s)) <=> Free(q, Req(s))
<1> DEFINE w == Up(At[s], CellGate(s))
<1>1. w \in Where /\ Stage[w] = 1 /\ r = Joined(q, w, ls) /\ w = Up(At[s], CellGate(s))
    BY Owners, Routes, Stages
<1> HIDE DEF w
<1>2. /\ Without(ls, New(s)) /\ Without(ls, Req(s)) /\ Without(ls, AckOf(s))
      /\ Without(ls, AllOfCell(s, live)) /\ Without(ls, AllOfOwner(s, live))
  <2>1. ASSUME NEW l \in CallsOf(s), l.dst \in live
        PROVE  /\ l \notin New(s) /\ l \notin Req(s) /\ l \notin AckOf(s)
               /\ l \notin AllOfCell(s, live) /\ l \notin AllOfOwner(s, live)
      BY <2>1, Apart DEF ToCell, FromCell, AllOfCell, AllOfOwner
  <2> QED BY <2>1 DEF Without
<1>3. ASSUME NEW K, Without(ls, K)
      PROVE  (Free(r, K) <=> Free(q, K)) /\ (Single(q, K) => Single(r, K))
    BY <1>1, <1>3, JoinsFree
<1>4. ASSUME NEW K, NEW u, JoinAt(q, Stage, K, u), w = u \/ Without(ls, K)
      PROVE  JoinAt(r, Stage, K, u)
    BY <1>1, <1>4, JoinsAt
<1>5. Free(r, AllOfCell(s, live)) /\ Free(r, AllOfOwner(s, live)) /\ Free(r, AckOf(s))
    BY <1>2, <1>3 DEF Traffic, AllOfCell, AllOfOwner
<1>6. Single(r, New(s)) /\ Single(r, Req(s)) /\ Single(r, AckOf(s))
    BY <1>2, <1>3 DEF Traffic
<1>7. Ahead(r, Stage, New(s), Req(s))
  <2>1. Ahead(q, Stage, New(s), Req(s))
      BY DEF Traffic
  <2> QED BY <2>1, <1>1, <1>2, JoinsOrder
<1>8. Ahead(r, Stage, CallsOf(s), AckOf(s))
    BY <1>5, FreeAhead
<1>9. JoinAt(r, Stage, CallsOf(s), Up(At[s], CellGate(s)))
    BY <1>1, <1>4 DEF Traffic
<1>10. \A g \in live : JoinAt(r, Stage, New(s), Up(g, OwnerVia(g, s)))
    BY <1>2, <1>4 DEF Traffic
<1> QED BY <1>2, <1>3, <1>5, <1>6, <1>7, <1>8, <1>9, <1>10 DEF Traffic, AllOfCell, AllOfOwner

CallsTo(s, g, ls) == \A i \in 1 .. Len(ls) : ls[i] \in CallsOf(s) /\ ls[i].dst = g

(* It hears of the cell.                                                   *)
LEMMA OwnerHears ==
    ASSUME NEW s \in Sources, NEW q \in [Where -> Seq(Letters)], q[Imp(At[s])] # <<>>,
           Head(q[Imp(At[s])]) \in New(s), NEW g, g = Head(q[Imp(At[s])]).arg,
           NEW r, r = Taken(q, Imp(At[s])),
           NEW box, NEW live, NEW prep, NEW acks, OwnerInv(q, s, box, live, prep, acks),
           NEW ls \in Seq(Letters), CallsTo(s, g, ls),
           NEW t, t = Joined(r, Up(At[s], CellGate(s)), ls),
           NEW box2, ~box2.caching, box2.addr = g, box2.cache = <<>>
    PROVE  OwnerInv(t, s, box2, live, prep, acks)
<1>1. At[s] \in Nodes /\ Imp(At[s]) \in Where
    BY Owners, Stages
<1>2. ~Free(q, New(s)) /\ Traffic(q, s, live)
    BY <1>1, TakeFree DEF OwnerInv
<1>3. Unaware(q, s, box, prep, acks)
    BY <1>2 DEF OwnerInv, Phase, Calling, Acking, Waiting
<1>4. g \in live
  <2>1. Head(q[Imp(At[s])]) \in FromCell(s)
      BY DEF FromCell
  <2>2. ASSUME g \notin live PROVE ~Free(q, AllOfOwner(s, live))
    <3>1. Head(q[Imp(At[s])]) \in AllOfOwner(s, live)
        BY <2>1, <2>2 DEF AllOfOwner
    <3> QED BY <3>1, <1>1, TakeFree
  <2> QED BY <2>2, <1>2 DEF Traffic, AllOfOwner
<1>5. r \in [Where -> Seq(Letters)] /\ Traffic(r, s, live)
    BY <1>1, <1>2, TakenAt, TrafficTake
<1>6. /\ Free(r, New(s)) /\ Free(r, AckOf(s))
      /\ Free(r, Req(s)) <=> Free(q, Req(s))
  <2>1. Single(q, New(s)) /\ Head(q[Imp(At[s])]) \notin Req(s)
      BY <1>2, Apart DEF Traffic
  <2> QED BY <2>1, <1>1, <1>3, TakeFree, TakeSingle DEF Unaware
<1>7. /\ Traffic(t, s, live) /\ Free(t, AckOf(s))
      /\ Free(t, New(s)) <=> Free(r, New(s))
      /\ Free(t, Req(s)) <=> Free(r, Req(s))
  <2>1. \A i \in 1 .. Len(ls) : ls[i] \in CallsOf(s) /\ ls[i].dst \in live
      BY <1>4 DEF CallsTo
  <2>2. /\ r \in [Where -> Seq(Letters)] /\ Traffic(r, s, live) /\ Free(r, AckOf(s))
        /\ t = Joined(r, Up(At[s], CellGate(s)), ls)
      BY <1>5, <1>6
  <2> QED BY <2>1, <2>2, OwnerCalls, SMTT(20)
<1>8. Phase(t, s, box2, live, prep, acks)
    BY <1>3, <1>4, <1>6, <1>7 DEF Phase, Unaware, Calling
<1>9. OnlyCalls(s, box2.cache)
  <2>1. 1 .. Len(<<>>) = {}
      OBVIOUS
  <2> QED BY <2>1 DEF OnlyCalls
<1> QED BY <1>7, <1>8, <1>9 DEF OwnerInv

-----------------------------------------------------------------------------
(* The same for the seat: the letters that leave it as it is.              *)
LEMMA SeatParts ==
    /\ Pk \in SUBSET SeatKinds /\ Fins \in SUBSET SeatKinds
    /\ {l \in Pk : l.dst = l.arg.oldAddr} \in SUBSET SeatKinds
    /\ \A g \in Games : /\ Fin(g) \in SUBSET SeatKinds /\ PkTo(g) \in SUBSET SeatKinds
                        /\ PkOf(g) \in SUBSET SeatKinds
BY DEF SeatKinds, Fin, PkTo, PkOf

LEMMA SeatSame ==
    ASSUME NEW q, NEW r, Same(q, r, SeatKinds),
           NEW live, NEW prep, NEW old, NEW begun, SeatInv(q, live, prep, old, begun)
    PROVE  SeatInv(r, live, prep, old, begun)
<1>1. \A K \in SUBSET SeatKinds : Free(r, K) <=> Free(q, K)
    BY SameFree
<1>2. \A K \in SUBSET SeatKinds : Single(q, K) => Single(r, K)
    BY SameSingle
<1>3. \A K, M \in SUBSET SeatKinds :
          /\ Ahead(q, Stage, K, M) => Ahead(r, Stage, K, M)
          /\ JoinAhead(q, Stage, K, M) => JoinAhead(r, Stage, K, M)
    BY SameOrder
<1>4. ASSUME NEW K \in SUBSET SeatKinds, NEW u, JoinAt(q, Stage, K, u)
      PROVE  JoinAt(r, Stage, K, u)
    BY <1>4, SameJoinAt
<1>5. Seat(r, live)
    BY <1>1, <1>2, SeatParts DEF SeatInv, Seat
<1>6. \A g \in Games : OldCell(r, g, old)
    BY <1>1, <1>2, SeatParts DEF SeatInv, OldCell
<1>7. NoReturn(r, live)
    BY <1>3, <1>4, SeatParts DEF SeatInv, NoReturn
<1>8. OneMigration(r, begun, prep)
    BY <1>1, SeatParts DEF SeatInv, OneMigration
<1> QED BY <1>5, <1>6, <1>7, <1>8 DEF SeatInv

LEMMA SeatPass ==
    ASSUME NEW q \in [Where -> Seq(Letters)], NEW v \in Where, q[v] # <<>>,
           NEW r, r = Taken(q, v), Head(q[v]) \notin SeatKinds,
           NEW live, NEW prep, NEW old, NEW begun, SeatInv(q, live, prep, old, begun)
    PROVE  SeatInv(r, live, prep, old, begun)
<1>1. ASSUME NEW K \in SUBSET SeatKinds PROVE Free(r, K) <=> Free(q, K)
    BY TakeFree
<1>2. ASSUME NEW K PROVE Single(q, K) => Single(r, K)
    BY TakeSingle
<1>3. ASSUME NEW K, NEW M
      PROVE  /\ Ahead(q, Stage, K, M) => Ahead(r, Stage, K, M)
             /\ JoinAhead(q, Stage, K, M) => JoinAhead(r, Stage, K, M)
    BY TakeOrder
<1>4. ASSUME NEW K, NEW u, JoinAt(q, Stage, K, u)
      PROVE  JoinAt(r, Stage, K, u)
    BY <1>4, TakeJoinAt
<1>5. Seat(r, live)
    BY <1>1, <1>2, SeatParts DEF SeatInv, Seat
<1>6. \A g \in Games : OldCell(r, g, old)
    BY <1>1, <1>2, SeatParts DEF SeatInv, OldCell
<1>7. NoReturn(r, live)
    BY <1>3, <1>4 DEF SeatInv, NoReturn
<1>8. OneMigration(r, begun, prep)
    BY <1>1, SeatParts DEF SeatInv, OneMigration
<1> QED BY <1>5, <1>6, <1>7, <1>8 DEF SeatInv

LEMMA SeatHop ==
    ASSUME NEW q \in [Where -> Seq(Letters)], NEW v, NEW w, NEW r, Hop(q, r, v, w), Placed(q),
           NEW live, NEW prep, NEW old, NEW begun, SeatInv(q, live, prep, old, begun)
    PROVE  SeatInv(r, live, prep, old, begun)
<1>0. /\ v \in Where /\ w \in Where /\ v # w /\ q[v] # <<>> /\ r = Moved(q, v, w)
      /\ Stage[w] = Stage[v] + 1
    BY DEF Hop
<1>1. ASSUME NEW K PROVE Free(r, K) <=> Free(q, K)
    BY <1>0, MoveFree
<1>2. ASSUME NEW K PROVE Single(q, K) => Single(r, K)
    BY <1>0, MoveSingle
<1>3. Stage[w] # 1
  <2>1. Stage[v] \in {1, 2, 3}
      BY <1>0, Stages
  <2> QED BY <2>1, <1>0
<1>4. ASSUME NEW K, NEW u, JoinAt(q, Stage, K, u)
      PROVE  JoinAt(r, Stage, K, u)
    BY <1>0, <1>3, <1>4, MoveJoinAt
<1>5. ASSUME NEW K, NEW M, JoinAhead(q, Stage, K, M)
      PROVE  JoinAhead(r, Stage, K, M)
    BY <1>0, <1>3, <1>5, MoveJoinAhead
<1>6. ASSUME LoneGate, NEW g \in Games, Ahead(q, Stage, Fin(g), PkTo(g))
      PROVE  Ahead(r, Stage, Fin(g), PkTo(g))
  <2>1. \A l \in Fin(g) \cup PkTo(g) : l.via = ClientGate /\ l.dst = g
      BY <1>6, SeatKind DEF LoneGate, Fin, PkTo
  <2> QED BY <2>1, <1>6, HopOrder
<1>7. Seat(r, live)
    BY <1>1, <1>2 DEF SeatInv, Seat
<1>8. \A g \in Games : OldCell(r, g, old)
    BY <1>1, <1>2 DEF SeatInv, OldCell
<1>9. NoReturn(r, live)
    BY <1>4, <1>5, <1>6 DEF SeatInv, NoReturn
<1>10. OneMigration(r, begun, prep)
    BY <1>1 DEF SeatInv, OneMigration
<1> QED BY <1>7, <1>8, <1>9, <1>10 DEF SeatInv

-----------------------------------------------------------------------------
(* The steps of a migration, seen from the seat.                           *)

(* It begins: with several gates, it is the first.                         *)
LEMMA SeatBegins ==
    ASSUME NEW q, NEW live, NEW prep, NEW old, NEW begun \in Nat,
           SeatInv(q, live, {}, old, begun), LoneGate \/ begun = 0
    PROVE  SeatInv(q, live, prep, old, begun + 1)
BY DEF SeatInv, OneMigration

(* The cell of g leaves.                                                   *)
LEMMA PacketLeaves ==
    ASSUME NEW q \in [Where -> Seq(Letters)], NEW g \in Games, NEW prep, prep # {}, NEW old,
           g \notin old, NEW begun, SeatInv(q, {g}, prep, old, begun),
           NEW l \in Pk, l.arg.oldAddr = g, l.dst # g, NEW r, r = Posted(q, Up(g, l.via), l)
    PROVE  SeatInv(r, {}, {}, old \cup {g}, begun)
<1> DEFINE w == Up(g, l.via)
<1>1. l \in Letters /\ l.via \in Gates /\ l \notin Fins
    BY SeatKind, Apart
<1>2. w \in Where /\ Stage[w] = 1 /\ r = Posted(q, w, l) /\ w = Up(g, l.via)
    BY <1>1, Owners, Stages
<1> HIDE DEF w
<1>3. ASSUME NEW K, l \notin K
      PROVE  (Free(r, K) <=> Free(q, K)) /\ (Single(q, K) => Single(r, K))
    BY <1>1, <1>2, <1>3, PostedFree
<1>4. /\ Free(q, Pk) /\ Free(q, Fin(g))
      /\ \A h \in Games : l \notin Fin(h) /\ Single(q, Fin(h)) /\ (Free(q, Fin(h)) \/ h \in old)
    BY <1>1 DEF SeatInv, Seat, OldCell, Fin
<1>5. Seat(r, {})
  <2>1. ~Free(r, Pk) /\ Single(r, Pk)
      BY <1>1, <1>2, <1>4, PostedFree
  <2>2. l \notin {k \in Pk : k.dst = k.arg.oldAddr}
      OBVIOUS
  <2> QED BY <2>1, <2>2, <1>3 DEF SeatInv, Seat
<1>6. ASSUME NEW h \in Games PROVE OldCell(r, h, old \cup {g})
  <2>1. Single(r, Fin(h)) /\ (Free(r, Fin(h)) <=> Free(q, Fin(h)))
      BY <1>3, <1>4
  <2>2. CASE h = g
      BY <2>1, <2>2, <1>4 DEF OldCell
  <2>3. CASE h # g
    <3>1. l \notin PkOf(h)
        BY <2>3 DEF PkOf
    <3>2. Free(q, PkOf(h))
        BY <1>4 DEF Free, PkOf
    <3> QED BY <2>1, <3>1, <3>2, <1>3, <1>4 DEF OldCell
  <2> QED BY <2>2, <2>3
<1>7. NoReturn(r, {})
  <2> SUFFICES ASSUME LoneGate
               PROVE  /\ \A h \in Games : Ahead(r, Stage, Fin(h), PkTo(h))
                      /\ JoinAhead(r, Stage, Fins, Pk)
      BY DEF NoReturn
  <2>1. JoinAt(q, Stage, Fins, w) /\ JoinAhead(q, Stage, Fins, Pk)
        /\ \A h \in Games : Ahead(q, Stage, Fin(h), PkTo(h))
      BY <1>1, <1>2 DEF SeatInv, NoReturn, LoneGate
  <2>2. ASSUME NEW h \in Games PROVE Ahead(r, Stage, Fin(h), PkTo(h))
    <3>1. JoinAt(q, Stage, Fin(h), w)
        BY <2>1 DEF JoinAt, Fin
    <3>2. Ahead(q, Stage, Fin(h), PkTo(h)) /\ l \notin Fin(h)
        BY <2>1, <1>4
    <3> QED BY <3>1, <3>2, <1>1, <1>2, PostedOrder
  <2>3. JoinAhead(r, Stage, Fins, Pk)
    <3> DEFINE ls == <<l>>
    <3>1. ls \in Seq(Letters) /\ Without(ls, Fins) /\ r = Joined(q, w, ls)
        BY <1>1, <1>2, OneLetter DEF Posted
    <3> HIDE DEF ls
    <3>2. JoinAt(q, Stage, Fins, w) /\ JoinAhead(q, Stage, Fins, Pk) /\ w \in Where
        BY <2>1, <1>2
    <3> QED BY <3>1, <3>2, JoinJoinAhead, SMTT(30)
  <2> QED BY <2>2, <2>3
<1>8. OneMigration(r, begun, {})
  <2>1. ~LoneGate => begun # 0 /\ Free(q, Fins)
      BY DEF SeatInv, OneMigration
  <2>2. Free(r, Fins) <=> Free(q, Fins)
      BY <1>1, <1>3
  <2> QED BY <2>1, <2>2 DEF OneMigration
<1> QED BY <1>5, <1>6, <1>7, <1>8 DEF SeatInv

(* The packet has come to g from h; the new cell is about to say so.       *)
Arriving(q, g, h, old, begun) ==
    /\ Free(q, Pk) /\ Free(q, Fin(g)) /\ Free(q, Fin(h))
    /\ \A k \in Games : Single(q, Fin(k)) /\ (Free(q, Fin(k)) \/ k \in old)
    /\ LoneGate => JoinAt(q, Stage, Fins, Up(g, ClientGate))
    /\ ~LoneGate => begun # 0 /\ Free(q, Fins)

LEMMA PacketArrives ==
    ASSUME NEW q \in [Where -> Seq(Letters)], NEW g \in Games, q[Imp(g)] # <<>>,
           NEW l \in Pk, l = Head(q[Imp(g)]), l.dst = g, NEW h, h = l.arg.oldAddr,
           NEW live, NEW prep, NEW old, NEW begun, SeatInv(q, live, prep, old, begun),
           NEW r, r = Taken(q, Imp(g))
    PROVE  live = {} /\ h \in old /\ h # g /\ h \in Games /\ Arriving(r, g, h, old, begun)
<1>1. g \in Nodes /\ Imp(g) \in Where /\ Stage[Imp(g)] # 1
    BY Owners, Stages
<1>2. h \in Games
    BY SeatKind DEF PacketType
<1>3. ASSUME NEW K, l \in K PROVE ~Free(q, K)
    BY <1>1, <1>3, TakeFree
<1>4. ~Free(q, Pk) /\ ~Free(q, PkOf(h)) /\ (h = g => ~Free(q, {k \in Pk : k.dst = k.arg.oldAddr}))
    BY <1>3 DEF PkOf
<1>5. live = {} /\ h # g /\ h \in old /\ Free(q, Fin(h))
    BY <1>2, <1>4 DEF SeatInv, Seat, OldCell
<1>6. ASSUME NEW K PROVE (Free(q, K) => Free(r, K)) /\ (Single(q, K) => Single(r, K))
    BY <1>1, TakeFree, TakeSingle
<1>7. Free(r, Pk)
    BY <1>1, TakeSingle DEF SeatInv, Seat
<1>8. Free(q, Fin(g))
  <2>1. CASE LoneGate
    <3>1. Ahead(q, Stage, Fin(g), PkTo(g)) /\ l \in PkTo(g)
        BY <2>1 DEF SeatInv, NoReturn, PkTo
    <3> QED BY <3>1, <1>1, Arrived
  <2>2. CASE ~LoneGate
    <3>1. Free(q, Fins)
        BY <2>2, <1>4 DEF SeatInv, OneMigration
    <3> QED BY <3>1 DEF Free, Fin
  <2> QED BY <2>1, <2>2
<1>9. LoneGate => JoinAt(r, Stage, Fins, Up(g, ClientGate))
  <2> SUFFICES ASSUME LoneGate PROVE JoinAt(r, Stage, Fins, Up(g, ClientGate))
      OBVIOUS
  <2>1. JoinAhead(q, Stage, Fins, Pk)
      BY DEF SeatInv, NoReturn
  <2>2. \A u : JoinAt(q, Stage, Fins, u)
      BY <2>1, <1>1, JoinedBefore
  <2> QED BY <2>2, <1>1, TakeJoinAt
<1>10. ~LoneGate => begun # 0 /\ Free(r, Fins)
    BY <1>4, <1>6 DEF SeatInv, OneMigration
<1>11. \A k \in Games : Single(r, Fin(k)) /\ (Free(r, Fin(k)) \/ k \in old)
    BY <1>6 DEF SeatInv, OldCell
<1> QED BY <1>2, <1>5, <1>6, <1>7, <1>8, <1>9, <1>10, <1>11 DEF Arriving

LEMMA ArrivingSame ==
    ASSUME NEW q, NEW r, Same(q, r, SeatKinds), NEW g \in Games, NEW h \in Games, NEW old, NEW begun,
           Arriving(q, g, h, old, begun)
    PROVE  Arriving(r, g, h, old, begun)
<1>1. \A K \in SUBSET SeatKinds : Free(r, K) <=> Free(q, K)
    BY SameFree
<1>2. \A K \in SUBSET SeatKinds : Single(q, K) => Single(r, K)
    BY SameSingle
<1>3. LoneGate => JoinAt(r, Stage, Fins, Up(g, ClientGate))
    BY SameJoinAt, SeatParts DEF Arriving
<1> QED BY <1>1, <1>2, <1>3, SeatParts DEF Arriving

(* The old cell is told to go.                                             *)
LEMMA FinishLeaves ==
    ASSUME NEW q \in [Where -> Seq(Letters)], NEW g \in Games, NEW h \in Games, NEW old, NEW begun,
           h \in old, h # g, Arriving(q, g, h, old, begun),
           NEW l \in Fin(h), NEW r, r = Posted(q, Up(g, l.via), l)
    PROVE  SeatInv(r, {g}, {}, old \ {g}, begun)
<1> DEFINE w == Up(g, l.via)
<1>1. l \in Letters /\ l.via \in Gates /\ l \in Fins /\ l \notin Pk
    BY SeatKind, Apart DEF Fin
<1>2. w \in Where /\ Stage[w] = 1 /\ r = Posted(q, w, l) /\ w = Up(g, l.via)
    BY <1>1, Owners, Stages
<1> HIDE DEF w
<1>3. ASSUME NEW K, l \notin K
      PROVE  (Free(r, K) <=> Free(q, K)) /\ (Single(q, K) => Single(r, K))
    BY <1>1, <1>2, <1>3, PostedFree
<1>4. Free(r, Pk) /\ \A k \in Games : Free(r, PkTo(k)) /\ Free(r, PkOf(k))
  <2>1. Free(r, Pk)
      BY <1>1, <1>3 DEF Arriving
  <2> QED BY <2>1 DEF Free, PkTo, PkOf
<1>5. Seat(r, {g})
  <2>1. Single(r, Pk) /\ Free(r, {k \in Pk : k.dst = k.arg.oldAddr})
      BY <1>4 DEF Free, Single
  <2> QED BY <2>1, <1>4 DEF Seat
<1>6. ASSUME NEW k \in Games PROVE OldCell(r, k, old \ {g})
  <2>1. CASE k = h
    <3>1. Single(r, Fin(k))
        BY <2>1, <1>1, <1>2, PostedFree DEF Arriving
    <3> QED BY <2>1, <3>1, <1>4 DEF OldCell
  <2>2. CASE k # h
    <3>1. l \notin Fin(k)
        BY <2>2 DEF Fin
    <3> QED BY <3>1, <1>3, <1>4 DEF OldCell, Arriving
  <2> QED BY <2>1, <2>2
<1>7. NoReturn(r, {g})
  <2> SUFFICES ASSUME LoneGate
               PROVE  /\ \A k \in Games : Ahead(r, Stage, Fin(k), PkTo(k))
                      /\ JoinAhead(r, Stage, Fins, Pk)
                      /\ JoinAt(r, Stage, Fins, Up(g, ClientGate))
      BY DEF NoReturn
  <2>1. w = Up(g, ClientGate) /\ JoinAt(q, Stage, Fins, Up(g, ClientGate))
      BY <1>1, <1>2 DEF LoneGate, Arriving
  <2>2. JoinAt(r, Stage, Fins, Up(g, ClientGate))
      BY <2>1, <1>1, <1>2, PostedAt
  <2> QED BY <2>2, <1>4, FreeAhead
<1>8. OneMigration(r, begun, {})
    BY <1>4 DEF OneMigration, Arriving
<1> QED BY <1>5, <1>6, <1>7, <1>8 DEF SeatInv

(* It has been told.                                                       *)
LEMMA FinishArrives ==
    ASSUME NEW q \in [Where -> Seq(Letters)], NEW n \in Nodes, q[Imp(n)] # <<>>,
           NEW g \in Games, NEW l \in Fin(g), l = Head(q[Imp(n)]),
           NEW live, NEW prep, NEW old, NEW begun, SeatInv(q, live, prep, old, begun),
           NEW r, r = Taken(q, Imp(n))
    PROVE  g \in old /\ SeatInv(r, live, prep, old \ {g}, begun)
<1>1. Imp(n) \in Where /\ l \in Fins /\ l \notin Pk
    BY Stages, SeatKind, Apart DEF Fin
<1>2. ~Free(q, Fin(g))
    BY <1>1, TakeFree
<1>3. g \in old /\ Free(q, PkOf(g))
    BY <1>2 DEF SeatInv, OldCell
<1>4. Free(r, Fin(g))
    BY <1>1, TakeSingle DEF SeatInv, OldCell
<1>5. ASSUME NEW K PROVE (Free(q, K) => Free(r, K)) /\ (Single(q, K) => Single(r, K))
    BY <1>1, TakeFree, TakeSingle
<1>6. Free(r, Pk) <=> Free(q, Pk)
    BY <1>1, TakeFree
<1>7. ASSUME NEW K, NEW M
      PROVE  /\ Ahead(q, Stage, K, M) => Ahead(r, Stage, K, M)
             /\ JoinAhead(q, Stage, K, M) => JoinAhead(r, Stage, K, M)
    BY <1>1, TakeOrder
<1>8. ASSUME NEW K, NEW u, JoinAt(q, Stage, K, u)
      PROVE  JoinAt(r, Stage, K, u)
    BY <1>1, <1>8, TakeJoinAt
<1>9. Seat(r, live)
    BY <1>5, <1>6 DEF SeatInv, Seat
<1>10. ASSUME NEW k \in Games PROVE OldCell(r, k, old \ {g})
    BY <1>3, <1>4, <1>5 DEF SeatInv, OldCell
<1>11. NoReturn(r, live)
    BY <1>7, <1>8 DEF SeatInv, NoReturn
<1>12. OneMigration(r, begun, prep)
    BY <1>5, <1>6 DEF SeatInv, OneMigration
<1> QED BY <1>3, <1>9, <1>10, <1>11, <1>12 DEF SeatInv

-----------------------------------------------------------------------------
(* What the actions do to the mail.                                        *)
LEMMA SentPosted ==
    ASSUME NEW u \in Ups, NEW d \in Ups3, NEW m \in Imps, NEW n \in Nodes, NEW l \in Letters
    PROVE  /\ Sent(u, n, l) \in Ups /\ Up(n, l.via) \in Where
           /\ Queues(Sent(u, n, l), d, m) = Posted(Queues(u, d, m), Up(n, l.via), l)
           /\ Queues(Sent(u, n, l), d, m) \in [Where -> Seq(Letters)]
           /\ Placed(Queues(u, d, m)) => Placed(Queues(Sent(u, n, l), d, m))
           /\ \A X : l \notin X => Same(Queues(u, d, m), Queues(Sent(u, n, l), d, m), X)
<1> DEFINE q == Queues(u, d, m)
           r == Queues(Sent(u, n, l), d, m)
           ls == <<l>>
           w == Up(n, l.via)
<1>1. l.via \in Gates
    BY LetterAddress
<1>2. r = Joined(q, w, ls) /\ Sent(u, n, l) \in Ups /\ ls \in Seq(Letters) /\ w \in Where
    BY SentJoined
<1>3. q \in [Where -> Seq(Letters)] /\ r \in [Where -> Seq(Letters)]
    BY <1>2, QueuesType
<1>4. \A i \in 1 .. Len(ls) : ls[i].via = l.via
    BY OneLetter
<1>5. \A X : l \notin X => Without(ls, X)
    BY OneLetter
<1> HIDE DEF q, r, ls
<1>6. Placed(q) => Placed(r)
    BY <1>1, <1>2, <1>3, <1>4, PlacedJoin
<1> HIDE DEF w
<1>7. \A X : l \notin X => Same(q, r, X)
    BY <1>2, <1>3, <1>5, JoinSame
<1> QED BY <1>2, <1>3, <1>6, <1>7 DEF q, r, ls, w, Posted

(* Owner s gets l from g: nothing else of what is between it and the cell  *)
(* changes.                                                                *)
Given(q, r, s, g, l) ==
    \E a, b \in [Where -> Seq(Letters)] :
        /\ Same(q, a, OwnerKinds(s))
        /\ b = Posted(a, Up(g, l.via), l)
        /\ Same(b, r, OwnerKinds(s))

LEMMA OwnerLetterKinds ==
    ASSUME NEW g \in Games, NEW s \in Sources, NEW op \in OwnerOps
    PROVE  /\ ToOwner(g, s, op) \in Letters
           /\ ToOwner(g, s, op) \in FromCell(s)
           /\ ToOwner(g, s, op) \notin SeatKinds
           /\ \A t \in Sources : t # s => ToOwner(g, s, op) \notin OwnerKinds(t)
<1> DEFINE l == ToOwner(g, s, op)
<1>1. l \in Letters /\ l.to = s /\ l.op = op
    BY DEF Letters, OwnerLetters, ToOwner, Letter
<1>2. l \in FromCell(s)
    BY <1>1 DEF FromCell, Req, New, OwnerOps
<1>3. l \in OwnerKinds(s)
    BY <1>2 DEF OwnerKinds
<1> HIDE DEF l
<1>4. l \notin SeatKinds /\ \A t \in Sources : t # s => l \notin OwnerKinds(t)
    BY <1>3, Apart
<1> QED BY <1>1, <1>2, <1>4 DEF l

LEMMA Told ==
    ASSUME NEW u \in Ups, NEW d \in Ups3, NEW m \in Imps, NEW g \in Games, NEW op \in OwnerOps,
           NEW q, q = Queues(u, d, m), NEW r, r = Queues(TellOwners(u, g, op), d, m)
    PROVE  /\ r \in [Where -> Seq(Letters)] /\ Same(q, r, SeatKinds)
           /\ Placed(q) => Placed(r)
           /\ \A s \in Sources : Given(q, r, s, g, ToOwner(g, s, op))
<1> DEFINE l(s) == ToOwner(g, s, op)
           v == Sent(u, g, l("base"))
           a == Queues(v, d, m)
<1>1. "base" \in Sources /\ g \in Nodes /\ q \in [Where -> Seq(Letters)]
    BY Owners, QueuesType
<1>2. \A s \in Sources : /\ l(s) \in Letters /\ l(s) \notin SeatKinds
                         /\ \A t \in Sources : t # s => l(s) \notin OwnerKinds(t)
    BY OwnerLetterKinds
<1>3. /\ v \in Ups /\ a = Posted(q, Up(g, l("base").via), l("base"))
      /\ a \in [Where -> Seq(Letters)] /\ (Placed(q) => Placed(a)) /\ Same(q, a, SeatKinds)
      /\ \A t \in Sources : t # "base" => Same(q, a, OwnerKinds(t))
  <2>1. l("base") \in Letters
      BY <1>1, <1>2
  <2> HIDE DEF l
  <2>2. /\ v \in Ups /\ a = Posted(q, Up(g, l("base").via), l("base"))
        /\ a \in [Where -> Seq(Letters)] /\ (Placed(q) => Placed(a))
        /\ \A X : l("base") \notin X => Same(q, a, X)
      BY <2>1, <1>1, SentPosted
  <2> QED BY <2>2, <1>1, <1>2
<1>4. CASE "client" \notin Sources
  <2>1. r = a
      BY <1>4 DEF TellOwners
  <2>2. \A s \in Sources : s = "base"
      BY <1>4, SourcesAssumption
  <2>3. Given(q, r, "base", g, l("base"))
      BY <1>1, <1>3, <2>1, SameSelf DEF Given
  <2> QED BY <2>1, <2>2, <2>3, <1>3
<1>5. CASE "client" \in Sources
  <2>1. r = Queues(Sent(v, g, l("client")), d, m)
      BY <1>5 DEF TellOwners
  <2>2. l("client") \in Letters
      BY <1>2, <1>5
  <2> HIDE DEF l, v, a
  <2>3. /\ r = Posted(a, Up(g, l("client").via), l("client"))
        /\ r \in [Where -> Seq(Letters)] /\ (Placed(a) => Placed(r))
        /\ \A X : l("client") \notin X => Same(a, r, X)
      BY <2>1, <2>2, <1>1, <1>3, SentPosted DEF a
  <2>4. Same(q, r, SeatKinds)
    <3>1. Same(a, r, SeatKinds)
        BY <2>3, <1>2, <1>5
    <3> QED BY <3>1, <1>3, SameTrans
  <2>5. Given(q, r, "base", g, l("base"))
    <3>1. Same(a, r, OwnerKinds("base"))
        BY <2>3, <1>1, <1>2, <1>5
    <3> QED BY <3>1, <1>1, <1>3, SameSelf DEF Given
  <2>6. Given(q, r, "client", g, l("client"))
    <3>1. Same(q, a, OwnerKinds("client"))
        BY <1>3, <1>5
    <3> QED BY <3>1, <2>3, <1>3, SameSelf DEF Given
  <2>7. \A s \in Sources : s = "base" \/ s = "client"
      BY SourcesAssumption
  <2> QED BY <2>3, <2>4, <2>5, <2>6, <2>7, <1>3 DEF l
<1> QED BY <1>4, <1>5

(* The letter the main thread takes.                                       *)
LEMMA TakenLetter ==
    ASSUME TypeInv, Placed(Mail), DecodedInv, NEW n \in Nodes, NEW to, NEW op, Take(n, to, op)
    PROVE  /\ Head(imp[n]).letter \in Letters /\ Head(imp[n]).letter.to = to
           /\ Head(imp[n]).letter.op = op /\ Head(imp[n]).letter.dst = n
           /\ Head(imp[n]).decoded
           /\ Mail \in [Where -> Seq(Letters)] /\ Imp(n) \in Where /\ Mail[Imp(n)] # <<>>
           /\ Head(Mail[Imp(n)]) = Head(imp[n]).letter
           /\ imp' \in Imps /\ up \in Ups /\ down \in Ups3
           /\ Queues(up, down, imp') = Taken(Mail, Imp(n))
           /\ \A k \in Nodes : \A i \in 1 .. Len(imp'[k]) : imp'[k][i].decoded
<1>1. up \in Ups /\ down \in Ups3 /\ imp \in Imps /\ Mail \in [Where -> Seq(Letters)]
    BY MailType
<1>2. /\ imp[n] # <<>> /\ Head(imp[n]).letter.to = to /\ Head(imp[n]).letter.op = op
      /\ imp' = [imp EXCEPT ![n] = Tail(@)]
    BY DEF Take
<1>3. /\ Queues(up, down, imp') = Taken(Mail, Imp(n)) /\ imp' \in Imps
      /\ Mail[Imp(n)] # <<>> /\ Head(Mail[Imp(n)]) = Head(imp[n]).letter
      /\ Head(imp[n]).letter \in Letters
    BY <1>1, <1>2, TakeMail DEF Mail
<1>4. Imp(n) \in Where
    BY Stages
<1>5. Head(imp[n]).letter.dst = n
  <2>1. Mail[Imp(n)] \in Seq(Letters)
      BY <1>1, <1>4
  <2>2. 1 \in 1 .. Len(Mail[Imp(n)]) /\ Mail[Imp(n)][1] = Head(Mail[Imp(n)])
      BY <2>1, <1>3
  <2>3. Imp(n)[1] = 3 /\ Imp(n)[2] = n
      BY DEF Imp
  <2> QED BY <2>2, <2>3, <1>3, <1>4 DEF Placed
<1>6. imp[n] \in Seq(Entries) /\ Len(imp[n]) > 0
  <2>1. imp[n] \in Seq(Entries)
      BY <1>1 DEF Imps, Entries
  <2> QED BY <2>1, <1>2
<1>7. Head(imp[n]) = imp[n][1] /\ Head(imp[n]).decoded
  <2>1. Head(imp[n]) = imp[n][1] /\ 1 \in 1 .. Len(imp[n])
      BY <1>6
  <2> QED BY <2>1 DEF DecodedInv
<1>8. ASSUME NEW k \in Nodes, NEW i \in 1 .. Len(imp'[k])
      PROVE  imp'[k][i].decoded
  <2>1. CASE k = n
    <3>1. imp'[k] = Tail(imp[n])
        BY <2>1, <1>1, <1>2 DEF Imps
    <3>2. i + 1 \in 1 .. Len(imp[n]) /\ imp'[k][i] = imp[n][i + 1]
        BY <3>1, <1>6
    <3> QED BY <3>2 DEF DecodedInv
  <2>2. CASE k # n
    <3>1. imp'[k] = imp[k]
        BY <2>2, <1>1, <1>2 DEF Imps
    <3> QED BY <3>1 DEF DecodedInv
  <2> QED BY <2>1, <2>2
<1> QED BY <1>1, <1>2, <1>3, <1>4, <1>5, <1>7, <1>8

-----------------------------------------------------------------------------
(* The cells.                                                              *)
LEMMA CellFacts ==
    ASSUME TypeInv
    PROVE  /\ Live \subseteq Games /\ Frozen \subseteq Games /\ Old \subseteq Frozen
           /\ Prep \subseteq Live
           /\ \A g \in Games : Exists(g) => cells[g] \in CellType
           /\ \A g \in Live : cells[g] \in CellType /\ cells[g].state \in {"None", "Prepare"}
           /\ \A g \in Live : g \notin Frozen
<1>1. \A g \in Games : Exists(g) => cells[g] \in CellType
    BY DEF TypeInv, Places, Exists
<1>2. \A c \in CellType : c.state \in {"None", "Prepare", "RealMigrate"}
    BY DEF CellType
<1> QED BY <1>1, <1>2 DEF Live, Frozen, Old, Prep

(* At most one cell is in charge.                                          *)
LEMMA LoneLive ==
    ASSUME TypeInv, AuthorityInv, NEW g \in Live
    PROVE  /\ Live = {g} /\ Acks = cells[g].acks
           /\ Prep = IF cells[g].state = "Prepare" THEN {g} ELSE {}
<1>1. Live = {g}
    BY DEF AuthorityInv, SeatInv, Seat
<1> QED BY <1>1 DEF Acks, Prep

-----------------------------------------------------------------------------
(* The steps.                                                              *)
LEMMA EmptyMail ==
    ASSUME Init
    PROVE  /\ DOMAIN Mail = Where /\ \A w \in Where : 1 .. Len(Mail[w]) = {}
           /\ \A K : Free(Mail, K) /\ Single(Mail, K) /\ \A u : JoinAt(Mail, Stage, K, u)
           /\ \A K, M : Ahead(Mail, Stage, K, M) /\ JoinAhead(Mail, Stage, K, M)
<1>0. TypeInv
    BY InitType
<1>1. \A w \in Where : Mail[w] = <<>>
  <2>1. ASSUME NEW w \in Where PROVE Mail[w] = <<>>
    <3>1. w[1] \in {1, 2, 3} /\ w[2] \in Nodes /\ w[3] \in Gates
        BY Stages
    <3>2. up[w[2]][w[3]] = <<>> /\ down[w[3]][w[2]] = <<>> /\ imp[w[2]] = <<>>
        BY <3>1 DEF Init
    <3>3. LettersOf(<<>>) = <<>>
      <4>1. <<>> \in Seq([letter : Letters, decoded : BOOLEAN])
          BY NoneQueued
      <4>2. LettersOf(<<>>) \in Seq(Letters) /\ Len(LettersOf(<<>>)) = 0
          BY <4>1, LettersOfType
      <4> QED BY <4>2
    <3>4. Mail[w] = IF w[1] = 1 THEN up[w[2]][w[3]]
                    ELSE IF w[1] = 2 THEN down[w[3]][w[2]]
                    ELSE IF w[3] = ClientGate THEN LettersOf(imp[w[2]]) ELSE <<>>
        BY DEF Mail, Queues
    <3> QED BY <3>2, <3>3, <3>4
  <2> QED BY <2>1
<1>2. DOMAIN Mail = Where /\ \A w \in Where : 1 .. Len(Mail[w]) = {}
  <2>1. 1 .. Len(<<>>) = {}
      OBVIOUS
  <2> QED BY <1>1, <2>1 DEF Mail, Queues
<1>3. \A K : Free(Mail, K)
    BY <1>2 DEF Free
<1>4. \A K : Single(Mail, K) /\ \A u : JoinAt(Mail, Stage, K, u)
    BY <1>3, FreeJoinAt
<1>5. \A K, M : Ahead(Mail, Stage, K, M) /\ JoinAhead(Mail, Stage, K, M)
    BY <1>3, FreeAhead
<1> QED BY <1>2, <1>3, <1>4, <1>5

LEMMA AuthorityInit == Init => AuthorityInv
<1> SUFFICES ASSUME Init PROVE AuthorityInv
    OBVIOUS
<1>2. DOMAIN Mail = Where /\ \A w \in Where : 1 .. Len(Mail[w]) = {}
    BY EmptyMail
<1>3. \A K : Free(Mail, K)
    BY EmptyMail
<1>4. \A K : Single(Mail, K) /\ \A u : JoinAt(Mail, Stage, K, u)
    BY EmptyMail
<1>5. \A K, M : Ahead(Mail, Stage, K, M) /\ JoinAhead(Mail, Stage, K, M)
    BY EmptyMail
<1>6. /\ Home \in Games /\ cells[Home] = NewCell([s \in Sources |-> <<>>], Belongings)
      /\ \A g \in Games : g # Home => cells[g] = NoCell
    BY Routes DEF Init
<1>7. cells[Home].state = "None" /\ cells[Home].acks = {} /\ ~cells[Home].dying
    BY <1>6 DEF NewCell
<1>8. Exists(Home)
  <2>1. [s \in Sources |-> <<>>] \in [Sources -> Seq(Nat)]
      BY NoneQueued
  <2>2. cells[Home] \in CellType
      BY <2>1, <1>6 DEF NewCell, CellType
  <2> QED BY <2>2, NoCellAssumption DEF Exists
<1>9. Live = {Home} /\ Frozen = {} /\ Old = {} /\ Prep = {} /\ Acks = {}
  <2>1. Live = {Home} /\ Frozen = {}
      BY <1>6, <1>7, <1>8 DEF Live, Frozen, Exists
  <2> QED BY <2>1, <1>7 DEF Old, Prep, Acks
<1>10. CellsInv
    BY <1>7, <1>9 DEF CellsInv
<1>11. DecodedInv
  <2>1. 1 .. Len(<<>>) = {}
      OBVIOUS
  <2> QED BY <2>1 DEF DecodedInv, Init
<1>12. Placed(Mail)
    BY <1>2 DEF Placed
<1>13. SeatInv(Mail, Live, Prep, Old, migrations)
    BY <1>3, <1>4, <1>5, <1>9 DEF SeatInv, Seat, OldCell, NoReturn, OneMigration
<1>14. ASSUME NEW s \in Sources PROVE OwnerInv(Mail, s, mb[s], Live, Prep, Acks)
  <2>1. mb[s] = [addr |-> Home, caching |-> FALSE, cache |-> <<>>]
      BY DEF Init
  <2>2. Calling(Mail, s, mb[s], Live, Prep, Acks)
      BY <1>3, <1>9, <2>1 DEF Calling
  <2>3. OnlyCalls(s, mb[s].cache)
    <3>1. 1 .. Len(<<>>) = {}
        OBVIOUS
    <3> QED BY <3>1, <2>1 DEF OnlyCalls
  <2>4. Traffic(Mail, s, Live)
      BY <1>3, <1>4, <1>5 DEF Traffic
  <2> QED BY <2>2, <2>3, <2>4 DEF OwnerInv, Phase
<1> QED BY <1>10, <1>11, <1>12, <1>13, <1>14 DEF AuthorityInv

(* The parts of the invariant after a step.                                *)
LEMMA AuthorityNext ==
    ASSUME CellsInv', DecodedInv', Placed(Mail'), SeatInv(Mail', Live', Prep', Old', migrations'),
           \A s \in Sources : OwnerInv(Mail', s, mb'[s], Live', Prep', Acks')
    PROVE  AuthorityInv'
BY DEF AuthorityInv, Placed

(* A step of the transport leaves the cells and the owners as they are.    *)
LEMMA HopStep ==
    ASSUME TypeInv, AuthorityInv, NEW v, NEW w, Hop(Mail, Mail', v, w), DecodedInv',
           UNCHANGED <<cells, mb, migrations>>
    PROVE  AuthorityInv'
<1>1. Mail \in [Where -> Seq(Letters)] /\ Placed(Mail)
    BY MailType DEF AuthorityInv
<1>2. Live' = Live /\ Prep' = Prep /\ Old' = Old /\ Acks' = Acks
    BY DEF Live, Prep, Old, Acks, Frozen, Exists
<1>3. Placed(Mail')
    BY <1>1, PlacedHop
<1>4. SeatInv(Mail', Live, Prep, Old, migrations)
    BY <1>1, SeatHop DEF AuthorityInv
<1>5. ASSUME NEW s \in Sources PROVE OwnerInv(Mail', s, mb[s], Live, Prep, Acks)
    BY <1>1, OwnerHop DEF AuthorityInv, SeatInv, Seat
<1>6. CellsInv'
    BY DEF AuthorityInv, CellsInv, Live, Exists
<1>7. SeatInv(Mail', Live', Prep', Old', migrations')
    BY <1>2, <1>4
<1>8. \A s \in Sources : OwnerInv(Mail', s, mb'[s], Live', Prep', Acks')
    BY <1>2, <1>5
<1> QED BY <1>3, <1>6, <1>7, <1>8, AuthorityNext

LEMMA ForwardKeeps ==
    ASSUME TypeInv, AuthorityInv, NEW n \in Nodes, NEW gate \in Gates, Forward(n, gate)
    PROVE  AuthorityInv' /\ \E v, w : Hop(Mail, Mail', v, w)
<1> DEFINE h == Head(up[n][gate])
           v == Up(n, gate)
           w == Down(gate, h.dst)
<1>1. up \in Ups /\ down \in Ups3 /\ imp \in Imps /\ Mail \in [Where -> Seq(Letters)]
    BY MailType
<1>2. up[n][gate] # <<>> /\ UNCHANGED <<cells, mb, imp, crashed, issued, bounds>>
    BY DEF Forward
<1>3. Mail[v] = up[n][gate] /\ v \in Where
    BY <1>1, QueuesType, Stages DEF Mail
<1>4. h \in Letters /\ h = Mail[v][1] /\ 1 \in 1 .. Len(Mail[v])
  <2>1. up[n][gate] \in Seq(Letters)
      BY <1>1 DEF Ups
  <2> QED BY <2>1, <1>2, <1>3
<1>5. h.via = gate /\ h.dst \in Nodes
  <2>1. h.via = v[3]
    <3>1. v[1] = 1
        BY DEF Up
    <3> QED BY <3>1, <1>3, <1>4 DEF AuthorityInv, Placed
  <2> QED BY <2>1, <1>4, LetterAddress DEF Up
<1>6. Mail' = Moved(Mail, v, w)
  <2>1. h = Head(up[n][gate])
      OBVIOUS
  <2> HIDE DEF h
  <2>2. Queues(up', down', imp) = Moved(Mail, Up(n, gate), Down(gate, h.dst))
      BY <2>1, ForwardMail
  <2> QED BY <2>2, <1>2 DEF Mail
<1>7. Hop(Mail, Mail', v, w)
  <2>1. w \in Where /\ Stage[v] = 1 /\ Stage[w] = 2
      BY <1>5, Stages
  <2>2. w = Down(Head(Mail[v]).via, Head(Mail[v]).dst)
      BY <1>3, <1>5
  <2>3. Mail[v] # <<>>
      BY <1>2, <1>3
  <2>4. v # w
      BY <2>1
  <2> HIDE DEF v, w
  <2> QED BY <2>1, <2>2, <2>3, <2>4, <1>3, <1>6 DEF Hop
<1>8. DecodedInv'
    BY <1>2 DEF AuthorityInv, DecodedInv, bounds
<1>9. AuthorityInv'
    BY <1>2, <1>7, <1>8, HopStep DEF bounds
<1> QED BY <1>7, <1>9

(* What a cell is called for, it is there for.                             *)
LEMMA CellRpcs ==
    ASSUME TypeInv, AuthorityInv, NEW w \in Where, NEW i \in 1 .. Len(Mail[w]),
           NEW h, h = Mail[w][i], h.to = "cell"
    PROVE  \/ h.op = "finish" /\ h \in Fin(h.dst) /\ h.dst \in Old
           \/ /\ h.op = "ack" /\ h.arg \in Sources
              /\ h \in AckOf(h.arg) /\ h.dst \in Live
           \/ /\ h.op = "call" /\ h.arg[1] \in Sources /\ h.arg \in Calls
              /\ h \in CallsOf(h.arg[1]) /\ h.dst \in Live
<1>1. Mail \in [Where -> Seq(Letters)] /\ h \in Letters
  <2>1. Mail \in [Where -> Seq(Letters)]
      BY MailType
  <2>2. Mail[w] \in Seq(Letters)
      BY <2>1
  <2> QED BY <2>1, <2>2, SeqFacts
<1>2. ASSUME NEW K, Free(Mail, K) PROVE h \notin K
  <2>1. DOMAIN Mail = Where
      BY <1>1
  <2> QED BY <2>1, <1>2 DEF Free
<1>3. h.op \in {"call", "ack", "finish"}
    BY <1>1, SourcesAssumption DEF Letters, CallLetters, AckLetters, FinishLetters, OwnerLetters,
           PacketLetters, SendRpc, NewMailBoxCall, ToOwner, Letter, CallRpc, AckRpc
<1>4. CASE h.op = "finish"
  <2>1. h \in Fins /\ h.dst \in Games
      BY <1>4, <1>1, SeatKind DEF Fins
  <2>2. h \in Fin(h.dst)
      BY <2>1 DEF Fin
  <2>3. h.dst \in Old
      BY <2>1, <2>2, <1>2 DEF AuthorityInv, SeatInv, OldCell
  <2> QED BY <2>2, <2>3, <1>4
<1>5. ASSUME NEW s \in Sources, h \in ToCell(s) PROVE h.dst \in Live
  <2>1. Free(Mail, AllOfCell(s, Live))
      BY DEF AuthorityInv, OwnerInv, Traffic, AllOfCell
  <2> QED BY <2>1, <1>2, <1>5 DEF AllOfCell
<1>6. CASE h.op = "call"
  <2>1. PICK c \in Calls, g \in Games : h = SendRpc(c[1], g, CallRpc(c))
      BY <1>6, <1>1, CallLetter
  <2>2. c[1] \in Sources /\ h.arg = c
      BY <2>1 DEF Calls, SendRpc, CallRpc, Letter
  <2>3. h \in CallsOf(c[1])
      BY <2>2, <1>6, <1>1 DEF CallsOf
  <2>4. h.dst \in Live
      BY <2>2, <2>3, <1>5 DEF ToCell
  <2> QED BY <2>2, <2>3, <2>4, <1>6
<1>7. CASE h.op = "ack"
  <2>1. PICK s \in Sources, g \in Games : h = SendRpc(s, g, AckRpc(s))
      BY <1>7, <1>1, AckLetter
  <2>2. h.arg = s
      BY <2>1 DEF SendRpc, AckRpc, Letter
  <2>3. h \in AckOf(s)
      BY <2>2, <1>7, <1>1 DEF AckOf
  <2> QED BY <2>2, <2>3, <1>5, <1>7 DEF ToCell
<1> QED BY <1>3, <1>4, <1>6, <1>7

(* Every rpc for a cell finds it: it is decoded.                           *)
LEMMA ArriveKeeps ==
    ASSUME TypeInv, AuthorityInv, NEW n \in Nodes, NEW gate \in Gates, Arrive(gate, n)
    PROVE  AuthorityInv' /\ \E v, w : Hop(Mail, Mail', v, w)
<1> DEFINE h == Head(down[gate][n])
           v == Down(gate, n)
           w == Imp(n)
           b == h.to = "cell" => Exists(n)
<1>1. up \in Ups /\ down \in Ups3 /\ imp \in Imps /\ Mail \in [Where -> Seq(Letters)]
    BY MailType
<1>2. /\ down[gate][n] # <<>> /\ down' = [down EXCEPT ![gate][n] = Tail(@)]
      /\ imp' = [imp EXCEPT ![n] = Append(@, [letter |-> h, decoded |-> b])]
      /\ UNCHANGED <<cells, mb, up, crashed, issued, bounds>>
    BY DEF Arrive
<1>3. Mail[v] = down[gate][n] /\ v \in Where /\ w \in Where /\ Stage[v] = 2 /\ Stage[w] = 3
    BY <1>1, QueuesType, Stages DEF Mail
<1>4. h \in Letters /\ h = Mail[v][1] /\ 1 \in 1 .. Len(Mail[v])
  <2>1. down[gate][n] \in Seq(Letters)
      BY <1>1 DEF Ups3
  <2> QED BY <2>1, <1>2, <1>3
<1>5. h.dst = n
  <2>1. h.dst = v[2]
    <3>1. v[1] = 2
        BY DEF Down
    <3> QED BY <3>1, <1>3, <1>4 DEF AuthorityInv, Placed
  <2> QED BY <2>1 DEF Down
<1>6. b
  <2> SUFFICES ASSUME h.to = "cell" PROVE Exists(n)
      OBVIOUS
  <2> HIDE DEF h, v
  <2>1. n \in Old \/ n \in Live
      BY <1>3, <1>4, <1>5, CellRpcs
  <2> QED BY <2>1 DEF Old, Frozen, Live
<1>7. Mail' = Moved(Mail, v, w)
  <2>1. h = Head(down[gate][n]) /\ b = (h.to = "cell" => Exists(n))
      OBVIOUS
  <2> HIDE DEF h, b
  <2>3. Queues(up, down', imp') = Moved(Mail, Down(gate, n), Imp(n))
      BY <2>1, ArriveMail
  <2> QED BY <2>3, <1>2 DEF Mail
<1>8. Hop(Mail, Mail', v, w)
  <2>1. w = Imp(Head(Mail[v]).dst) /\ Mail[v] # <<>>
      BY <1>2, <1>3, <1>5
  <2>2. v # w
      BY <1>3
  <2> HIDE DEF v, w
  <2> QED BY <2>1, <2>2, <1>3, <1>7 DEF Hop
<1>9. DecodedInv'
  <2>1. ASSUME NEW k \in Nodes, NEW i \in 1 .. Len(imp'[k])
        PROVE  imp'[k][i].decoded
    <3>1. CASE k # n
      <4>1. imp'[k] = imp[k]
          BY <3>1, <1>1, <1>2 DEF Imps
      <4> QED BY <4>1 DEF AuthorityInv, DecodedInv
    <3>2. CASE k = n
      <4> DEFINE e == [letter |-> h, decoded |-> b]
      <4>1. imp'[n] = Append(imp[n], e) /\ e.decoded /\ imp[n] \in Seq(Entries)
          BY <1>1, <1>2, <1>6 DEF Imps, Entries
      <4> HIDE DEF e
      <4>2. CASE i \in 1 .. Len(imp[n])
        <5>1. imp'[n][i] = imp[n][i]
            BY <4>1, <4>2
        <5> QED BY <5>1, <4>2, <3>2 DEF AuthorityInv, DecodedInv
      <4>3. CASE i = Len(imp[n]) + 1
        <5>1. imp'[n][i] = e
            BY <4>1, <4>3
        <5> QED BY <5>1, <4>1, <3>2
      <4>4. i \in 1 .. Len(imp[n]) + 1 /\ Len(imp[n]) \in Nat
          BY <4>1, <3>2
      <4> QED BY <4>2, <4>3, <4>4
    <3> QED BY <3>1, <3>2
  <2> QED BY <2>1, <1>2 DEF AuthorityInv, DecodedInv, bounds
<1>10. AuthorityInv'
    BY <1>2, <1>8, <1>9, HopStep DEF bounds
<1> QED BY <1>8, <1>10

-----------------------------------------------------------------------------
(* The steps of the cells and of the owners.                               *)

(* One cell changes.                                                       *)
LEMMA CellChanged ==
    ASSUME TypeInv, NEW g \in Games, NEW c \in CellType \cup {NoCell},
           cells' = [cells EXCEPT ![g] = c]
    PROVE  /\ cells'[g] = c /\ \A h \in Games : h # g => cells'[h] = cells[h]
           /\ Live' = (Live \ {g}) \cup {k \in {g} : c # NoCell /\ c.state # "RealMigrate"}
           /\ Prep' = (Prep \ {g}) \cup {k \in {g} : c # NoCell /\ c.state = "Prepare"}
           /\ Old' = (Old \ {g})
                       \cup {k \in {g} : c # NoCell /\ c.state = "RealMigrate" /\ ~c.dying}
<1>1. cells'[g] = c /\ \A h \in Games : h # g => cells'[h] = cells[h]
    BY DEF TypeInv, Places
<1>2. \A h : h \in Live' <=> h \in Games /\ cells'[h] # NoCell /\ cells'[h].state # "RealMigrate"
    BY DEF Live, Exists
<1>3. \A h : h \in Live <=> h \in Games /\ cells[h] # NoCell /\ cells[h].state # "RealMigrate"
    BY DEF Live, Exists
<1>4. Live' = (Live \ {g}) \cup {k \in {g} : c # NoCell /\ c.state # "RealMigrate"}
    BY <1>1, <1>2, <1>3
<1>5. Prep' = (Prep \ {g}) \cup {k \in {g} : c # NoCell /\ c.state = "Prepare"}
  <2>1. \A h : h \in Prep' <=> h \in Live' /\ cells'[h].state = "Prepare"
      BY DEF Prep
  <2>2. \A h : h \in Prep <=> h \in Live /\ cells[h].state = "Prepare"
      BY DEF Prep
  <2> QED BY <2>1, <2>2, <1>1, <1>2, <1>3
<1>6. Old' = (Old \ {g}) \cup {k \in {g} : c # NoCell /\ c.state = "RealMigrate" /\ ~c.dying}
  <2>1. \A h : h \in Old' <=> /\ h \in Games /\ cells'[h] # NoCell
                              /\ cells'[h].state = "RealMigrate" /\ ~cells'[h].dying
      BY DEF Old, Frozen, Exists
  <2>2. \A h : h \in Old <=> /\ h \in Games /\ cells[h] # NoCell
                             /\ cells[h].state = "RealMigrate" /\ ~cells[h].dying
      BY DEF Old, Frozen, Exists
  <2> QED BY <2>1, <2>2, <1>1
<1> QED BY <1>1, <1>4, <1>5, <1>6

(* The cell asks its owners.                                               *)
LEMMA BeginMigrateKeeps ==
    ASSUME TypeInv, AuthorityInv, Ordered, NEW g \in Games, NEW newAddr \in Games,
           BeginMigrate(g, newAddr)
    PROVE  AuthorityInv'
<1> DEFINE c == [cells[g] EXCEPT !.state = "Prepare", !.timer = TRUE, !.newAddr = newAddr]
           l(s) == ToOwner(g, s, "migrate_req_from_cell")
<1>1. /\ migrations < MaxMigrations /\ Exists(g) /\ newAddr # g /\ cells[g].state = "None"
      /\ up' = TellOwners(up, g, "migrate_req_from_cell") /\ migrations' = migrations + 1
      /\ UNCHANGED <<mb, down, imp, crashed, timeouts>> /\ cells' = [cells EXCEPT ![g] = c]
    BY DEF BeginMigrate
<1>2. g \in Live /\ cells[g] \in CellType /\ g \notin Old
  <2>1. g \in Live
      BY <1>1 DEF Live
  <2> QED BY <2>1, CellFacts
<1>3. Live = {g} /\ Prep = {} /\ Acks = {}
  <2>1. Live = {g} /\ Acks = cells[g].acks /\ Prep = {}
      BY <1>1, <1>2, LoneLive
  <2> QED BY <2>1, <1>1, <1>2 DEF AuthorityInv, CellsInv
<1>4. /\ c \in CellType /\ c.state = "Prepare" /\ c.newAddr = newAddr
      /\ c.acks = cells[g].acks /\ c.dying = cells[g].dying
    BY <1>2 DEF CellType
<1>5. cells[g].acks = {} /\ ~cells[g].dying
    BY <1>1, <1>2 DEF AuthorityInv, CellsInv
<1> HIDE DEF c
<1>6. cells'[g] = c /\ Live' = {g} /\ Prep' = {g} /\ Old' = Old
  <2>1. c # NoCell
      BY <1>4, NoCellAssumption
  <2>2. /\ cells'[g] = c
        /\ Live' = (Live \ {g}) \cup {k \in {g} : c # NoCell /\ c.state # "RealMigrate"}
        /\ Prep' = (Prep \ {g}) \cup {k \in {g} : c # NoCell /\ c.state = "Prepare"}
        /\ Old' = (Old \ {g})
                    \cup {k \in {g} : c # NoCell /\ c.state = "RealMigrate" /\ ~c.dying}
      BY <1>1, <1>4, CellChanged
  <2> QED BY <2>1, <2>2, <1>2, <1>3, <1>4
<1>7. Acks' = {}
    BY <1>4, <1>5, <1>6 DEF Acks
<1>8. CellsInv'
  <2>1. ~c.dying /\ c.acks # Sources /\ c.newAddr # g /\ c.state = "Prepare"
      BY <1>1, <1>4, <1>5, Owners
  <2> QED BY <2>1, <1>6 DEF CellsInv
<1>9. DecodedInv'
    BY <1>1 DEF AuthorityInv, DecodedInv
<1>10. /\ Mail \in [Where -> Seq(Letters)] /\ Same(Mail, Mail', SeatKinds) /\ Placed(Mail')
       /\ Mail' \in [Where -> Seq(Letters)]
       /\ \A s \in Sources : Given(Mail, Mail', s, g, l(s))
  <2>1. up \in Ups /\ down \in Ups3 /\ imp \in Imps /\ Mail \in [Where -> Seq(Letters)]
      BY MailType
  <2>2. Mail' = Queues(TellOwners(up, g, "migrate_req_from_cell"), down, imp)
      BY <1>1 DEF Mail
  <2>3. "migrate_req_from_cell" \in OwnerOps
      BY DEF OwnerOps
  <2>4. Mail = Queues(up, down, imp) /\ Placed(Mail)
      BY DEF Mail, AuthorityInv
  <2> QED BY <2>1, <2>2, <2>3, <2>4, Told
<1>11. SeatInv(Mail', Live', Prep', Old', migrations')
  <2>1. SeatInv(Mail, {g}, {}, Old, migrations)
      BY <1>3 DEF AuthorityInv
  <2>2. migrations \in Nat /\ (LoneGate \/ migrations = 0)
      BY <1>1, BoundsAssumption DEF Ordered, TypeInv, Counts
  <2>3. SeatInv(Mail, {g}, {g}, Old, migrations + 1)
      BY <2>1, <2>2, SeatBegins
  <2> QED BY <2>3, <1>1, <1>6, <1>10, SeatSame
<1>12. ASSUME NEW s \in Sources PROVE OwnerInv(Mail', s, mb'[s], Live', Prep', Acks')
  <2>1. OwnerInv(Mail, s, mb[s], {g}, {}, {})
      BY <1>3 DEF AuthorityInv
  <2>2. PICK a, b \in [Where -> Seq(Letters)] :
            /\ Same(Mail, a, OwnerKinds(s)) /\ b = Posted(a, Up(g, l(s).via), l(s))
            /\ Same(b, Mail', OwnerKinds(s))
      BY <1>10 DEF Given
  <2>3. OwnerInv(a, s, mb[s], {g}, {}, {})
      BY <2>1, <2>2, OwnerSame
  <2>4. OwnerInv(b, s, mb[s], {g}, {g}, {})
      BY <2>2, <2>3, OwnerAsked
  <2>5. OwnerInv(Mail', s, mb[s], {g}, {g}, {})
      BY <2>2, <2>4, OwnerSame
  <2> QED BY <2>5, <1>1, <1>6, <1>7
<1> QED BY <1>8, <1>9, <1>10, <1>11, <1>12, AuthorityNext

(* An owner that takes an rpc and sends some of its own does not disturb   *)
(* the others, or the seat.                                                *)
Private(s, r, t) == \A X : (\A l \in OwnerKinds(s) : l \notin X) => Same(r, t, X)

LEMMA OwnerTakes ==
    ASSUME NEW s \in Sources, NEW q \in [Where -> Seq(Letters)], NEW v \in Where, q[v] # <<>>,
           Head(q[v]) \in OwnerKinds(s), NEW r, r = Taken(q, v), NEW t, Private(s, r, t),
           NEW box, NEW live, NEW prep, NEW old, NEW acks, NEW begun,
           SeatInv(q, live, prep, old, begun),
           \A u \in Sources : OwnerInv(q, u, box[u], live, prep, acks)
    PROVE  /\ SeatInv(t, live, prep, old, begun)
           /\ \A u \in Sources : u # s => OwnerInv(t, u, box[u], live, prep, acks)
<1>1. SeatInv(t, live, prep, old, begun)
  <2>1. Head(q[v]) \notin SeatKinds /\ \A l \in OwnerKinds(s) : l \notin SeatKinds
      BY Apart
  <2>2. SeatInv(r, live, prep, old, begun)
      BY <2>1, SeatPass
  <2>3. Same(r, t, SeatKinds)
      BY <2>1 DEF Private
  <2> QED BY <2>2, <2>3, SeatSame
<1>2. ASSUME NEW u \in Sources, u # s PROVE OwnerInv(t, u, box[u], live, prep, acks)
  <2>1. \A l \in OwnerKinds(s) : l \notin OwnerKinds(u)
      BY <1>2, Apart
  <2>2. Head(q[v]) \notin AckOf(u) \cup FromCell(u)
      BY <2>1 DEF OwnerKinds, ToCell
  <2>3. OwnerInv(q, u, box[u], live, prep, acks)
      OBVIOUS
  <2>4. OwnerInv(r, u, box[u], live, prep, acks)
      BY <2>2, <2>3, OwnerPass
  <2>5. Same(r, t, OwnerKinds(u))
      BY <2>1 DEF Private
  <2> QED BY <2>4, <2>5, OwnerSame
<1> QED BY <1>1, <1>2

LEMMA CellsSame ==
    ASSUME UNCHANGED cells
    PROVE  /\ Live' = Live /\ Prep' = Prep /\ Old' = Old /\ Acks' = Acks
           /\ CellsInv => CellsInv'
<1>1. Live' = Live /\ Prep' = Prep /\ Old' = Old /\ Acks' = Acks
    BY DEF Live, Prep, Old, Acks, Frozen, Exists
<1> QED BY <1>1 DEF CellsInv

(* The owner acknowledges.                                                 *)
LEMMA MigrateReqKeeps ==
    ASSUME TypeInv, AuthorityInv, NEW s \in Sources, MigrateReqFromCell(s)
    PROVE  AuthorityInv'
<1> DEFINE n == At[s]
           h == Head(imp[n]).letter
           r == Queues(up, down, imp')
           l == SendRpc(s, mb[s].addr, AckRpc(s))
<1>1. /\ Take(n, s, "migrate_req_from_cell") /\ n \in Nodes
      /\ UNCHANGED <<cells, down, crashed, issued, bounds>>
    BY Owners DEF MigrateReqFromCell
<1>2. /\ h \in Letters /\ h.to = s /\ h.op = "migrate_req_from_cell"
      /\ Mail \in [Where -> Seq(Letters)] /\ Imp(n) \in Where /\ Mail[Imp(n)] # <<>>
      /\ Head(Mail[Imp(n)]) = h
      /\ imp' \in Imps /\ up \in Ups /\ down \in Ups3 /\ r = Taken(Mail, Imp(n))
      /\ \A k \in Nodes : \A i \in 1 .. Len(imp'[k]) : imp'[k][i].decoded
  <2>1. Placed(Mail) /\ DecodedInv
      BY DEF AuthorityInv
  <2> QED BY <1>1, <2>1, TakenLetter
<1>3. h \in Req(s) /\ h \in OwnerKinds(s)
    BY <1>2 DEF Req, OwnerKinds, FromCell
<1> HIDE DEF h
<1>4. OwnerInv(Mail, s, mb[s], Live, Prep, Acks)
    BY DEF AuthorityInv
<1>5. Calling(Mail, s, mb[s], Live, Prep, Acks)
    BY <1>2, <1>3, <1>4, AskedCalls
<1>6. /\ mb' = [mb EXCEPT ![s].caching = TRUE] /\ up' = Sent(up, n, l)
    BY <1>5 DEF MigrateReqFromCell, Calling, AckRpc
<1>7. mb[s].addr \in Games /\ l \in Letters
  <2>1. mb[s].addr \in Games
      BY BoxFields
  <2> QED BY <2>1 DEF Letters, AckLetters
<1>8. l \in OwnerKinds(s)
  <2>1. l.op = "ack" /\ l.arg = s
      BY DEF SendRpc, AckRpc, Letter
  <2> QED BY <2>1, <1>7 DEF OwnerKinds, ToCell, AckOf
<1>9. /\ mb'[s].caching /\ mb'[s].cache = mb[s].cache
      /\ \A u \in Sources : u # s => mb'[u] = mb[u]
    BY <1>6, BoxFields DEF TypeInv, Places, Boxes
<1>10. Mail' = Queues(Sent(up, n, l), down, imp')
    BY <1>1, <1>6 DEF Mail
<1>11. r \in [Where -> Seq(Letters)] /\ Placed(r)
    BY <1>2, QueuesType, PlacedTake DEF AuthorityInv
<1>12. l = SendRpc(s, mb[s].addr, AckRpc(s))
    OBVIOUS
<1> HIDE DEF l
<1>13. /\ Mail' = Posted(r, Up(n, l.via), l) /\ Placed(Mail')
       /\ \A X : l \notin X => Same(r, Mail', X)
    BY <1>1, <1>2, <1>7, <1>10, <1>11, SentPosted
<1>14. Private(s, r, Mail')
    BY <1>8, <1>13 DEF Private
<1> HIDE DEF r
<1>15. OwnerInv(Mail', s, mb'[s], Live, Prep, Acks)
    BY <1>2, <1>3, <1>4, <1>9, <1>12, <1>13, CellFacts, OwnerAcks
<1>16. /\ SeatInv(Mail', Live, Prep, Old, migrations)
       /\ \A u \in Sources : u # s => OwnerInv(Mail', u, mb[u], Live, Prep, Acks)
  <2>1. SeatInv(Mail, Live, Prep, Old, migrations)
      BY DEF AuthorityInv
  <2>2. \A u \in Sources : OwnerInv(Mail, u, mb[u], Live, Prep, Acks)
      BY DEF AuthorityInv
  <2>3. Head(Mail[Imp(n)]) \in OwnerKinds(s)
      BY <1>2, <1>3
  <2> HIDE DEF n
  <2> QED BY <2>1, <2>2, <2>3, <1>2, <1>14, OwnerTakes
<1>17. DecodedInv'
    BY <1>1, <1>2 DEF AuthorityInv, DecodedInv, bounds
<1>18. Live' = Live /\ Prep' = Prep /\ Old' = Old /\ Acks' = Acks /\ CellsInv'
    BY <1>1, CellsSame DEF AuthorityInv
<1>19. SeatInv(Mail', Live', Prep', Old', migrations')
    BY <1>1, <1>16, <1>18 DEF bounds
<1>20. ASSUME NEW u \in Sources PROVE OwnerInv(Mail', u, mb'[u], Live', Prep', Acks')
    BY <1>9, <1>15, <1>16, <1>18
<1> QED BY <1>13, <1>17, <1>18, <1>19, <1>20, AuthorityNext

(* The owner hears of the new cell and sends it what it has cached.        *)
LEMMA NewCellMigrateInKeeps ==
    ASSUME TypeInv, AuthorityInv, NEW s \in Sources, NewCellMigrateIn(s)
    PROVE  AuthorityInv'
<1> DEFINE n == At[s]
           h == Head(imp[n]).letter
           g == h.arg
           r == Queues(up, down, imp')
           ls == Flush(s, g)
           w == Up(n, CellGate(s))
<1>1. /\ Take(n, s, "new_cell_migrate_in") /\ n \in Nodes
      /\ mb' = [mb EXCEPT ![s] = StopCache(@, g)]
      /\ up' = [up EXCEPT ![n][CellGate(s)] = @ \o ls]
      /\ UNCHANGED <<cells, down, crashed, issued, bounds>>
    BY Owners DEF NewCellMigrateIn, Arg
<1>2. /\ h \in Letters /\ h.to = s /\ h.op = "new_cell_migrate_in"
      /\ Mail \in [Where -> Seq(Letters)] /\ Imp(n) \in Where /\ Mail[Imp(n)] # <<>>
      /\ Head(Mail[Imp(n)]) = h
      /\ imp' \in Imps /\ up \in Ups /\ down \in Ups3 /\ r = Taken(Mail, Imp(n))
      /\ \A k \in Nodes : \A i \in 1 .. Len(imp'[k]) : imp'[k][i].decoded
  <2>1. Placed(Mail) /\ DecodedInv
      BY DEF AuthorityInv
  <2> QED BY <1>1, <2>1, TakenLetter
<1>3. h \in New(s) /\ h \in OwnerKinds(s) /\ g \in Games
  <2>1. h \in New(s) /\ h \in OwnerKinds(s) /\ h \in FromCell(s)
      BY <1>2 DEF New, OwnerKinds, FromCell
  <2> QED BY <2>1, FromCellKind
<1> HIDE DEF h
<1>4. CellGate(s) \in Gates /\ mb[s].cache \in Seq(RpcsOf(s))
    BY Routes, BoxFields
<1>5. ls \in Seq(Letters) /\ Len(ls) = Len(mb[s].cache)
    BY <1>3, FlushType
<1>6. ASSUME NEW i \in 1 .. Len(ls)
      PROVE  ls[i] \in CallsOf(s) /\ ls[i].dst = g /\ ls[i].via = CellGate(s)
  <2>1. i \in 1 .. Len(mb[s].cache)
      BY <1>5
  <2>2. ls[i] = SendRpc(s, g, mb[s].cache[i])
      BY <2>1 DEF Flush
  <2>3. PICK c \in Calls : c[1] = s /\ mb[s].cache[i] = CallRpc(c)
    <3>1. OnlyCalls(s, mb[s].cache)
        BY DEF AuthorityInv, OwnerInv
    <3> QED BY <2>1, <3>1 DEF OnlyCalls
  <2>4. ls[i].op = "call" /\ ls[i].arg = c /\ ls[i].dst = g /\ ls[i].via = CellGate(s)
      BY <2>2, <2>3 DEF SendRpc, CallRpc, Letter
  <2>5. ls[i] \in Letters
      BY <1>5, SeqFacts
  <2> QED BY <2>3, <2>4, <2>5 DEF CallsOf
<1>7. /\ ~mb'[s].caching /\ mb'[s].addr = g /\ mb'[s].cache = <<>>
      /\ \A u \in Sources : u # s => mb'[u] = mb[u]
    BY <1>1 DEF TypeInv, Places, StopCache
<1>8. up' = Extended(up, n, CellGate(s), ls)
    BY <1>1 DEF Extended
<1> HIDE DEF ls
<1>9. r \in [Where -> Seq(Letters)] /\ Placed(r)
    BY <1>2, QueuesType, PlacedTake DEF AuthorityInv
<1>10. Mail' = Joined(r, w, ls)
  <2>1. Mail' = Queues(Extended(up, n, CellGate(s), ls), down, imp')
      BY <1>1, <1>8 DEF Mail
  <2> QED BY <2>1, <1>1, <1>2, <1>4, <1>5, ExtendedJoins
<1>11. w \in Where
    BY <1>1, <1>4, Stages
<1>12. Placed(Mail')
    BY <1>1, <1>4, <1>5, <1>6, <1>9, <1>10, PlacedJoin
<1>13. Private(s, r, Mail')
  <2>1. ASSUME NEW X, \A l \in OwnerKinds(s) : l \notin X
        PROVE  Same(r, Mail', X)
    <3>1. Without(ls, X)
      <4>1. \A i \in 1 .. Len(ls) : ls[i] \in OwnerKinds(s)
          BY <1>6 DEF OwnerKinds, ToCell
      <4> QED BY <4>1, <2>1 DEF Without
    <3> HIDE DEF r, w
    <3> QED BY <3>1, <1>5, <1>9, <1>10, <1>11, JoinSame
  <2> QED BY <2>1 DEF Private
<1>14. OwnerInv(Mail', s, mb'[s], Live, Prep, Acks)
  <2>1. OwnerInv(Mail, s, mb[s], Live, Prep, Acks)
      BY DEF AuthorityInv
  <2>2. Head(Mail[Imp(At[s])]) \in New(s) /\ g = Head(Mail[Imp(At[s])]).arg
      BY <1>2, <1>3
  <2>3. r = Taken(Mail, Imp(At[s])) /\ Mail[Imp(At[s])] # <<>>
      BY <1>2
  <2>4. Mail' = Joined(r, Up(At[s], CellGate(s)), ls)
      BY <1>10
  <2>5. CallsTo(s, g, ls)
      BY <1>6 DEF CallsTo
  <2>6. Mail \in [Where -> Seq(Letters)] /\ ls \in Seq(Letters)
      BY <1>2, <1>5
  <2>7. ~mb'[s].caching /\ mb'[s].addr = g /\ mb'[s].cache = <<>>
      BY <1>7
  <2> HIDE DEF r, g
  <2> HIDE DEF n, w
  <2> QED BY <2>1, <2>2, <2>3, <2>4, <2>5, <2>6, <2>7, OwnerHears
<1>15. /\ SeatInv(Mail', Live, Prep, Old, migrations)
       /\ \A u \in Sources : u # s => OwnerInv(Mail', u, mb[u], Live, Prep, Acks)
  <2>1. SeatInv(Mail, Live, Prep, Old, migrations)
      BY DEF AuthorityInv
  <2>2. \A u \in Sources : OwnerInv(Mail, u, mb[u], Live, Prep, Acks)
      BY DEF AuthorityInv
  <2>3. Head(Mail[Imp(n)]) \in OwnerKinds(s)
      BY <1>2, <1>3
  <2> HIDE DEF n, r
  <2> QED BY <2>1, <2>2, <2>3, <1>2, <1>13, OwnerTakes
<1>16. DecodedInv'
    BY <1>1, <1>2 DEF AuthorityInv, DecodedInv, bounds
<1>17. Live' = Live /\ Prep' = Prep /\ Old' = Old /\ Acks' = Acks /\ CellsInv'
    BY <1>1, CellsSame DEF AuthorityInv
<1>18. SeatInv(Mail', Live', Prep', Old', migrations')
    BY <1>1, <1>15, <1>17 DEF bounds
<1>19. ASSUME NEW u \in Sources PROVE OwnerInv(Mail', u, mb'[u], Live', Prep', Acks')
    BY <1>7, <1>14, <1>15, <1>17
<1> QED BY <1>12, <1>16, <1>17, <1>18, <1>19, AuthorityNext

(* An owner calls the cell, or keeps the call.                             *)
LEMMA CallCellKeeps ==
    ASSUME TypeInv, AuthorityInv, NEW s \in Sources, CallCell(s)
    PROVE  AuthorityInv'
<1> DEFINE n == At[s]
           c == <<s, issued[s] + 1>>
           l == SendRpc(s, mb[s].addr, CallRpc(c))
<1>1. /\ issued[s] < MaxCalls[s] /\ n \in Nodes
      /\ UNCHANGED <<cells, down, imp, crashed, bounds>>
    BY Owners DEF CallCell
<1>2. c \in Calls /\ c[1] = s
  <2>1. issued[s] + 1 \in 1 .. MaxCalls[s]
      BY <1>1, BoundsAssumption DEF TypeInv, Counts
  <2> QED BY <2>1 DEF Calls
<1>3. /\ up \in Ups /\ down \in Ups3 /\ imp \in Imps /\ Mail \in [Where -> Seq(Letters)]
      /\ Placed(Mail)
    BY MailType DEF AuthorityInv
<1>4. /\ OwnerInv(Mail, s, mb[s], Live, Prep, Acks)
      /\ \A u \in Sources : OwnerInv(Mail, u, mb[u], Live, Prep, Acks)
      /\ SeatInv(Mail, Live, Prep, Old, migrations)
    BY DEF AuthorityInv
<1>5. DecodedInv'
    BY <1>1 DEF AuthorityInv, DecodedInv, bounds
<1>6. Live' = Live /\ Prep' = Prep /\ Old' = Old /\ Acks' = Acks /\ CellsInv'
    BY <1>1, CellsSame DEF AuthorityInv
<1>7. CASE mb[s].caching
  <2>1. mb' = [mb EXCEPT ![s].cache = Append(@, CallRpc(c))] /\ up' = up
      BY <1>7 DEF CallCell, Call, CallRpc
  <2>2. Mail' = Mail
      BY <2>1, <1>1 DEF Mail
  <2> HIDE DEF c
  <2>3. /\ mb'[s].addr = mb[s].addr /\ mb'[s].caching = mb[s].caching
        /\ mb'[s].cache = Append(mb[s].cache, CallRpc(c))
        /\ \A u \in Sources : u # s => mb'[u] = mb[u]
      BY <2>1, BoxFields DEF TypeInv, Places, Boxes
  <2>4. OnlyCalls(s, mb'[s].cache)
    <3>1. mb[s].cache \in Seq(RpcsOf(s)) /\ CallRpc(c) \in RpcsOf(s)
        BY <1>2, BoxFields DEF RpcsOf
    <3>2. OnlyCalls(s, mb[s].cache) /\ CallRpc(c) \in {CallRpc(k) : k \in {k \in Calls : k[1] = s}}
        BY <1>2, <1>4 DEF OwnerInv
    <3>3. ASSUME NEW i \in 1 .. Len(mb'[s].cache)
          PROVE  mb'[s].cache[i] \in {CallRpc(k) : k \in {k \in Calls : k[1] = s}}
      <4>1. CASE i \in 1 .. Len(mb[s].cache)
        <5>1. mb'[s].cache[i] = mb[s].cache[i]
            BY <4>1, <3>1, <2>3
        <5> QED BY <5>1, <4>1, <3>2 DEF OnlyCalls
      <4>2. CASE i = Len(mb[s].cache) + 1
        <5>1. mb'[s].cache[i] = CallRpc(c)
            BY <4>2, <3>1, <2>3
        <5> QED BY <5>1, <3>2
      <4>3. i \in 1 .. Len(mb[s].cache) + 1 /\ Len(mb[s].cache) \in Nat
          BY <3>1, <2>3
      <4> QED BY <4>1, <4>2, <4>3
    <3> QED BY <3>3 DEF OnlyCalls
  <2>5. OwnerInv(Mail, s, mb'[s], Live, Prep, Acks)
    <3>1. Phase(Mail, s, mb'[s], Live, Prep, Acks)
        BY <2>3, <1>4 DEF OwnerInv, Phase, Calling, Acking, Waiting, Unaware
    <3> QED BY <3>1, <2>4, <1>4 DEF OwnerInv
  <2>6. Placed(Mail')
      BY <2>2, <1>3
  <2>7. SeatInv(Mail', Live', Prep', Old', migrations')
      BY <2>2, <1>1, <1>4, <1>6 DEF bounds
  <2>8. ASSUME NEW u \in Sources PROVE OwnerInv(Mail', u, mb'[u], Live', Prep', Acks')
      BY <2>2, <2>3, <2>5, <1>4, <1>6
  <2> QED BY <2>6, <2>7, <2>8, <1>5, <1>6, AuthorityNext
<1>8. CASE ~mb[s].caching
  <2>1. mb' = mb /\ up' = Sent(up, n, l)
      BY <1>8 DEF CallCell, Call, CallRpc
  <2>2. Calling(Mail, s, mb[s], Live, Prep, Acks)
      BY <1>4, <1>8 DEF OwnerInv, Phase, Calling, Acking, Waiting, Unaware
  <2>3. mb[s].addr \in Games /\ mb[s].addr \in Live
      BY <2>2, BoxFields DEF Calling
  <2>4. l \in Letters /\ l.via = CellGate(s) /\ l.op = "call" /\ l.arg = c /\ l.dst = mb[s].addr
    <3>1. CallRpc(c) \in RpcsOf(s)
        BY <1>2 DEF RpcsOf
    <3>2. l \in Letters
        BY <3>1, <2>3, RpcLetter
    <3> QED BY <3>2 DEF SendRpc, CallRpc, Letter
  <2>5. l \in CallsOf(s) /\ l \in OwnerKinds(s)
      BY <2>4, <1>2 DEF CallsOf, OwnerKinds, ToCell
  <2>6. Mail' = Queues(Sent(up, n, l), down, imp)
      BY <2>1, <1>1 DEF Mail
  <2> HIDE DEF l, c
  <2>7. /\ Mail' = Posted(Mail, Up(n, l.via), l) /\ Placed(Mail')
        /\ \A X : l \notin X => Same(Mail, Mail', X)
      BY <2>4, <2>6, <1>1, <1>3, SentPosted DEF Mail
  <2>8. OwnerInv(Mail', s, mb[s], Live, Prep, Acks)
    <3> DEFINE ls == <<l>>
    <3>1. ls \in Seq(Letters) /\ \A i \in 1 .. Len(ls) : ls[i] \in CallsOf(s) /\ ls[i].dst \in Live
        BY <2>3, <2>4, <2>5, OneLetter
    <3>2. Mail' = Joined(Mail, Up(At[s], CellGate(s)), ls)
        BY <2>4, <2>7 DEF Posted
    <3>3. Traffic(Mail, s, Live) /\ Free(Mail, AckOf(s))
        BY <2>2, <1>4 DEF OwnerInv, Calling
    <3> HIDE DEF ls
    <3>4. /\ Traffic(Mail', s, Live) /\ Free(Mail', AckOf(s))
          /\ Free(Mail', New(s)) <=> Free(Mail, New(s))
          /\ Free(Mail', Req(s)) <=> Free(Mail, Req(s))
        BY <3>1, <3>2, <3>3, <1>3, OwnerCalls
    <3>5. Calling(Mail', s, mb[s], Live, Prep, Acks)
        BY <3>4, <2>2 DEF Calling
    <3> QED BY <3>4, <3>5, <1>4 DEF OwnerInv, Phase
  <2>9. ASSUME NEW u \in Sources, u # s PROVE OwnerInv(Mail', u, mb[u], Live, Prep, Acks)
    <3>1. Same(Mail, Mail', OwnerKinds(u))
        BY <2>5, <2>7, <2>9, Apart
    <3> QED BY <3>1, <1>4, OwnerSame
  <2>10. SeatInv(Mail', Live', Prep', Old', migrations')
    <3>1. Same(Mail, Mail', SeatKinds)
        BY <2>5, <2>7, Apart
    <3>2. SeatInv(Mail', Live, Prep, Old, migrations)
        BY <3>1, <1>4, SeatSame
    <3> QED BY <3>2, <1>1, <1>6 DEF bounds
  <2>11. ASSUME NEW u \in Sources PROVE OwnerInv(Mail', u, mb'[u], Live', Prep', Acks')
      BY <2>1, <2>8, <2>9, <1>6
  <2> QED BY <2>7, <2>10, <2>11, <1>5, <1>6, AuthorityNext
<1>9. mb[s].caching \in BOOLEAN
    BY BoxFields
<1> QED BY <1>7, <1>8, <1>9

(* A cell takes an rpc of owner s: it leaves the seat and the others alone. *)
LEMMA SeatTakes ==
    ASSUME NEW s \in Sources, NEW q \in [Where -> Seq(Letters)], NEW v \in Where, q[v] # <<>>,
           Head(q[v]) \in ToCell(s), NEW r, r = Taken(q, v),
           NEW live, NEW prep, NEW old, NEW begun, SeatInv(q, live, prep, old, begun)
    PROVE  SeatInv(r, live, prep, old, begun)
<1>1. Head(q[v]) \in OwnerKinds(s)
    BY DEF OwnerKinds
<1>2. Head(q[v]) \notin SeatKinds
    BY <1>1, Apart
<1> QED BY <1>2, SeatPass

LEMMA OtherTakes ==
    ASSUME NEW s \in Sources, NEW q \in [Where -> Seq(Letters)], NEW v \in Where, q[v] # <<>>,
           Head(q[v]) \in ToCell(s), NEW r, r = Taken(q, v),
           NEW u \in Sources, u # s, NEW box, NEW live, NEW prep, NEW acks,
           OwnerInv(q, u, box, live, prep, acks), NEW acks2, u \in acks2 <=> u \in acks
    PROVE  OwnerInv(r, u, box, live, prep, acks2)
<1>1. Head(q[v]) \in OwnerKinds(s)
    BY DEF OwnerKinds
<1>2. Head(q[v]) \notin OwnerKinds(u)
    BY <1>1, Apart
<1>3. Head(q[v]) \notin AckOf(u) \cup FromCell(u)
    BY <1>2 DEF OwnerKinds, ToCell
<1> QED BY <1>3, OwnerPass

(* The letter of call_cell_entity on game g.                               *)
LEMMA CellLetter ==
    ASSUME TypeInv, AuthorityInv, NEW g \in Games, NEW op, Take(g, "cell", op), NEW h,
           h = Head(imp[g]).letter
    PROVE  /\ h \in Letters /\ h.op = op /\ h.dst = g /\ Head(imp[g]).decoded
           /\ Mail \in [Where -> Seq(Letters)] /\ Imp(g) \in Where /\ Mail[Imp(g)] # <<>>
           /\ h = Head(Mail[Imp(g)])
           /\ Queues(up, down, imp') = Taken(Mail, Imp(g))
           /\ Queues(up, down, imp') \in [Where -> Seq(Letters)]
           /\ Placed(Queues(up, down, imp'))
           /\ imp' \in Imps /\ up \in Ups /\ down \in Ups3
           /\ \A k \in Nodes : \A i \in 1 .. Len(imp'[k]) : imp'[k][i].decoded
           /\ op = "finish" => h \in Fin(g) /\ g \in Old
           /\ op = "ack" => h.arg \in Sources /\ h \in AckOf(h.arg) /\ g \in Live
           /\ op = "call" => /\ h.arg[1] \in Sources /\ h.arg \in Calls
                             /\ h \in CallsOf(h.arg[1]) /\ g \in Live
<1>1. g \in Nodes
    BY Owners
<1>2. /\ h \in Letters /\ h.op = op /\ h.dst = g /\ Head(imp[g]).decoded /\ h.to = "cell"
      /\ Mail \in [Where -> Seq(Letters)] /\ Imp(g) \in Where /\ Mail[Imp(g)] # <<>>
      /\ h = Head(Mail[Imp(g)]) /\ imp' \in Imps /\ up \in Ups /\ down \in Ups3
      /\ Queues(up, down, imp') = Taken(Mail, Imp(g))
      /\ \A k \in Nodes : \A i \in 1 .. Len(imp'[k]) : imp'[k][i].decoded
  <2>1. Placed(Mail) /\ DecodedInv
      BY DEF AuthorityInv
  <2> QED BY <1>1, <2>1, TakenLetter
<1>3. /\ Queues(up, down, imp') \in [Where -> Seq(Letters)]
      /\ Placed(Queues(up, down, imp'))
    BY <1>2, QueuesType, PlacedTake DEF AuthorityInv
<1>4. 1 \in 1 .. Len(Mail[Imp(g)]) /\ h = Mail[Imp(g)][1]
  <2>1. Mail[Imp(g)] \in Seq(Letters)
      BY <1>2
  <2> QED BY <2>1, <1>2
<1>5. \/ h.op = "finish" /\ h \in Fin(h.dst) /\ h.dst \in Old
      \/ /\ h.op = "ack" /\ h.arg \in Sources
         /\ h \in AckOf(h.arg) /\ h.dst \in Live
      \/ /\ h.op = "call" /\ h.arg[1] \in Sources /\ h.arg \in Calls
         /\ h \in CallsOf(h.arg[1]) /\ h.dst \in Live
    BY <1>2, <1>4, CellRpcs
<1> QED BY <1>2, <1>3, <1>5

(* No rpc for a cell is lost, and none comes to a cell too early.          *)
LEMMA NoneLost ==
    ASSUME TypeInv, AuthorityInv, NEW g \in Games
    PROVE  ~NoSuchCell(g) /\ ~NullRpc(g)
<1>1. ASSUME NEW op \in CellOps, Take(g, "cell", op) PROVE Exists(g) /\ Head(imp[g]).decoded
  <2>1. Head(imp[g]).decoded /\ (g \in Old \/ g \in Live)
      BY <1>1, CellLetter DEF CellOps
  <2> QED BY <2>1 DEF Old, Frozen, Live
<1> QED BY <1>1 DEF NoSuchCell, NullRpc

(* A gameplay rpc is one of its owner's, and comes to the live cell.       *)
LEMMA CallTaken ==
    ASSUME TypeInv, AuthorityInv, NEW g \in Games, Take(g, "cell", "call")
    PROVE  /\ Mail \in [Where -> Seq(Letters)] /\ Imp(g) \in Where /\ Mail[Imp(g)] # <<>>
           /\ Head(imp[g]).letter = Head(Mail[Imp(g)])
           /\ Queues(up, down, imp') = Taken(Mail, Imp(g))
           /\ Placed(Queues(up, down, imp'))
           /\ Head(imp[g]).letter.arg[1] \in Sources /\ Head(imp[g]).letter.arg \in Calls
           /\ Head(imp[g]).letter \in CallsOf(Head(imp[g]).letter.arg[1])
           /\ g \in Live
<1> DEFINE h == Head(imp[g]).letter
           op == "call"
<1>1. Take(g, "cell", op) /\ h = Head(imp[g]).letter /\ op = "call"
    OBVIOUS
<1> HIDE DEF h, op
<1>2. /\ Mail \in [Where -> Seq(Letters)] /\ Imp(g) \in Where /\ Mail[Imp(g)] # <<>>
      /\ h = Head(Mail[Imp(g)])
      /\ Queues(up, down, imp') = Taken(Mail, Imp(g))
      /\ Placed(Queues(up, down, imp'))
    BY <1>1, CellLetter
<1>3. h.arg[1] \in Sources /\ h.arg \in Calls /\ h \in CallsOf(h.arg[1]) /\ g \in Live
    BY <1>1, CellLetter
<1> QED BY <1>2, <1>3 DEF h

(* The cell executes a gameplay rpc.                                       *)
LEMMA ExecCallKeeps ==
    ASSUME TypeInv, AuthorityInv, NEW g \in Games, ExecCall(g)
    PROVE  AuthorityInv'
<1> DEFINE h == Head(imp[g]).letter
           s == h.arg[1]
           a == [cells[g].applied EXCEPT ![s] = Append(@, h.arg[2])]
           c == [cells[g] EXCEPT !.applied = a]
<1>1. /\ Take(g, "cell", "call") /\ Exists(g) /\ cells' = [cells EXCEPT ![g] = c]
      /\ UNCHANGED <<mb, up, down, crashed, issued, bounds>>
    BY DEF ExecCall, TakeForCell, Arg
<1>2. /\ Mail \in [Where -> Seq(Letters)] /\ Imp(g) \in Where /\ Mail[Imp(g)] # <<>>
      /\ h = Head(Mail[Imp(g)])
      /\ Queues(up, down, imp') = Taken(Mail, Imp(g)) /\ Placed(Queues(up, down, imp'))
      /\ s \in Sources /\ h.arg \in Calls /\ h \in CallsOf(s) /\ g \in Live
    BY <1>1, CallTaken
<1>21. \A k \in Nodes : \A i \in 1 .. Len(imp'[k]) : imp'[k][i].decoded
    BY <1>1, CellLetter
<1>3. cells[g] \in CellType /\ Live = {g} /\ Acks = cells[g].acks
    BY <1>2, CellFacts, LoneLive
<1>4. h.arg[2] \in Nat
    BY <1>2, BoundsAssumption DEF Calls
<1> HIDE DEF h
<1>5. a \in [Sources -> Seq(Nat)]
  <2>1. cells[g].applied \in [Sources -> Seq(Nat)]
      BY <1>3 DEF CellType
  <2> QED BY <2>1, <1>2, <1>4
<1>51. /\ c \in CellType /\ c.state = cells[g].state /\ c.acks = cells[g].acks
       /\ c.dying = cells[g].dying /\ c.newAddr = cells[g].newAddr
  <2> HIDE DEF s, a
  <2> QED BY <1>3, <1>5 DEF CellType
<1> HIDE DEF c, a
<1>6. cells'[g] = c /\ Live' = Live /\ Prep' = Prep /\ Old' = Old
  <2>1. /\ cells'[g] = c
        /\ Live' = (Live \ {g}) \cup {k \in {g} : c # NoCell /\ c.state # "RealMigrate"}
        /\ Prep' = (Prep \ {g}) \cup {k \in {g} : c # NoCell /\ c.state = "Prepare"}
        /\ Old' = (Old \ {g})
                    \cup {k \in {g} : c # NoCell /\ c.state = "RealMigrate" /\ ~c.dying}
      BY <1>1, <1>51, CellChanged
  <2>2. g \notin Old /\ cells[g].state # "RealMigrate" /\ c # NoCell
      BY <1>2, <1>51, CellFacts, NoCellAssumption
  <2>3. g \in Prep <=> c.state = "Prepare"
      BY <1>2, <1>51 DEF Prep
  <2> QED BY <2>1, <2>2, <2>3, <1>2, <1>51
<1>7. Acks' = Acks
    BY <1>3, <1>51, <1>6 DEF Acks
<1>8. CellsInv'
  <2>1. CellsInv
      BY DEF AuthorityInv
  <2> QED BY <2>1, <1>3, <1>51, <1>6 DEF CellsInv
<1>9. DecodedInv'
    BY <1>1, <1>21 DEF AuthorityInv, DecodedInv, bounds
<1>10. Mail' = Taken(Mail, Imp(g)) /\ Placed(Mail')
  <2>1. Mail' = Queues(up, down, imp')
      BY <1>1 DEF Mail
  <2> QED BY <2>1, <1>2
<1>11. \A u \in Sources : OwnerInv(Mail, u, mb[u], Live, Prep, Acks)
    BY DEF AuthorityInv
<1>12. Head(Mail[Imp(g)]) \in CallsOf(s) /\ Head(Mail[Imp(g)]) \in ToCell(s)
    BY <1>2 DEF ToCell
<1>13. /\ SeatInv(Mail', Live, Prep, Old, migrations)
       /\ \A u \in Sources : u # s => OwnerInv(Mail', u, mb[u], Live, Prep, Acks)
  <2>1. SeatInv(Mail, Live, Prep, Old, migrations)
      BY DEF AuthorityInv
  <2>2. Mail' = Taken(Mail, Imp(g))
      BY <1>10
  <2>3. /\ Mail \in [Where -> Seq(Letters)] /\ Imp(g) \in Where /\ Mail[Imp(g)] # <<>>
        /\ s \in Sources /\ Head(Mail[Imp(g)]) \in ToCell(s)
      BY <1>2, <1>12
  <2> HIDE DEF s
  <2>4. SeatInv(Mail', Live, Prep, Old, migrations)
      BY <2>1, <2>2, <2>3, SeatTakes
  <2>5. ASSUME NEW u \in Sources, u # s PROVE OwnerInv(Mail', u, mb[u], Live, Prep, Acks)
    <3>1. OwnerInv(Mail, u, mb[u], Live, Prep, Acks) /\ (u \in Acks <=> u \in Acks)
        BY <1>11
    <3> QED BY <3>1, <2>2, <2>3, <2>5, OtherTakes
  <2> QED BY <2>4, <2>5
<1>14. OwnerInv(Mail', s, mb[s], Live, Prep, Acks)
  <2>1. Head(Mail[Imp(g)]) \notin AckOf(s) \cup FromCell(s)
      BY <1>2, <1>12, Apart
  <2> HIDE DEF s
  <2> QED BY <2>1, <1>2, <1>10, <1>11, OwnerPass
<1>15. SeatInv(Mail', Live', Prep', Old', migrations')
    BY <1>1, <1>6, <1>13 DEF bounds
<1>16. ASSUME NEW u \in Sources PROVE OwnerInv(Mail', u, mb'[u], Live', Prep', Acks')
    BY <1>1, <1>6, <1>7, <1>13, <1>14
<1> QED BY <1>8, <1>9, <1>10, <1>15, <1>16, AuthorityNext

(* The old cell is marked ...                                              *)
LEMMA FinishKeeps ==
    ASSUME TypeInv, AuthorityInv, NEW g \in Games, NewCellMigrateFinish(g)
    PROVE  AuthorityInv'
<1> DEFINE h == Head(imp[g]).letter
           c == [cells[g] EXCEPT !.dying = TRUE]
<1>1. /\ Take(g, "cell", "finish") /\ Exists(g) /\ cells' = [cells EXCEPT ![g] = c]
      /\ UNCHANGED <<mb, up, down, crashed, issued, bounds>>
    BY DEF NewCellMigrateFinish, TakeForCell
<1>2. /\ Mail \in [Where -> Seq(Letters)] /\ Imp(g) \in Where /\ Mail[Imp(g)] # <<>>
      /\ h = Head(Mail[Imp(g)])
      /\ Queues(up, down, imp') = Taken(Mail, Imp(g)) /\ Placed(Queues(up, down, imp'))
      /\ \A k \in Nodes : \A i \in 1 .. Len(imp'[k]) : imp'[k][i].decoded
      /\ h \in Fin(g) /\ g \in Old
    BY <1>1, CellLetter
<1> HIDE DEF h
<1>3. cells[g] \in CellType /\ cells[g].state = "RealMigrate" /\ g \notin Live
    BY <1>1, <1>2, CellFacts DEF Old, Frozen
<1>4. c \in CellType /\ c.state = "RealMigrate" /\ c.dying
    BY <1>3 DEF CellType
<1> HIDE DEF c
<1>5. /\ \A k \in Games : k # g => cells'[k] = cells[k]
      /\ Live' = Live /\ Prep' = Prep /\ Old' = Old \ {g}
  <2>1. /\ \A k \in Games : k # g => cells'[k] = cells[k]
        /\ Live' = (Live \ {g}) \cup {k \in {g} : c # NoCell /\ c.state # "RealMigrate"}
        /\ Prep' = (Prep \ {g}) \cup {k \in {g} : c # NoCell /\ c.state = "Prepare"}
        /\ Old' = (Old \ {g})
                    \cup {k \in {g} : c # NoCell /\ c.state = "RealMigrate" /\ ~c.dying}
      BY <1>1, <1>4, CellChanged
  <2>2. g \notin Live /\ g \notin Prep
      BY <1>3, CellFacts
  <2> QED BY <2>1, <2>2, <1>4
<1>6. \A k \in Live : cells'[k] = cells[k]
    BY <1>3, <1>5, CellFacts
<1>7. Acks' = Acks
    BY <1>5, <1>6 DEF Acks
<1>8. CellsInv'
    BY <1>5, <1>6 DEF AuthorityInv, CellsInv
<1>9. DecodedInv'
    BY <1>1, <1>2 DEF AuthorityInv, DecodedInv, bounds
<1>10. Mail' = Taken(Mail, Imp(g)) /\ Placed(Mail')
  <2>1. Mail' = Queues(up, down, imp')
      BY <1>1 DEF Mail
  <2> QED BY <2>1, <1>2
<1>11. SeatInv(Mail', Live, Prep, Old \ {g}, migrations)
  <2>1. SeatInv(Mail, Live, Prep, Old, migrations) /\ g \in Nodes
      BY Owners DEF AuthorityInv
  <2> QED BY <2>1, <1>2, <1>10, FinishArrives
<1>12. SeatInv(Mail', Live', Prep', Old', migrations')
    BY <1>1, <1>5, <1>11 DEF bounds
<1>13. ASSUME NEW u \in Sources PROVE OwnerInv(Mail', u, mb'[u], Live', Prep', Acks')
  <2>1. OwnerInv(Mail, u, mb[u], Live, Prep, Acks)
      BY DEF AuthorityInv
  <2>2. Head(Mail[Imp(g)]) \in SeatKinds
      BY <1>2 DEF Fin, SeatKinds
  <2>3. Head(Mail[Imp(g)]) \notin AckOf(u) \cup FromCell(u)
      BY <2>2, Apart DEF OwnerKinds, ToCell
  <2>4. OwnerInv(Mail', u, mb[u], Live, Prep, Acks)
      BY <2>1, <2>3, <1>2, <1>10, OwnerPass
  <2> QED BY <2>4, <1>1, <1>5, <1>7
<1> QED BY <1>8, <1>9, <1>10, <1>12, <1>13, AuthorityNext

(* ... and removed.                                                        *)
LEMMA DestroyCellKeeps ==
    ASSUME TypeInv, AuthorityInv, NEW g \in Games, DestroyCell(g)
    PROVE  AuthorityInv'
<1>1. /\ Exists(g) /\ cells[g].dying /\ cells' = [cells EXCEPT ![g] = NoCell]
      /\ UNCHANGED <<mb, net, crashed, issued, bounds>>
    BY DEF DestroyCell
<1>2. g \notin Live /\ g \notin Old
    BY <1>1 DEF AuthorityInv, CellsInv, Old
<1>3. /\ \A k \in Games : k # g => cells'[k] = cells[k]
      /\ Live' = Live /\ Prep' = Prep /\ Old' = Old
  <2> DEFINE c == NoCell
  <2>0. c = NoCell
      OBVIOUS
  <2>1. cells' = [cells EXCEPT ![g] = c] /\ c \in CellType \cup {NoCell}
      BY <1>1
  <2> HIDE DEF c
  <2>2. /\ \A k \in Games : k # g => cells'[k] = cells[k]
        /\ Live' = (Live \ {g}) \cup {k \in {g} : c # NoCell /\ c.state # "RealMigrate"}
        /\ Prep' = (Prep \ {g}) \cup {k \in {g} : c # NoCell /\ c.state = "Prepare"}
        /\ Old' = (Old \ {g})
                    \cup {k \in {g} : c # NoCell /\ c.state = "RealMigrate" /\ ~c.dying}
      BY <2>1, CellChanged
  <2>3. g \notin Prep
      BY <1>2, CellFacts
  <2> QED BY <2>0, <2>2, <2>3, <1>2
<1>4. \A k \in Live : cells'[k] = cells[k]
    BY <1>2, <1>3, CellFacts
<1>5. Acks' = Acks
    BY <1>3, <1>4 DEF Acks
<1>6. CellsInv'
    BY <1>3, <1>4 DEF AuthorityInv, CellsInv
<1>7. Mail' = Mail
    BY <1>1 DEF Mail, net
<1>8. DecodedInv'
    BY <1>1 DEF AuthorityInv, DecodedInv, net, bounds
<1>9. Placed(Mail')
    BY <1>7 DEF AuthorityInv
<1>10. SeatInv(Mail', Live', Prep', Old', migrations')
    BY <1>1, <1>3, <1>7 DEF AuthorityInv, bounds
<1>11. ASSUME NEW u \in Sources PROVE OwnerInv(Mail', u, mb'[u], Live', Prep', Acks')
    BY <1>1, <1>3, <1>5, <1>7 DEF AuthorityInv
<1> QED BY <1>6, <1>8, <1>9, <1>10, <1>11, AuthorityNext

(* The cell counts an acknowledgement; with the last it leaves.            *)
LEMMA MigrateReqackKeeps ==
    ASSUME TypeInv, AuthorityInv, NEW g \in Games, MigrateReqack(g)
    PROVE  AuthorityInv'
<1> DEFINE h == Head(imp[g]).letter
           s == h.arg
           acks2 == cells[g].acks \cup {s}
           c == [cells[g] EXCEPT !.acks = acks2]
           r == Queues(up, down, imp')
           packet == [oldAddr |-> g, applied |-> c.applied, own |-> c.own]
<1>1. /\ Take(g, "cell", "ack") /\ Exists(g)
      /\ UNCHANGED <<mb, down, crashed, issued, bounds>>
    BY DEF MigrateReqack, TakeForCell
<1>2. /\ Mail \in [Where -> Seq(Letters)] /\ Imp(g) \in Where /\ Mail[Imp(g)] # <<>>
      /\ h = Head(Mail[Imp(g)])
      /\ r = Taken(Mail, Imp(g)) /\ r \in [Where -> Seq(Letters)] /\ Placed(r)
      /\ imp' \in Imps /\ up \in Ups /\ down \in Ups3
      /\ \A k \in Nodes : \A i \in 1 .. Len(imp'[k]) : imp'[k][i].decoded
      /\ s \in Sources /\ h \in AckOf(s) /\ g \in Live
  <2>1. h = Head(imp[g]).letter /\ Take(g, "cell", "ack")
      BY <1>1
  <2> HIDE DEF h
  <2> QED BY <2>1, CellLetter
<1>3. \/ /\ AckComplete(c) /\ cells' = [cells EXCEPT ![g] = SentAway(c)]
         /\ \E gate \in Gates :
               up' = Sent(up, g, Letter(gate, c.newAddr, "game", "migrate", packet))
      \/ ~AckComplete(c) /\ cells' = [cells EXCEPT ![g] = c] /\ up' = up
    BY DEF MigrateReqack, Arg
<1> HIDE DEF h
<1>4. /\ cells[g] \in CellType /\ Live = {g} /\ Acks = cells[g].acks /\ g \notin Old
      /\ Prep = IF cells[g].state = "Prepare" THEN {g} ELSE {}
    BY <1>2, CellFacts, LoneLive
<1>5. \A u \in Sources : OwnerInv(Mail, u, mb[u], Live, Prep, Acks)
    BY DEF AuthorityInv
<1>6. Head(Mail[Imp(g)]) \in AckOf(s) /\ Head(Mail[Imp(g)]) \in ToCell(s)
    BY <1>2 DEF ToCell
<1>7. s \in acks2 /\ \A u \in Sources : u # s => (u \in acks2 <=> u \in Acks)
    BY <1>4
<1>8. OwnerInv(r, s, mb[s], Live, Prep, acks2) /\ Prep # {}
  <2>1. OwnerInv(Mail, s, mb[s], Live, Prep, Acks) /\ s \in Sources /\ g \in Nodes
      BY <1>2, <1>5, Owners
  <2> HIDE DEF r, s, acks2
  <2> QED BY <2>1, <1>2, <1>6, <1>7, OwnerAnswered
<1>9. /\ SeatInv(r, Live, Prep, Old, migrations)
      /\ \A u \in Sources : u # s => OwnerInv(r, u, mb[u], Live, Prep, acks2)
  <2>1. SeatInv(Mail, Live, Prep, Old, migrations)
      BY DEF AuthorityInv
  <2>2. /\ Mail \in [Where -> Seq(Letters)] /\ Imp(g) \in Where /\ Mail[Imp(g)] # <<>>
        /\ s \in Sources /\ r = Taken(Mail, Imp(g))
      BY <1>2
  <2>3. Head(Mail[Imp(g)]) \in ToCell(s)
      BY <1>6
  <2> HIDE DEF r, s, acks2
  <2>4. SeatInv(r, Live, Prep, Old, migrations)
      BY <2>1, <2>2, <2>3, SeatTakes
  <2>5. ASSUME NEW u \in Sources, u # s PROVE OwnerInv(r, u, mb[u], Live, Prep, acks2)
    <3>1. OwnerInv(Mail, u, mb[u], Live, Prep, Acks) /\ (u \in acks2 <=> u \in Acks)
        BY <1>5, <1>7, <2>5
    <3> QED BY <3>1, <2>2, <2>3, <2>5, OtherTakes
  <2> QED BY <2>4, <2>5
<1>10. \A u \in Sources : OwnerInv(r, u, mb[u], Live, Prep, acks2)
    BY <1>8, <1>9
<1>11. cells[g].state = "Prepare" /\ Prep = {g}
    BY <1>4, <1>8
<1>12. /\ ~cells[g].dying /\ cells[g].newAddr # g /\ cells[g].newAddr \in Games
  <2>1. ~cells[g].dying /\ cells[g].newAddr # g
      BY <1>2, <1>11 DEF AuthorityInv, CellsInv
  <2>2. cells[g].newAddr \in Games
      BY <1>1, <1>11 DEF TypeInv, Places
  <2> QED BY <2>1, <2>2
<1>13. /\ c \in CellType /\ c.state = "Prepare" /\ c.acks = acks2 /\ ~c.dying
       /\ c.newAddr = cells[g].newAddr
  <2>1. acks2 \in SUBSET Sources
      BY <1>2, <1>4 DEF CellType
  <2> HIDE DEF acks2
  <2> QED BY <2>1, <1>4, <1>11, <1>12 DEF CellType
<1>14. DecodedInv'
    BY <1>1, <1>2 DEF AuthorityInv, DecodedInv, bounds
<1>15. CASE ~AckComplete(c)
  <2>1. cells' = [cells EXCEPT ![g] = c] /\ up' = up /\ c.acks # Sources
      BY <1>3, <1>13, <1>15 DEF AckComplete
  <2> HIDE DEF c
  <2>2. cells'[g] = c /\ Live' = {g} /\ Prep' = {g} /\ Old' = Old
    <3>1. /\ cells'[g] = c
          /\ Live' = (Live \ {g}) \cup {k \in {g} : c # NoCell /\ c.state # "RealMigrate"}
          /\ Prep' = (Prep \ {g}) \cup {k \in {g} : c # NoCell /\ c.state = "Prepare"}
          /\ Old' = (Old \ {g})
                      \cup {k \in {g} : c # NoCell /\ c.state = "RealMigrate" /\ ~c.dying}
      <4>1. c \in CellType /\ cells' = [cells EXCEPT ![g] = c]
          BY <2>1, <1>13
      <4> QED BY <4>1, CellChanged
    <3>2. c # NoCell
        BY <1>13, NoCellAssumption
    <3> QED BY <3>1, <3>2, <1>4, <1>11, <1>13
  <2>3. Acks' = acks2
      BY <2>2, <1>13 DEF Acks
  <2>4. CellsInv'
      BY <2>1, <2>2, <1>12, <1>13 DEF CellsInv
  <2>5. Mail' = r
      BY <2>1, <1>1 DEF Mail
  <2>6. Placed(Mail')
      BY <2>5, <1>2
  <2>7. SeatInv(Mail', Live', Prep', Old', migrations')
      BY <2>2, <2>5, <1>1, <1>4, <1>9, <1>11 DEF bounds
  <2>8. ASSUME NEW u \in Sources PROVE OwnerInv(Mail', u, mb'[u], Live', Prep', Acks')
      BY <2>2, <2>3, <2>5, <1>1, <1>4, <1>10, <1>11
  <2> QED BY <2>4, <2>6, <2>7, <2>8, <1>14, AuthorityNext
<1>16. CASE AckComplete(c)
  <2> DEFINE e == SentAway(c)
  <2>1. PICK gate \in Gates :
            up' = Sent(up, g, Letter(gate, c.newAddr, "game", "migrate", packet))
      BY <1>3, <1>16
  <2> DEFINE l == Letter(gate, c.newAddr, "game", "migrate", packet)
  <2>2. acks2 = Sources /\ cells' = [cells EXCEPT ![g] = e]
      BY <1>3, <1>13, <1>16 DEF AckComplete
  <2>3. packet \in PacketType
      BY <1>13 DEF PacketType, CellType
  <2>4. l \in Pk /\ l.arg.oldAddr = g /\ l.dst # g /\ l \in Letters
    <3>1. packet.oldAddr = g
        OBVIOUS
    <3> HIDE DEF packet, c
    <3>2. l \in Letters
        BY <2>3, <1>12, <1>13 DEF Letters, PacketLetters
    <3>3. l.op = "migrate" /\ l.arg = packet /\ l.dst = c.newAddr
        BY DEF Letter
    <3> QED BY <3>1, <3>2, <3>3, <1>12, <1>13 DEF Pk
  <2>5. e \in CellType /\ e.state = "RealMigrate" /\ ~e.dying
      BY <1>13 DEF SentAway, CellType
  <2> HIDE DEF e
  <2>6. Live' = {} /\ Prep' = {} /\ Old' = Old \cup {g}
    <3>1. /\ Live' = (Live \ {g}) \cup {k \in {g} : e # NoCell /\ e.state # "RealMigrate"}
          /\ Prep' = (Prep \ {g}) \cup {k \in {g} : e # NoCell /\ e.state = "Prepare"}
          /\ Old' = (Old \ {g})
                      \cup {k \in {g} : e # NoCell /\ e.state = "RealMigrate" /\ ~e.dying}
        BY <2>2, <2>5, CellChanged
    <3>2. e # NoCell
        BY <2>5, NoCellAssumption
    <3> QED BY <3>1, <3>2, <2>5, <1>4, <1>11
  <2>7. Acks' = {}
      BY <2>6 DEF Acks
  <2>8. CellsInv'
      BY <2>6 DEF CellsInv
  <2>9. Mail' = Queues(Sent(up, g, l), down, imp')
      BY <2>1, <1>1 DEF Mail
  <2> HIDE DEF l, packet, c
  <2>10. /\ Mail' = Posted(r, Up(g, l.via), l) /\ Placed(Mail')
         /\ \A X : l \notin X => Same(r, Mail', X)
      BY <2>4, <2>9, <1>2, Owners, SentPosted
  <2> HIDE DEF r
  <2>11. SeatInv(Mail', {}, {}, Old \cup {g}, migrations)
    <3>1. SeatInv(r, {g}, {g}, Old, migrations) /\ {g} # {}
        BY <1>4, <1>9, <1>11
    <3> QED BY <3>1, <2>4, <2>10, <1>2, <1>4, PacketLeaves
  <2>12. SeatInv(Mail', Live', Prep', Old', migrations')
      BY <2>6, <2>11, <1>1 DEF bounds
  <2>13. ASSUME NEW u \in Sources PROVE OwnerInv(Mail', u, mb'[u], Live', Prep', Acks')
    <3>1. OwnerInv(r, u, mb[u], Live, Prep, acks2) /\ u \in acks2
        BY <2>2, <1>10
    <3> HIDE DEF acks2
    <3>2. OwnerInv(r, u, mb[u], {}, {}, {})
        BY <3>1, OwnerLeft
    <3>3. Same(r, Mail', OwnerKinds(u))
      <4>1. l \in SeatKinds
          BY <2>4 DEF SeatKinds
      <4>2. l \notin OwnerKinds(u)
          BY <4>1, Apart
      <4> QED BY <4>2, <2>10
    <3>4. OwnerInv(Mail', u, mb[u], {}, {}, {})
        BY <3>2, <3>3, OwnerSame
    <3> QED BY <3>4, <2>6, <2>7, <1>1
  <2> QED BY <2>8, <2>10, <2>12, <2>13, <1>14, AuthorityNext
<1> QED BY <1>15, <1>16

(* The new cell takes over.                                                *)
LEMMA MigrateFromOldCellKeeps ==
    ASSUME TypeInv, AuthorityInv, NEW g \in Games, MigrateFromOldCell(g)
    PROVE  AuthorityInv'
<1> DEFINE h == Head(imp[g]).letter
           k == h.arg.oldAddr
           c == NewCell(h.arg.applied, h.arg.own)
           r == Queues(up, down, imp')
           l(s) == ToOwner(g, s, "new_cell_migrate_in")
           v == TellOwners(up, g, "new_cell_migrate_in")
           t == Queues(v, down, imp')
           f == NewMailBoxCall(g, k, "finish")
<1>1. /\ Take(g, "game", "migrate") /\ g \in Nodes
      /\ cells' = [cells EXCEPT ![g] = c] /\ up' = Sent(v, g, f)
      /\ UNCHANGED <<mb, down, crashed, issued, bounds>>
    BY Owners DEF MigrateFromOldCell, Arg, Announced
<1>2. /\ h \in Letters /\ h.to = "game" /\ h.op = "migrate" /\ h.dst = g
      /\ Mail \in [Where -> Seq(Letters)] /\ Imp(g) \in Where /\ Mail[Imp(g)] # <<>>
      /\ Head(Mail[Imp(g)]) = h
      /\ imp' \in Imps /\ up \in Ups /\ down \in Ups3 /\ r = Taken(Mail, Imp(g))
      /\ \A n \in Nodes : \A i \in 1 .. Len(imp'[n]) : imp'[n][i].decoded
  <2>1. Placed(Mail) /\ DecodedInv
      BY DEF AuthorityInv
  <2> QED BY <1>1, <2>1, TakenLetter
<1>3. r \in [Where -> Seq(Letters)] /\ Placed(r)
    BY <1>2, QueuesType, PlacedTake DEF AuthorityInv
<1>4. h \in Pk
    BY <1>2 DEF Pk
<1> HIDE DEF h
<1>5. c \in CellType /\ c.state = "None" /\ c.acks = {} /\ ~c.dying
  <2>1. h.arg \in PacketType
      BY <1>4, SeatKind
  <2> QED BY <2>1 DEF PacketType, NewCell, CellType
<1> HIDE DEF c
<1>6. Live = {} /\ k \in Old /\ k # g /\ k \in Games /\ Arriving(r, g, k, Old, migrations)
  <2>1. SeatInv(Mail, Live, Prep, Old, migrations) /\ k = h.arg.oldAddr
      BY DEF AuthorityInv
  <2> HIDE DEF r, k
  <2> QED BY <2>1, <1>2, <1>4, PacketArrives, SMTT(20)
<1>7. Live' = {g} /\ Prep' = {} /\ Old' = Old \ {g} /\ cells'[g] = c
  <2>1. /\ cells'[g] = c
        /\ Live' = (Live \ {g}) \cup {j \in {g} : c # NoCell /\ c.state # "RealMigrate"}
        /\ Prep' = (Prep \ {g}) \cup {j \in {g} : c # NoCell /\ c.state = "Prepare"}
        /\ Old' = (Old \ {g})
                    \cup {j \in {g} : c # NoCell /\ c.state = "RealMigrate" /\ ~c.dying}
      BY <1>1, <1>5, CellChanged
  <2>2. c # NoCell /\ Prep = {}
      BY <1>5, <1>6, CellFacts, NoCellAssumption
  <2> QED BY <2>1, <2>2, <1>5, <1>6
<1>8. Acks' = {}
    BY <1>5, <1>7 DEF Acks
<1>9. CellsInv'
    BY <1>5, <1>7 DEF CellsInv
<1>10. DecodedInv'
    BY <1>1, <1>2 DEF AuthorityInv, DecodedInv, bounds
<1>11. /\ v \in Ups /\ t \in [Where -> Seq(Letters)] /\ Placed(t) /\ Same(r, t, SeatKinds)
       /\ \A s \in Sources : Given(r, t, s, g, l(s))
  <2>1. "new_cell_migrate_in" \in OwnerOps
      BY DEF OwnerOps
  <2>2. r = Queues(up, down, imp')
           /\ t = Queues(TellOwners(up, g, "new_cell_migrate_in"), down, imp')
      OBVIOUS
  <2>3. v \in Ups
      BY <2>1, <1>2, TellType
  <2>4. up \in Ups /\ down \in Ups3 /\ imp' \in Imps /\ Placed(r)
      BY <1>2, <1>3
  <2> HIDE DEF r, t
  <2>5. /\ t \in [Where -> Seq(Letters)] /\ Same(r, t, SeatKinds)
        /\ Placed(r) => Placed(t)
        /\ \A s \in Sources : Given(r, t, s, g, l(s))
      BY <2>1, <2>2, <2>4, Told
  <2> QED BY <2>3, <2>4, <2>5
<1>12. f \in Letters /\ f \in Fin(k) /\ f \in SeatKinds
  <2>1. f \in Letters
      BY <1>6 DEF Letters, FinishLetters
  <2>2. f.op = "finish" /\ f.dst = k
      BY DEF NewMailBoxCall, Letter
  <2> QED BY <2>1, <2>2 DEF Fin, Fins, SeatKinds
<1>13. Mail' = Queues(Sent(v, g, f), down, imp')
    BY <1>1 DEF Mail
<1> HIDE DEF r, v, f, k
<1>14. /\ Mail' = Posted(t, Up(g, f.via), f) /\ Placed(Mail')
       /\ \A X : f \notin X => Same(t, Mail', X)
    BY <1>1, <1>2, <1>11, <1>12, <1>13, SentPosted
<1> HIDE DEF t
<1>15. SeatInv(Mail', Live', Prep', Old', migrations')
  <2>1. Arriving(t, g, k, Old, migrations)
      BY <1>6, <1>11, ArrivingSame
  <2>2. SeatInv(Mail', {g}, {}, Old \ {g}, migrations)
      BY <2>1, <1>6, <1>11, <1>12, <1>14, FinishLeaves
  <2> QED BY <2>2, <1>1, <1>7 DEF bounds
<1>16. ASSUME NEW s \in Sources PROVE OwnerInv(Mail', s, mb'[s], Live', Prep', Acks')
  <2>1. OwnerInv(Mail, s, mb[s], {}, Prep, Acks)
      BY <1>6 DEF AuthorityInv
  <2>2. Head(Mail[Imp(g)]) \notin AckOf(s) \cup FromCell(s)
    <3>1. h \in SeatKinds
        BY <1>4 DEF SeatKinds
    <3>2. h \notin OwnerKinds(s)
        BY <3>1, Apart
    <3> QED BY <3>2, <1>2 DEF OwnerKinds, ToCell
  <2>3. OwnerInv(r, s, mb[s], {}, Prep, Acks)
      BY <2>1, <2>2, <1>2, OwnerPass
  <2>4. PICK a, b \in [Where -> Seq(Letters)] :
            /\ Same(r, a, OwnerKinds(s)) /\ b = Posted(a, Up(g, l(s).via), l(s))
            /\ Same(b, t, OwnerKinds(s))
      BY <1>11 DEF Given
  <2>5. OwnerInv(a, s, mb[s], {}, Prep, Acks)
      BY <2>3, <2>4, OwnerSame
  <2>6. OwnerInv(b, s, mb[s], {g}, {}, {})
      BY <2>4, <2>5, OwnerMet
  <2>7. OwnerInv(t, s, mb[s], {g}, {}, {})
      BY <2>4, <2>6, OwnerSame
  <2>8. Same(t, Mail', OwnerKinds(s))
    <3>1. f \notin OwnerKinds(s)
        BY <1>12, Apart
    <3> QED BY <3>1, <1>14
  <2>9. OwnerInv(Mail', s, mb[s], {g}, {}, {})
      BY <2>7, <2>8, OwnerSame
  <2> QED BY <2>9, <1>1, <1>7, <1>8
<1> QED BY <1>9, <1>10, <1>14, <1>15, <1>16, AuthorityNext

-----------------------------------------------------------------------------
(* Every step keeps the invariant.                                         *)
LEMMA AuthorityStep ==
    ASSUME Ordered, TypeInv, AuthorityInv, [Next]_vars
    PROVE  AuthorityInv'
<1>1. CASE Transport
    BY <1>1, ForwardKeeps, ArriveKeeps DEF Transport
<1>2. ASSUME NEW g \in Games, CellStep(g) PROVE AuthorityInv'
    BY <1>2, NoneLost, MigrateReqackKeeps, FinishKeeps, ExecCallKeeps, MigrateFromOldCellKeeps
       DEF CellStep
<1>3. ASSUME NEW g \in Games, DestroyCell(g) PROVE AuthorityInv'
    BY <1>3, DestroyCellKeeps
<1>4. ASSUME NEW g \in Games, MigrateCheckTimer(g) PROVE AuthorityInv'
  <2>1. timeouts < 0 /\ timeouts \in Nat
      BY <1>4 DEF MigrateCheckTimer, Ordered, TypeInv, Counts
  <2> QED BY <2>1
<1>5. ASSUME NEW g \in Games, NEW newAddr \in Games, BeginMigrate(g, newAddr)
      PROVE  AuthorityInv'
    BY <1>5, BeginMigrateKeeps
<1>6. ASSUME NEW s \in Sources, OwnerStep(s) PROVE AuthorityInv'
    BY <1>6, MigrateReqKeeps, NewCellMigrateInKeeps DEF OwnerStep
<1>7. ASSUME NEW s \in Sources, CallCell(s) PROVE AuthorityInv'
    BY <1>7, CallCellKeeps
<1>8. CASE UNCHANGED vars
  <2>1. UNCHANGED <<cells, mb, up, down, imp, crashed, migrations, timeouts>>
      BY <1>8 DEF vars, net, bounds
  <2>2. Mail' = Mail
      BY <2>1 DEF Mail
  <2>3. Live' = Live /\ Prep' = Prep /\ Old' = Old /\ Acks' = Acks /\ CellsInv'
      BY <2>1, CellsSame DEF AuthorityInv
  <2>4. DecodedInv'
      BY <2>1 DEF AuthorityInv, DecodedInv
  <2>5. Placed(Mail') /\ SeatInv(Mail', Live', Prep', Old', migrations')
      BY <2>1, <2>2, <2>3 DEF AuthorityInv
  <2>6. \A s \in Sources : OwnerInv(Mail', s, mb'[s], Live', Prep', Acks')
      BY <2>1, <2>2, <2>3 DEF AuthorityInv
  <2> QED BY <2>3, <2>4, <2>5, <2>6, AuthorityNext
<1> QED BY <1>1, <1>2, <1>3, <1>4, <1>5, <1>6, <1>7, <1>8 DEF Next

(* One place is in charge, and each owner is where the handshake wants it. *)
THEOREM Authority == ASSUME Ordered PROVE Spec => []AuthorityInv
<1>1. Init => AuthorityInv
    BY AuthorityInit
<1>2. TypeInv /\ AuthorityInv /\ [Next]_vars => AuthorityInv'
    BY AuthorityStep
<1>3. Spec => []TypeInv
    BY Typed
<1> QED BY <1>1, <1>2, <1>3, PTL DEF Spec

-----------------------------------------------------------------------------
(* What the letters of the network say.                                    *)
LEMMA InMail ==
    ASSUME TypeInv, NEW l
    PROVE  l \in InNetwork <=> \E w \in Where : \E i \in 1 .. Len(Mail[w]) : l = Mail[w][i]
<1>1. up \in Ups /\ down \in Ups3 /\ imp \in Imps /\ Mail \in [Where -> Seq(Letters)]
    BY MailType
<1>2. ASSUME NEW S, NEW q \in Seq(S) PROVE l \in ToSet(q) <=> \E i \in 1 .. Len(q) : l = q[i]
    BY DEF ToSet
<1>3. ASSUME NEW n \in Nodes, NEW gate \in Gates
      PROVE  /\ Mail[Up(n, gate)] = up[n][gate] /\ up[n][gate] \in Seq(Letters)
             /\ Mail[Down(gate, n)] = down[gate][n] /\ down[gate][n] \in Seq(Letters)
             /\ Up(n, gate) \in Where /\ Down(gate, n) \in Where
  <2>1. Mail[Up(n, gate)] = up[n][gate] /\ Mail[Down(gate, n)] = down[gate][n]
      BY <1>1, QueuesType DEF Mail
  <2>2. up[n][gate] \in Seq(Letters) /\ down[gate][n] \in Seq(Letters)
      BY <1>1 DEF Ups, Ups3
  <2> QED BY <2>1, <2>2, Stages
<1>4. ASSUME NEW n \in Nodes
      PROVE  /\ Mail[Imp(n)] = LettersOf(imp[n]) /\ imp[n] \in Seq(Entries)
             /\ LettersOf(imp[n]) \in Seq(Letters) /\ Len(LettersOf(imp[n])) = Len(imp[n])
             /\ \A i \in 1 .. Len(imp[n]) : LettersOf(imp[n])[i] = imp[n][i].letter
             /\ Imp(n) \in Where
  <2>1. Mail[Imp(n)] = LettersOf(imp[n])
      BY <1>1, QueuesType DEF Mail
  <2>2. imp[n] \in Seq([letter : Letters, decoded : BOOLEAN])
      BY <1>1 DEF Imps
  <2>3. /\ LettersOf(imp[n]) \in Seq(Letters) /\ Len(LettersOf(imp[n])) = Len(imp[n])
        /\ \A i \in 1 .. Len(imp[n]) : LettersOf(imp[n])[i] = imp[n][i].letter
      BY <2>2, LettersOfType
  <2> QED BY <2>1, <2>2, <2>3, Stages DEF Entries
<1>5. ASSUME l \in InNetwork
      PROVE  \E w \in Where : \E i \in 1 .. Len(Mail[w]) : l = Mail[w][i]
  <2>1. CASE \E n \in Nodes, gate \in Gates : l \in ToSet(up[n][gate])
    <3>1. PICK n \in Nodes, gate \in Gates : l \in ToSet(up[n][gate])
        BY <2>1
    <3>2. \E i \in 1 .. Len(Mail[Up(n, gate)]) : l = Mail[Up(n, gate)][i]
        BY <3>1, <1>2, <1>3
    <3> QED BY <3>2, <1>3
  <2>2. CASE \E n \in Nodes, gate \in Gates : l \in ToSet(down[gate][n])
    <3>1. PICK n \in Nodes, gate \in Gates : l \in ToSet(down[gate][n])
        BY <2>2
    <3>2. \E i \in 1 .. Len(Mail[Down(gate, n)]) : l = Mail[Down(gate, n)][i]
        BY <3>1, <1>2, <1>3
    <3> QED BY <3>2, <1>3
  <2>3. CASE \E n \in Nodes : \E e \in ToSet(imp[n]) : l = e.letter
    <3>1. PICK n \in Nodes : \E e \in ToSet(imp[n]) : l = e.letter
        BY <2>3
    <3>2. PICK i \in 1 .. Len(imp[n]) : l = imp[n][i].letter
        BY <3>1, <1>4 DEF ToSet
    <3>3. i \in 1 .. Len(Mail[Imp(n)]) /\ l = Mail[Imp(n)][i]
        BY <3>2, <1>4
    <3> QED BY <3>3, <1>4
  <2> QED BY <2>1, <2>2, <2>3, <1>5 DEF InNetwork
<1>6. ASSUME NEW w \in Where, NEW i \in 1 .. Len(Mail[w]), l = Mail[w][i] PROVE l \in InNetwork
  <2>1. w[1] \in {1, 2, 3} /\ w[2] \in Nodes /\ w[3] \in Gates
      BY Stages
  <2>2. CASE w[1] = 1
    <3>1. Mail[w] = up[w[2]][w[3]]
        BY <2>2 DEF Mail, Queues
    <3>2. l \in ToSet(up[w[2]][w[3]])
        BY <3>1, <2>1, <1>2, <1>3, <1>6
    <3> QED BY <3>2, <2>1 DEF InNetwork
  <2>3. CASE w[1] = 2
    <3>1. Mail[w] = down[w[3]][w[2]]
        BY <2>3 DEF Mail, Queues
    <3>2. l \in ToSet(down[w[3]][w[2]])
        BY <3>1, <2>1, <1>2, <1>3, <1>6
    <3> QED BY <3>2, <2>1 DEF InNetwork
  <2>4. CASE w[1] = 3
    <3>1. Mail[w] = LettersOf(imp[w[2]])
      <4>1. Mail[w] = IF w[3] = ClientGate THEN LettersOf(imp[w[2]]) ELSE <<>>
          BY <2>4 DEF Mail, Queues
      <4>2. Mail[w] # <<>>
        <5>1. Len(<<>>) = 0
            OBVIOUS
        <5> QED BY <5>1, <1>6
      <4> QED BY <4>1, <4>2
    <3>2. i \in 1 .. Len(imp[w[2]]) /\ l = imp[w[2]][i].letter
        BY <3>1, <2>1, <1>4, <1>6
    <3>3. imp[w[2]][i] \in ToSet(imp[w[2]])
        BY <3>2, <2>1, <1>4 DEF ToSet
    <3> QED BY <3>2, <3>3, <2>1 DEF InNetwork
  <2> QED BY <2>1, <2>2, <2>3, <2>4
<1> QED BY <1>5, <1>6

LEMMA FreeOf ==
    ASSUME TypeInv, NEW K
    PROVE  Free(Mail, K) <=> \A l \in InNetwork : l \notin K
<1>1. DOMAIN Mail = Where
    BY MailType
<1> QED BY <1>1, InMail DEF Free

LEMMA PacketsInMail ==
    ASSUME TypeInv
    PROVE  /\ Packets = InNetwork \cap Pk
           /\ Packets = {} <=> Free(Mail, Pk)
<1>1. InNetwork \subseteq Letters
    BY LettersTyped
<1>2. Packets = InNetwork \cap Pk
    BY <1>1 DEF Packets, Pk
<1> QED BY <1>2, FreeOf

(* The entity is in charge of itself in one place.                         *)
THEOREM OneInCharge == ASSUME Ordered PROVE Spec => []OneAuthority
<1>1. TypeInv /\ AuthorityInv => OneAuthority
  <2> SUFFICES ASSUME TypeInv, AuthorityInv PROVE OneAuthority
      OBVIOUS
  <2>1. \A g \in Live : ~cells[g].dying
      BY DEF AuthorityInv, CellsInv
  <2>2. CASE Live # {}
    <3>1. PICK g : Live = {g}
        BY <2>2, LoneLive
    <3>2. Packets = {}
        BY <2>2, PacketsInMail DEF AuthorityInv, SeatInv, Seat
    <3>3. Cardinality(Live) = 1 /\ Cardinality(Packets) = 0
        BY <3>1, <3>2, FS_EmptySet, FS_Singleton
    <3> QED BY <3>3, <2>1 DEF OneAuthority
  <2>3. CASE Live = {}
    <3>1. Packets # {} /\ Single(Mail, Pk) /\ DOMAIN Mail = Where
        BY <2>3, PacketsInMail, MailType DEF AuthorityInv, SeatInv, Seat
    <3>2. \A k, l \in Packets : k = l
        BY <3>1, PacketsInMail, InMail DEF Single
    <3>3. PICK l : l \in Packets
        BY <3>1
    <3>4. Packets = {l}
        BY <3>2, <3>3
    <3>5. Cardinality(Live) = 0 /\ Cardinality(Packets) = 1
        BY <2>3, <3>4, FS_EmptySet, FS_Singleton
    <3> QED BY <3>5, <2>1 DEF OneAuthority
  <2> QED BY <2>2, <2>3
<1> QED BY <1>1, Typed, Authority, PTL

(* While the packet is under way the owners cache, and what they called is *)
(* executed.                                                               *)
THEOREM OwnersAllCache == ASSUME Ordered PROVE Spec => []OwnersCache
<1>1. TypeInv /\ AuthorityInv => OwnersCache
  <2> SUFFICES ASSUME TypeInv, AuthorityInv, Packets # {}
               PROVE  /\ \A s \in Sources : mb[s].caching
                      /\ \A l \in InNetwork : l.op # "call"
      BY DEF OwnersCache
  <2>1. Live = {}
      BY PacketsInMail DEF AuthorityInv, SeatInv, Seat
  <2>2. ASSUME NEW s \in Sources PROVE mb[s].caching
      BY <2>1 DEF AuthorityInv, OwnerInv, Phase, Calling, Acking, Waiting, Unaware
  <2>3. ASSUME NEW l \in InNetwork, l.op = "call" PROVE FALSE
    <3>1. l \in Letters
        BY LettersTyped
    <3>2. l.to = "cell"
        BY <3>1, <2>3, ForCell
    <3>3. PICK w \in Where : \E i \in 1 .. Len(Mail[w]) : l = Mail[w][i]
        BY InMail
    <3>4. l.dst \in Live
        BY <3>2, <3>3, <2>3, CellRpcs
    <3> QED BY <3>4, <2>1
  <2> QED BY <2>2, <2>3
<1> QED BY <1>1, Typed, Authority, PTL

(* An owner that calls the cell has its address.                           *)
THEOREM MailBoxesSound == ASSUME Ordered PROVE Spec => []MailBoxSound
<1>1. AuthorityInv => MailBoxSound
    BY DEF MailBoxSound, AuthorityInv, OwnerInv, Phase, Calling, Acking, Waiting, Unaware
<1> QED BY <1>1, Authority, PTL

(* No null rpc is executed.                                                *)
THEOREM NoneNull == ASSUME Ordered PROVE Spec => []NoNullRpc
<1>1. AuthorityInv => NoNullRpc
    BY DEF NoNullRpc, AuthorityInv, DecodedInv
<1> QED BY <1>1, Authority, PTL

(* A cell that has been sent away executes nothing more.                   *)
THEOREM FrozenStays == ASSUME Ordered PROVE Spec => FrozenUntouched
<1> DEFINE Stays == \A g \in Frozen \cap Frozen' : cells'[g].applied = cells[g].applied
<1>1. ASSUME TypeInv, AuthorityInv, [Next]_vars PROVE Stays
  <2>1. ASSUME \A g \in Frozen \cap Frozen' : cells'[g] = cells[g] PROVE Stays
      BY <2>1
  <2>2. ASSUME NEW g \in Games, NEW c, cells' = [cells EXCEPT ![g] = c],
               g \notin Frozen \/ c = NoCell \/ c.state # "RealMigrate"
               \/ c.applied = cells[g].applied
        PROVE  Stays
    <3>1. ASSUME NEW k \in Frozen \cap Frozen' PROVE cells'[k].applied = cells[k].applied
      <4>1. k \in Games
          BY DEF Frozen
      <4>2. CASE k # g
          BY <1>1, <4>1, <4>2, <2>2 DEF TypeInv, Places
      <4>3. CASE k = g
        <5>1. cells'[g] = c
            BY <1>1, <2>2 DEF TypeInv, Places
        <5>2. cells'[g] # NoCell /\ cells'[g].state = "RealMigrate"
            BY <4>3 DEF Frozen, Exists
        <5> QED BY <5>1, <5>2, <4>3, <2>2
      <4> QED BY <4>2, <4>3
    <3> QED BY <3>1
  <2> HIDE DEF Stays
  <2>3. ASSUME UNCHANGED cells PROVE Stays
      BY <2>1, <2>3
  <2>4. ASSUME NEW g \in Games, CellStep(g) PROVE Stays
    <3>1. ~NoSuchCell(g) /\ ~NullRpc(g)
        BY <1>1, NoneLost
    <3>2. CASE MigrateReqack(g)
      <4>1. g \notin Frozen
          BY <1>1, <3>2, CellLetter, CellFacts DEF MigrateReqack, TakeForCell
      <4> QED BY <4>1, <3>2, <2>2 DEF MigrateReqack
    <3>3. CASE NewCellMigrateFinish(g)
      <4> DEFINE c == [cells[g] EXCEPT !.dying = TRUE]
      <4>1. cells[g] \in CellType /\ cells' = [cells EXCEPT ![g] = c]
          BY <1>1, <3>3, CellFacts DEF NewCellMigrateFinish, TakeForCell
      <4>2. c.applied = cells[g].applied
          BY <4>1 DEF CellType
      <4> HIDE DEF c
      <4> QED BY <4>1, <4>2, <2>2
    <3>4. CASE ExecCall(g)
      <4>1. g \notin Frozen
          BY <1>1, <3>4, CellLetter, CellFacts DEF ExecCall, TakeForCell
      <4> DEFINE c == [cells[g] EXCEPT !.applied[Arg(g)[1]] = Append(@, Arg(g)[2])]
      <4>2. cells' = [cells EXCEPT ![g] = c]
          BY <3>4 DEF ExecCall
      <4> HIDE DEF c
      <4> QED BY <4>1, <4>2, <2>2
    <3>5. CASE MigrateFromOldCell(g)
      <4> DEFINE c == NewCell(Arg(g).applied, Arg(g).own)
      <4>1. c.state = "None" /\ cells' = [cells EXCEPT ![g] = c]
          BY <3>5 DEF MigrateFromOldCell, NewCell
      <4> HIDE DEF c
      <4> QED BY <4>1, <2>2
    <3> QED BY <3>1, <3>2, <3>3, <3>4, <3>5, <2>4 DEF CellStep
  <2>5. ASSUME NEW g \in Games, DestroyCell(g) PROVE Stays
      BY <2>2, <2>5 DEF DestroyCell
  <2>6. ASSUME NEW g \in Games, MigrateCheckTimer(g) PROVE Stays
    <3>1. timeouts < 0 /\ timeouts \in Nat
        BY <1>1, <2>6 DEF MigrateCheckTimer, Ordered, TypeInv, Counts
    <3> QED BY <3>1
  <2>7. ASSUME NEW g \in Games, NEW newAddr \in Games, BeginMigrate(g, newAddr) PROVE Stays
    <3>1. g \notin Frozen
        BY <2>7 DEF BeginMigrate, Frozen
    <3> DEFINE c == [cells[g] EXCEPT !.state = "Prepare", !.timer = TRUE, !.newAddr = newAddr]
    <3>2. cells' = [cells EXCEPT ![g] = c]
        BY <2>7 DEF BeginMigrate
    <3> HIDE DEF c
    <3> QED BY <3>1, <3>2, <2>2
  <2>8. ASSUME NEW s \in Sources, OwnerStep(s) \/ CallCell(s) PROVE Stays
      BY <2>3, <2>8 DEF OwnerStep, CallCell, MigrateReqFromCell, NewCellMigrateIn
  <2>9. CASE Transport
      BY <2>3, <2>9 DEF Transport, Forward, Arrive
  <2>10. CASE UNCHANGED vars
      BY <2>3, <2>10 DEF vars
  <2> QED BY <1>1, <2>4, <2>5, <2>6, <2>7, <2>8, <2>9, <2>10 DEF Next
<1>2. TypeInv /\ AuthorityInv /\ [Next]_vars => [Stays]_vars
    BY <1>1
<1> HIDE DEF Stays
<1>3. Spec => [][Stays]_vars
    BY <1>2, Typed, Authority, PTL DEF Spec
<1> QED BY <1>3 DEF FrozenUntouched, Stays
=============================================================================
