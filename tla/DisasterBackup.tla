---------------------------- MODULE DisasterBackup ----------------------------
(***************************************************************************)
(* Disaster backup (README.md, 538-547): base and cell of an entity live   *)
(* in different games and each keeps a backup of the other.  When a game   *)
(* dies, every gate tells the remaining games, the half that is left asks  *)
(* a gate to rebuild the lost one from its backup in some other game, and, *)
(* told that this has succeeded, rolls itself back to its own backup       *)
(* (engine/entity.cpp, game/framework/game_rpc.cpp,                        *)
(* gate/framework/gate_rpc.cpp and gate_instance.cpp).  A half that hears  *)
(* nothing of the other for a minute destroys itself.                      *)
(*                                                                         *)
(* The properties of an entity are represented by an amount of gold that   *)
(* its halves give to each other as README.md asks, line 547: first take   *)
(* it from oneself, then give it.  A game that died does not come back     *)
(* under the same address.                                                 *)
(***************************************************************************)
EXTENDS Integers, Sequences, FiniteSets

CONSTANTS Games, Gates,
          Fixed,        \* Fixed[g][a]: get_fixed_session(a) in game g
          Base0, Cell0, \* the games of base and cell at the beginning
          Gold,         \* the gold each of them has then
          MaxGifts,     \* bound: gifts
          MaxRounds,    \* bound: backups made because of the timer
          Mortal,       \* bound: the games that may die
          MaxFaults     \* bound: games that die and writes that fail

ASSUME PlacesAssumption ==
    /\ Base0 \in Games /\ Cell0 \in Games /\ Base0 # Cell0
    /\ Fixed \in [Games -> [Games -> Gates]] /\ Gold \in Nat /\ IsFiniteSet(Games)

Halves == {"base", "cell"}
Other(s) == IF s = "base" THEN "cell" ELSE "base"

None == [exists |-> FALSE]      \* no such entity in this game
NoBackup == [gold |-> 0, round |-> 0]

VARIABLES alive,        \* the games that run
          ents,         \* ents[s][g]: half s of the entity in game g
          handled,      \* handled[g][a]: what next_disaster_times of g says
                        \* of address a
          up, down,     \* up[g][k], down[k][g]: rpcs between game and gate
          known,        \* known[k]: m_remotes of gate k
          reading,      \* reading[k]: the games whose stream gate k reads
          gifts, rounds, timed, fails,  \* counters, of backups made at all
                                        \* and because of the timer
          again,        \* again[g]: deaths after which game g has sent an
                        \* order, past the deadline, less than 20 seconds ago
          unheld,       \* and then it sent another one
          uneven,       \* a half was rolled back to a backup of another
                        \* round than the one the other was rebuilt from
          late          \* a half was rolled back or rebuilt while rpcs of
                        \* the lost one were still under way

netVars == <<up, down>>
gateVars == <<known, reading>>
boundVars == <<gifts, timed, fails>>
heldVars == <<handled, again, unheld>>
ghostVars == <<uneven, late>>
vars == <<alive, ents, heldVars, netVars, gateVars, rounds, boundVars, ghostVars>>

Backups == [gold : Nat, round : Nat]

\* A half: the address of the other one in its mailbox and the gate that
\* the mailbox takes, its properties, disaster_backup_of_self, and its backup
\* of the other half.
Entities == [exists : {TRUE}, addr : Games, gate : Gates, gold : Nat,
             self : Backups, other : Backups]

\* A new half in game g.  Its mailbox takes the gate of its first address,
\* and keeps it when the address changes (m_session_cache).
Entity(g, addr, gold) ==
    [exists |-> TRUE, addr |-> addr, gate |-> Fixed[g][addr], gold |-> gold,
     self |-> NoBackup, other |-> NoBackup]

Kinds == {"gift",       \* gameplay: one piece of gold
          "backup",     \* cell_disaster_backup, base_disaster_backup
          "recover",    \* base_/cell_recover_by_disaster_backup
          "recovered",  \* ..._recover_by_disaster_backup_success
          "disappear"}  \* on_game_disappear

\* half: for which half; addr: in which game, or which game has died; from:
\* the game of the sender; bk: the backup that is sent, or was used.
Rpc(kind, half, addr, from, bk) ==
    [kind |-> kind, half |-> half, addr |-> addr, from |-> from, bk |-> bk]
Rpcs == [kind : Kinds, half : Halves, addr : Games, from : Games, bk : Backups]

\* The queues, and every rpc that is under way.
Lanes == {"up", "down"} \X Games \X Gates
Queue(w) == IF w[1] = "up" THEN up[w[2]][w[3]] ELSE down[w[3]][w[2]]
UnderWay == UNION {{Queue(w)[i] : i \in DOMAIN Queue(w)} : w \in Lanes}

\* An address in next_disaster_times: absent, or its deadline.
Deadlines == {"none", "ahead", "passed"}

TypeOK ==
    /\ alive \subseteq Games
    /\ ents \in [Halves -> [Games -> Entities \cup {None}]]
    /\ handled \in [Games -> [Games -> Deadlines]]
    /\ up \in [Games -> [Gates -> Seq(Rpcs)]]
    /\ down \in [Gates -> [Games -> Seq(Rpcs)]]
    /\ known \in [Gates -> SUBSET Games] /\ reading \in [Gates -> SUBSET Games]
    /\ again \in [Games -> SUBSET Games]
    /\ rounds \in Nat /\ gifts \in Nat /\ timed \in Nat /\ fails \in Nat
    /\ unheld \in BOOLEAN /\ uneven \in BOOLEAN /\ late \in BOOLEAN
    /\ \A m \in UnderWay :
          m.kind \in {"backup", "recover", "recovered"} => m.bk.round \in 1 .. rounds

Init ==
    /\ alive = Games
    /\ ents = [s \in Halves |-> [g \in Games |->
                 IF s = "base" /\ g = Base0
                 THEN Entity(g, Cell0, Gold)
                 ELSE IF s = "cell" /\ g = Cell0
                 THEN Entity(g, Base0, Gold)
                 ELSE None]]
    /\ handled = [g \in Games |-> [a \in Games |-> "none"]]
    /\ up = [g \in Games |-> [k \in Gates |-> <<>>]]
    /\ down = [k \in Gates |-> [g \in Games |-> <<>>]]
    /\ known = [k \in Gates |-> Games] /\ reading = known
    /\ again = [g \in Games |-> {}]
    /\ rounds = 0 /\ gifts = 0 /\ timed = 0 /\ fails = 0
    /\ unheld = FALSE /\ uneven = FALSE /\ late = FALSE

-----------------------------------------------------------------------------
Has(s, g) == g \in alive /\ ents[s][g].exists

\* Whether an entity rpc of a dead game is still under way.
Residue == \E m \in UnderWay :
              m.kind \in {"gift", "backup", "recovered"} /\ m.from \notin alive

\* The rpcs of queue q followed by m: an entity calls from game g through
\* gate k.
Send(q, g, k, m) == [q EXCEPT ![g][k] = Append(@, m)]

\* mailbox.call of half e, which is an s in game g, to the other half.
Call(q, kind, s, g, e, bk) == Send(q, g, e.gate, Rpc(kind, Other(s), e.addr, g, bk))

-----------------------------------------------------------------------------
(* Gameplay: half s takes a piece of its gold and gives it to the other. *)
Give(s, g) ==
    /\ Has(s, g) /\ ents[s][g].gold > 0 /\ gifts < MaxGifts
    /\ ents' = [ents EXCEPT ![s][g].gold = @ - 1]
    /\ up' = Call(up, "gift", s, g, ents[s][g], NoBackup)
    /\ gifts' = gifts + 1
    /\ UNCHANGED <<alive, heldVars, down, gateVars, rounds, timed, fails, ghostVars>>

(* real_time_to_disaster_backup of base e in game g: keep a backup of     *)
(* oneself, send it to the cell.                                          *)
BackedUp(e) == [e EXCEPT !.self = [gold |-> e.gold, round |-> rounds + 1]]
SendBackup(q, g, e) == Call(q, "backup", "base", g, e, BackedUp(e).self)

(* The timer of the base. *)
TimeToDisasterBackup(g) ==
    /\ Has("base", g) /\ timed < MaxRounds
    /\ ents' = [ents EXCEPT !["base"][g] = BackedUp(@)]
    /\ up' = SendBackup(up, g, ents["base"][g])
    /\ rounds' = rounds + 1 /\ timed' = timed + 1
    /\ UNCHANGED <<alive, heldVars, down, gateVars, gifts, fails, ghostVars>>

\* Variant: only the base has this timer.
LoseTouchBase(s, g) ==
    /\ Has(s, g) /\ s = "base"
    /\ ~\E h \in Games : Has(Other(s), h) /\ ents[Other(s)][h].addr = g
    /\ ents' = [ents EXCEPT ![s][g] = None]
    /\ UNCHANGED <<alive, heldVars, netVars, gateVars, rounds, boundVars, ghostVars>>

(* heart_beat_timer, 60 seconds after the last respect_from_cell or       *)
(* respect_from_base: nobody calls this half any more.                    *)
LoseTouch(s, g) ==
    /\ Has(s, g)
    /\ ~\E h \in Games : Has(Other(s), h) /\ ents[Other(s)][h].addr = g
    /\ ents' = [ents EXCEPT ![s][g] = None]
    /\ UNCHANGED <<alive, heldVars, netVars, gateVars, rounds, boundVars, ghostVars>>

-----------------------------------------------------------------------------
(* A game dies: what it holds and what is sent to it is lost, and so is,  *)
(* on each connection, the last part of what it has sent.                 *)
Die(g) ==
    /\ g \in alive \cap Mortal /\ Cardinality(Games \ alive) + fails < MaxFaults
    /\ alive' = alive \ {g}
    /\ ents' = [s \in Halves |-> [ents[s] EXCEPT ![g] = None]]
    /\ \E kept \in [Gates -> UNION {0 .. Len(up[g][k]) : k \in Gates}] :
          /\ \A k \in Gates : kept[k] <= Len(up[g][k])
          /\ up' = [up EXCEPT ![g] = [k \in Gates |-> SubSeq(@[k], 1, kept[k])]]
    /\ down' = [k \in Gates |-> [down[k] EXCEPT ![g] = <<>>]]
    /\ handled' = [handled EXCEPT ![g] = [a \in Games |-> "none"]]
    /\ again' = [again EXCEPT ![g] = {}]
    /\ UNCHANGED <<unheld, gateVars, rounds, boundVars, ghostVars>>

(* on_remote_disconnected of a gate: forget the game, unless that has     *)
(* been done, and tell all the others in any case.                        *)
OnRemoteDisconnected(k, g) ==
    /\ known' = [known EXCEPT ![k] = @ \ {g}]
    /\ down' = [down EXCEPT ![k] = [h \in Games |->
                  IF h \in alive \cap known'[k]
                  THEN Append(@[h], Rpc("disappear", "base", g, h, NoBackup))
                  ELSE @[h]]]

(* It is reported when the reading ends, after everything that came.      *)
ReadFails(k, g) ==
    /\ g \in reading[k] \ alive /\ up[g][k] = <<>>
    /\ OnRemoteDisconnected(k, g)
    /\ reading' = [reading EXCEPT ![k] = @ \ {g}]
    /\ UNCHANGED <<alive, ents, heldVars, up, rounds, boundVars, ghostVars>>

(* And by every write that fails, of whatever rpc, at any time.           *)
WriteFails(k, g) ==
    /\ g \in Games \ alive /\ Cardinality(Games \ alive) + fails < MaxFaults
    /\ OnRemoteDisconnected(k, g)
    /\ fails' = fails + 1
    /\ UNCHANGED <<alive, ents, heldVars, up, reading, rounds, gifts, timed, ghostVars>>

\* Variant: the game of the half that is left may be chosen as well.
RandRemote(k, a) == known[k]

\* get_rand_remote_exclude: any game but a, and a if there is no other.
RandRemoteExclude(k, a) ==
    IF Cardinality(known[k]) = 1 THEN known[k] ELSE known[k] \ {a}

(* Where a gate passes an rpc on to: the game addressed; to recover, any  *)
(* but the one of the half that asks.                                     *)
Targets(k, m) ==
    IF m.kind = "recover" THEN RandRemoteExclude(k, m.from) ELSE known[k] \cap {m.addr}

(* A gate relays the next rpc of game g.  It drops it if there is no such *)
(* game, and a connection to a game that has died loses it.               *)
Relay(k, g) ==
    /\ up[g][k] # <<>>
    /\ LET m == Head(up[g][k])
       IN  \/ /\ Targets(k, m) \cap alive # {}
              /\ \E h \in Targets(k, m) \cap alive :
                    down' = [down EXCEPT ![k][h] = Append(@, m)]
           \/ /\ Targets(k, m) = {} \/ Targets(k, m) \ alive # {}
              /\ UNCHANGED down
    /\ up' = [up EXCEPT ![g][k] = Tail(@)]
    /\ UNCHANGED <<alive, ents, heldVars, gateVars, rounds, boundVars, ghostVars>>

-----------------------------------------------------------------------------
(* A game executes the next rpc m it has received from a gate. *)

\* An rpc for an entity that is not there is dropped.
Dropped(g, m) ==
    /\ m.kind \in {"gift", "backup", "recovered"} /\ ~ents[m.half][g].exists
    /\ UNCHANGED <<ents, heldVars, up, rounds, ghostVars>>

ExecGift(g, m) ==
    /\ m.kind = "gift" /\ Has(m.half, g)
    /\ ents' = [ents EXCEPT ![m.half][g].gold = @ + 1]
    /\ UNCHANGED <<heldVars, up, rounds, ghostVars>>

(* Keep the base's backup, make one's own, send it to the base. *)
CellDisasterBackup(g, m) ==
    /\ m.kind = "backup" /\ m.half = "cell" /\ Has("cell", g)
    /\ LET self == [gold |-> ents["cell"][g].gold, round |-> m.bk.round]
       IN  /\ ents' = [ents EXCEPT !["cell"][g].self = self,
                                   !["cell"][g].other = m.bk]
           /\ up' = Call(up, "backup", "cell", g, ents["cell"][g], self)
    /\ UNCHANGED <<heldVars, rounds, ghostVars>>

BaseDisasterBackup(g, m) ==
    /\ m.kind = "backup" /\ m.half = "base" /\ Has("base", g)
    /\ ents' = [ents EXCEPT !["base"][g].other = m.bk]
    /\ UNCHANGED <<heldVars, up, rounds, ghostVars>>

\* Variant: it is not looked whether there is a backup.
ToRecoverUnbacked(g, dead) == {s \in Halves :
    Has(s, g) /\ ents[s][g].addr = dead}

\* The halves in game g that have lost the other one and have a backup.
ToRecover(g, dead) == {s \in Halves :
    Has(s, g) /\ ents[s][g].addr = dead /\ ents[s][g].other # NoBackup}

\* Variant: next_disaster_times is not consulted.
NeverHandled(g, m) == FALSE

\* next_disaster_times: the deadline of that address is still ahead.
Handled(g, m) == handled[g][m.addr] = "ahead"

(* on_game_disappear: unless the table holds it back, each half that has  *)
(* lost the other asks a random gate to have it rebuilt.  The insert does *)
(* not replace a deadline that has passed, so that from then on every     *)
(* report is dealt with.                                                  *)
OnGameDisappear(g, m) ==
    /\ m.kind = "disappear"
    /\ \/ /\ Handled(g, m)
          /\ UNCHANGED <<heldVars, up>>
       \/ /\ ~Handled(g, m)
          /\ handled' = [handled EXCEPT ![g][m.addr] =
                            IF @ = "none" THEN "ahead" ELSE @]
          /\ IF handled[g][m.addr] = "passed" /\ ToRecover(g, m.addr) # {}
             THEN /\ again' = [again EXCEPT ![g] = @ \cup {m.addr}]
                  /\ unheld' = (unheld \/ m.addr \in again[g])
             ELSE UNCHANGED <<again, unheld>>
          /\ \E k \in [Halves -> Gates] :
                up' = [up EXCEPT ![g] = [j \in Gates |->
                   @[j] \o
                   (IF "base" \in ToRecover(g, m.addr) /\ k["base"] = j
                    THEN <<Rpc("recover", "cell", g, g, ents["base"][g].other)>>
                    ELSE <<>>) \o
                   (IF "cell" \in ToRecover(g, m.addr) /\ k["cell"] = j
                    THEN <<Rpc("recover", "base", g, g, ents["cell"][g].other)>>
                    ELSE <<>>)]]
    /\ UNCHANGED <<ents, rounds, ghostVars>>

(* cell_recover_by_disaster_backup: build the cell, tell the base. *)
RecoverCell(g, m) ==
    /\ m.kind = "recover" /\ m.half = "cell"
    /\ LET e == Entity(g, m.from, m.bk.gold)
       IN  /\ ents' = [ents EXCEPT !["cell"][g] = e]
           /\ up' = Call(up, "recovered", "cell", g, e, m.bk)
    /\ late' = IF late THEN TRUE ELSE Residue
    /\ UNCHANGED <<heldVars, rounds, uneven>>

(* base_recover_by_disaster_backup: build the base, tell the cell, make a *)
(* new backup.                                                            *)
RecoverBase(g, m) ==
    /\ m.kind = "recover" /\ m.half = "base"
    /\ LET e == Entity(g, m.from, m.bk.gold)
       IN  /\ ents' = [ents EXCEPT !["base"][g] = BackedUp(e)]
           /\ up' = SendBackup(Call(up, "recovered", "base", g, e, m.bk), g, e)
    /\ rounds' = rounds + 1
    /\ late' = IF late THEN TRUE ELSE Residue
    /\ UNCHANGED <<heldVars, uneven>>

\* Variant: the half that is left keeps what it has.
NotRolledBack(e, from) == [e EXCEPT !.addr = from]

(* sync recover self: the half that is left goes back to its own backup. *)
RolledBack(e, from) == [e EXCEPT !.addr = from, !.gold = e.self.gold]

(* cell_recover_by_disaster_backup_success: the base rolls itself back    *)
(* and makes a new backup.                                                *)
CellRecovered(g, m) ==
    /\ m.kind = "recovered" /\ m.half = "base" /\ Has("base", g)
    /\ LET e == RolledBack(ents["base"][g], m.from)
       IN  /\ ents' = [ents EXCEPT !["base"][g] = BackedUp(e)]
           /\ up' = SendBackup(up, g, e)
           /\ uneven' = (uneven \/ e.self.round # m.bk.round)
    /\ rounds' = rounds + 1
    /\ late' = IF late THEN TRUE ELSE Residue
    /\ UNCHANGED heldVars

(* base_recover_by_disaster_backup_success: the cell rolls itself back. *)
BaseRecovered(g, m) ==
    /\ m.kind = "recovered" /\ m.half = "cell" /\ Has("cell", g)
    /\ ents' = [ents EXCEPT !["cell"][g] = RolledBack(@, m.from)]
    /\ uneven' = (uneven \/ ents["cell"][g].self.round # m.bk.round)
    /\ late' = IF late THEN TRUE ELSE Residue
    /\ UNCHANGED <<heldVars, up, rounds>>

Exec(g) ==
    \E k \in Gates :
       /\ g \in alive /\ down[k][g] # <<>>
       /\ LET m == Head(down[k][g])
          IN  \/ Dropped(g, m) \/ ExecGift(g, m) \/ OnGameDisappear(g, m)
              \/ CellDisasterBackup(g, m) \/ BaseDisasterBackup(g, m)
              \/ RecoverCell(g, m) \/ RecoverBase(g, m)
              \/ CellRecovered(g, m) \/ BaseRecovered(g, m)
       /\ down' = [down EXCEPT ![k][g] = Tail(@)]
       /\ UNCHANGED <<alive, gateVars, boundVars>>

(* Game g has dealt with the death of a 20 seconds ago: the deadline      *)
(* passes, if it was the first time.  No recovery takes that long.        *)
WindowEnds(g, a) ==
    /\ handled[g][a] = "ahead" \/ a \in again[g]
    /\ \A m \in UnderWay : m.kind \notin {"recover", "recovered"}
    /\ handled' = [handled EXCEPT ![g][a] = "passed"]
    /\ again' = [again EXCEPT ![g] = @ \ {a}]
    /\ UNCHANGED <<alive, ents, unheld, netVars, gateVars, rounds, boundVars, ghostVars>>

-----------------------------------------------------------------------------
Next ==
    \/ \E g \in Games :
          \/ TimeToDisasterBackup(g) \/ Die(g) \/ Exec(g)
          \/ \E a \in Games : WindowEnds(g, a)
          \/ \E s \in Halves : Give(s, g) \/ LoseTouch(s, g)
    \/ \E k \in Gates, g \in Games : ReadFails(k, g) \/ WriteFails(k, g) \/ Relay(k, g)

Spec == Init /\ [][Next]_vars

(* Gates relay and notice broken connections, games execute what they     *)
(* receive, and the heartbeat timers fire: each does in the end, but here *)
(* it is enough that not all of them stop.                                *)
Progress ==
    \/ \E g \in Games : Exec(g) \/ \E s \in Halves : LoseTouch(s, g)
    \/ \E k \in Gates, g \in Games : ReadFails(k, g) \/ Relay(k, g)

FairSpec == Spec /\ WF_vars(Progress)

-----------------------------------------------------------------------------
Where(s) == {g \in Games : Has(s, g)}

\* The orders to rebuild half s: the queue and the position of each.
Orders(s) ==
    LET order(m) == m.kind = "recover" /\ m.half = s
    IN  UNION {{<<w, i>> : i \in {i \in DOMAIN Queue(w) : order(Queue(w)[i])}} : w \in Lanes}

(* Of each half there is one, or one is being rebuilt, although every     *)
(* gate reports a death, several times, and each at its own time: a       *)
(* second order would make a second copy, or replace the first one with   *)
(* the old backup.  The exception is what next_disaster_times lets        *)
(* through after its deadline (README.md of this directory).              *)
OneCopy ==
    unheld \/ \A s \in Halves : Cardinality(Where(s)) + Cardinality(Orders(s)) <= 1

(* As long as there are two games, base and cell are not in the same one, *)
(* whose death would take both a half and its only backup.                *)
Apart ==
    unheld \/ Cardinality(alive) = 1 \/ Where("base") \cap Where("cell") = {}

Linked ==
    \E g, h \in Games :
       /\ Where("base") = {g} /\ Where("cell") = {h}
       /\ ents["base"][g].addr = h /\ ents["cell"][h].addr = g

(* What README.md, line 547, is about: whoever takes before he gives can  *)
(* lose gold by a disaster but never has it twice, provided both halves   *)
(* go back to the same round and nothing of the lost half arrives later.  *)
NoDuplicate ==
    LET arrived == \A m \in UnderWay : m.kind \in {"disappear"}
        gold(s) == ents[s][CHOOSE g \in Games : Has(s, g)].gold
    IN  Linked /\ arrived /\ ~unheld /\ ~uneven /\ ~late =>
           gold("base") + gold("cell") <= 2 * Gold

(* However the games die, in the end the two halves have found each other *)
(* or neither is left: no half lives on alone.                            *)
NoOrphan == <>[](Linked \/ Where("base") \cup Where("cell") = {})
=============================================================================
