# A TLA+ model of yjengine

yjengine is a distributed game server in C++: *game* processes run entities,
*gate* processes relay every rpc between games and clients, and an entity is
split into a *base* (fixed to one game), a *cell* (moves from game to game) and
a *client*. These modules model the protocols and the concurrency that make it
work. Paths are relative to `src/server/`; line numbers are those of
`PROJECT.json`, whose `map` names the lines behind every definition.

Contents: [inventory](#inventory) · [modules](#modules) ·
[runs](#runs-bounds-and-what-they-show) · [disagreements](#where-code-and-documentation-disagree) ·
[fairness](#fairness) · [proofs](#proofs) · [limits](#what-is-only-model-checked-and-what-is-left-out) ·
[not modelled](#not-modelled)

## Inventory

### How the parts interact

    gameplay -> entity -> mailbox -> rpc manager -> Session/Remote queue -> socket
                                                                               |
    entity <- main thread (rpc queue) <- network thread (decode) <- framing <--+

Every process has one **main thread** (entities, timers, execution of rpcs),
one **network thread per core** (they share one `io_context`: reading,
framing, decoding, encoding, writing) and one **assist thread** (the log). A
gate holds a Remote per game and a Session per client, a game a Session per
gate. Games never talk to each other directly.

### Components

| component | code | state | operations | hard behaviour | what makes it correct | module |
|---|---|---|---|---|---|---|
| sending half of a connection | `engine/boost_asio.*`, `remote_manager.*` | `m_remote_rpc_queue`, `in_async_write`, handlers in the `io_context` | `remote_rpc_call`, `async_write_one_ele`, `on_write`, `close` | any thread calls, any network thread writes, the connection breaks | one chain of writes; nothing lost, doubled or overtaken; frames intact; queue released after a failure | **SendQueue** |
| receiving half | `boost_asio.cpp`, `rpc_manager.cpp` | `m_buffer_cache`, `m_cache_idx` | `on_read`, `rpc_imp_generate` | frames split and joined at any byte, 16-bit index, many connections on one queue | every frame decoded once, at once and in order, whatever the split; the index never wraps | **RecvStream** |
| session registry, gate table | `boost_asio.cpp` | `m_sessions`, `m_sessions_turn`, `m_gates`, `m_gates_turn` | add, remove, `get_fixed_session`, `get_gate` | written by the main thread, read elsewhere without the lock | tables agree; rpcs to one address keep one route | no |
| remote registry | `remote_manager.cpp` | `m_remotes`, `m_remotes_turn` | connect, add, remove, random choice | removal races use | as above | in **DisasterBackup**: loss of a remote, random choice |
| rpc manager | `rpc_manager.*` | `m_rpc_imp_queue` | decode, push (network), `rpc_imp_input_tick` (main) | decoded against the tables of one moment, executed at another | what is executed was decoded for the entity that executes it | the queue in **RecvStream**, the decoding in **CellMigration** |
| rpc-name tables | `rpc_manager.cpp`, `game_rpc.cpp`, `gate_rpc.cpp` | `all_rpc_names_l2s`, `_s2l` | exchange between game, gate and client | a game, a gate and a client start in any order | both ends give a name the same number | no |
| mailbox | `mailbox.*` | address, cached route, `is_rpc_cache`, cached rpcs | call, start, flush and clear the cache | address changes under the calls | order kept across a migration | in **CellMigration** |
| cell migration | `entity.cpp`, `migrate_rpc.cpp` (game, gate) | `migrate_state`, the acknowledgement flags, `migrate_check_timer_id` | request, acknowledge, send, create, notify, roll back | three to five processes, two gates, a 10 s timer | one cell in charge; owners cannot tell it moved; it ends | **CellMigration** |
| gate relay | `gate/framework/*.cpp` | none but its connections | one relay per rpc | different gates, different speeds | relays in order per connection | in **CellMigration**, **DisasterBackup**, **EntityLife** |
| creation, destruction | `entity.cpp`, `game_rpc.cpp`, `client_rpc.cpp` | `is_ready`, `need_destroy`, `ready_check_timerid` | `create_entity`, `create_cell`, `on_cell_create`, `ready`, `destroy_self` | halves wait for each other; 10 s timer; random game per creation | the six stages in order; all halves ready or all destroyed; one base per uuid | **EntityLife** |
| entity tables | `entity.cpp` | `g_base_entities`, `g_cell_entities` and their thread-safe copies | create, destroy, look up | looked up by network threads while the main thread deletes | no use of a deleted entity | in **CellMigration**, in part |
| entity heartbeat | `entity.cpp` | last respective heartbeats | 45 s send, 60 s check | migration and reconnection meanwhile | no half outlives the others for ever; none dies while all are alive | the first in **EntityLife**, **DisasterBackup** |
| disaster backup | `entity.cpp`, `game_rpc.cpp`, `gate_instance.cpp` | backups each half keeps of the other, `next_disaster_times` | backup, `on_game_disappear`, recover | every gate reports a death, at different times | the lost half is rebuilt once, not beside the other; nothing is had twice | **DisasterBackup** |
| reconnection | `entity.cpp`, `client_rpc.cpp` | client address | `on_reconnect_fromclient`, `on_client_reconnect_success` | old connection's end arrives late | base and cell have the newest client, the old one is told | **EntityLife** |
| timers | `timer.*`, `entity.cpp` | `timers`, `timer_ids` | add, cancel, `timer_tick` | callbacks change the set being iterated | each timer fires when due, never after cancel | no; single timers as actions |
| properties | `entity_property_manager.*`, `entity.cpp`, `aoi_component.cpp` | values, dirty flags per level, `dirty_propertys` | update, insert, erase, serialise (delta, all) | one flag, several receivers and levels | a receiver that applies the deltas has the sender's state | **PropertyMap** (maps of simple values) |
| stubs, notices | `game_instance.cpp`, `stub_base.cpp`, `distributed_notify.*` | `g_stub_proxys` | create after 1 s, broadcast | games connect at different times | every game knows every stub | no |
| events | `event.*` | subscribers | regist, notify | – (synchronous) | – | no |
| connection heartbeat | `gate_instance.cpp`, `game_instance.cpp` | last active, next heartbeat time | `heart_beat_tick` | – | – | no: nothing calls it |
| encoding, GValue, log, ini, Lua, gameplay, vendored code | | | | | | no: pure data, I/O, examples or third-party |

### Hazards

`PROJECT.json` lists, at its line, each thing in this code that a test would
hardly reach, with the properties that would catch it. Those without a
property say why.

## Modules

### RpcChannel – what a connection promises

The abstract specification of anything that carries rpcs: `accepted` and
`delivered` are sequences, `delivered` a prefix of `accepted`; `Accept`
appends to the one, `Deliver` moves the other one on by one, `Fail` takes the
channel down once. `FairSpec` adds that a channel which stays up delivers
everything. SendQueue, RecvStream and CellMigration are shown to implement it.

### SendQueue – one connection, many threads

| code | model |
|---|---|
| `remote_rpc_call` (`boost_asio.h:36`) | `RemoteRpcCall(c)`: one critical section |
| a network thread in `g_io_context.run()` | `TakeHandler(t)`; for a completed write with an error this includes `on_write` |
| critical section of `async_write_one_ele` (`boost_asio.h:52-62`) | `PopOne(t)` |
| `encode`, `boost::asio::async_write` | `StartWrite(t)` |
| return of `async_write_one_ele`, which destroys the local `Encoder` | `FreeEncoder(t)` |
| the operating system takes or refuses a frame | `SocketTakes`, `SocketRefuses` |
| peer, network or main thread ends the connection; `on_read` fails | `Break`, `ReadFails` |

`pc[t]` is where a network thread is in `async_write_one_ele`, so that the two
halves of the function – before and after the unlock – interleave with
everything else. `accepted`, `wire`, `lost` and `garbled` are history
variables. `Remote` has the same code but for one line: its `on_write` does
not close the socket; in the model the socket is already `down` when a write
fails, so that closing changes nothing.

### RecvStream – from the socket to the main thread

| code | model |
|---|---|
| the peer's `Encoder` with `OFFSET_CHECK` | `Encode`, `PeerSends` |
| completion of `async_read_some`; append to `m_buffer_cache` | `OnRead(c)` |
| one turn of the loop in `rpc_imp_generate`: length, `READ_PRE_CHECK`, decode, `imp_queue_push` | `Generate(c)` with `PkgLens`, `HasHead`, `WholeFrame` |
| end of the loop, `memmove` of the rest, `do_read` | `EndGenerate(c)` with `Shift` |
| `on_read` and `on_write` with an error | `ReadFails(c)`, `WriteFails(c)` |
| one turn of `rpc_imp_input_tick` | `Exec` with `Pop` |

A byte is its position in the stream of its connection. That is enough to say
which frame a byte of the cache belongs to, hence what the length field at the
front of the cache says; if the decoder ever lost its place the length would
be any number, and `PkgLens` says so. `m_cache_idx` is a `short` (`Short`,
`UInt16` are the conversions of the code); an index that goes beyond the cache
or below zero leads to `overrun`, where anything could happen, and `Fits` says
that it is never reached. `Remote::on_read` is the same function.

### CellMigration – the entity that moves

| code | model |
|---|---|
| `g_cell_entities` of each game, the migration state of a cell | `cells[g]` |
| the cell mailbox of base and client | `mb[s]` |
| connections to gates, from gates, decoded rpcs of a process | `up`, `down`, `imp` |
| a gate relays; a network thread decodes | `Forward`, `Arrive` |
| `call_cell_entity` without a cell, with an undecoded rpc | `NoSuchCell`, `NullRpc` |
| `begin_migrate` | `BeginMigrate` |
| `migrate_req_from_cell` (base, client) | `MigrateReqFromCell` |
| `migrate_reqack_from_base`/`_client`, `real_begin_migrate` | `MigrateReqack` |
| `entity_property_migrate_from_oldcell`, `on_migrate_in` | `MigrateFromOldCell` |
| `new_cell_migrate_in`, `stop_cache_rpc` | `NewCellMigrateIn` |
| `on_new_cell_migrate_finish`, `entity_tick` | `NewCellMigrateFinish`, `DestroyCell` |
| `migrate_check_timer`, `migrate_failed_rollback` | `MigrateCheckTimer` |
| gameplay rpcs | `CallCell`, `ExecCall` |

Three facts of the code shape the model. (1) A mailbox that has chosen a gate
keeps it when its address changes, a fresh mailbox chooses by hash of the
address and the packet takes any gate: so routes differ and rpcs of one
migration overtake each other (`Fixed`, `SendRpc`, `NewMailBoxCall`). (2) The
inner rpc of a `call_cell_entity` is decoded by the network thread with the
tables of that moment (`decoded`). (3) Timers fire before marked entities are
removed, within one tick (`MigrateCheckTimer` with `dying`).

The rpcs an entity has executed (`applied`) travel in the packet and stand for
all its properties; what a cell keeps running (`own`: timers, events) is
tracked because a rollback restores only part of it.

### EntityLife – creation, destruction, reconnection

| code | model |
|---|---|
| `g_base_entities[uuid]`, `g_cell_entities[uuid]` of game g, the client's entity | `base[g]`, `cell[g]`, `client[c]` |
| `create_entity`: from the database, reconnection, or ignored | `CreateBase`, `Reconnect`, `NotYet` |
| `create_cell_entity`, `on_create` | `CreateCell` |
| `on_cell_create`, `create_client` | `OnCellCreate` |
| `ready` of base, cell, client | `BaseReady`, `CellReady`, `CallClient` |
| `create_client_entity`, `..._onreconnect` | `CreateClient` |
| `on_reconnect_fromclient`, `on_client_reconnect_success` | `OnReconnectFromClient`, `OnClientReconnectSuccess`, `CellReady` |
| `ready_check_timer` | `BaseReadyCheck`, `CellReadyCheck`, `ClientReadyCheck` |
| `heart_beat_timer` | `LoseTouch` |
| `entity_tick`'s removal of what `destroy_self` marked | `Tick`, `ClientTick` |

One entity of the type BaseWithCellAndClient, one uuid. `net` has one queue
per ordered pair of processes: all rpcs from one process to another pass the
one gate their address fixes, in order, and gates only relay. `create_entity`
and `create_cell_entity` go through random ones and are a set (`orders`).
Timers have no clock: a ready check may fire from the creation on, as 10 s may
pass between any two steps, and a heartbeat once there is nobody left who
would send one. `lives`, `log`, `kicked`, `missed` and `crossed` are history
variables: `kicked` are the clients that executed `on_kick`, `missed` those whose
`on_kick` came when they had no entity, and was dropped.
`crossed` notes that an rpc sent to an entity of one life has been executed by
the entity of the next one; where that happens the order of the stages can be
anything (an old `ready` makes a new base ready before it has a cell, against
the comment at `entity.cpp:692`), and `InStages` and `Handover` are about all
other behaviours; `NoHalf` is about every one.

### DisasterBackup – a game dies

| code | model |
|---|---|
| a base or cell, the backup of itself and of the other half | `ents[s][g]` with `self`, `other` |
| its mailbox of the other half, with `m_session_cache` | `addr`, `gate` of `ents[s][g]`; `Call` |
| `next_disaster_times` of a game | `handled[g]` |
| `real_time_to_disaster_backup`, its timer | `SendBackup`, `TimeToDisasterBackup` |
| `cell_disaster_backup`, `base_disaster_backup` | `CellDisasterBackup`, `BaseDisasterBackup` |
| a gate's `on_remote_disconnected`, posted by a failed read or write | `OnRemoteDisconnected(k, g)` in `ReadFails`, `WriteFails` |
| `on_game_disappear` of the game and of its entities | `OnGameDisappear`, `Handled`, `ToRecover` |
| a gate's relay, to recover with `get_rand_remote_exclude` | `Relay(k, g)`, `Targets`, `RandRemoteExclude` |
| `base_/cell_recover_by_disaster_backup` | `RecoverBase`, `RecoverCell` |
| `..._recover_by_disaster_backup_success` | `CellRecovered`, `BaseRecovered` with `RolledBack` |
| the deadline of 20 s, the minute without heartbeat | `WindowEnds`, `LoseTouch` |
| a game's end; a gift between the halves (gameplay) | `Die`, `Give` (external) |

All properties of an entity are one amount of gold, which base and cell give
to each other as README.md:547 of the repository asks: first take, then give.
`Die` loses what the game holds, all that is under way to it, and on each of
its connections any last part of what it has sent. A gate learns of it in two
ways (`remote_manager.cpp:70`, `:136`): the read fails, once, after everything
that came; and every write that is still queued fails, whenever it is tried. Each
time the gate forgets the game, if it had not, and broadcasts
`on_game_disappear` in any case (`gate_rpc.cpp:25-29`). A connection between two
processes that run does not break.

A mailbox keeps the gate of its first address when the address changes
(`m_session_cache`), so that the calls between two halves do not change their
way; the order to rebuild a half goes to a random gate, and to a random game but
the one that asks – or to that one if the gate knows no other
(`remote_manager.cpp:218`).

Backups carry the number of their round, which the code does not have:
`uneven` remembers that a half was
rolled back to another round than the one its counterpart was rebuilt from,
`late` that rpcs of the dead game were still under way then. Both happen, and
then gold can be had twice: README.md:544-545 asks that both backups be updated
together and rolled back together, and line 547 admits that they are not
strictly synchronised. `unheld` remembers a flaw of the table, met
[below](#where-code-and-documentation-disagree): that a game has sent an order
for a death past the deadline it keeps (`again`) and, within 20 s, another one.
`OneCopy`, `Apart` and `NoDuplicate` say that these are the only ways: one copy
of each half, and two games for them, unless `unheld`; no gold twice unless
`unheld`, `uneven` or `late`.

### Replica – what synchronisation promises

The abstract specification of a property at its receiver: the `copy` changes
only into the whole current `value`, never into a mixture of old and new, and
gets there (`FairSpec`).

### PropertyMap – a map property, its client and an observer

| code | model |
|---|---|
| bits 0x80 and 0x40 of a map's flag, of its values; `dirty_propertys` | `dirty`, `all_dirty`, `dirtyValues`, `listed` |
| `set_dirty`, `set_all_dirty` with their early returns | `SetDirty`, `SetAllDirty` |
| `insert`, `update`, `GET(k).update`, `erase`, `clear` | `Insert`, `Update`, `UpdateValue`, `Erase`, `Clear` |
| `serialize`, then `unserialize` at the receiver | `Delta`, `Patch`; what the serialisation clears: `CleanDirty` |
| a frame: rpcs, then `entity_tick`, in which the observer may come before or after the owner | `phase`, `RpcsDone`, `AoiTick`, `SyncToClient`, `TimersDone`; `observerFirst` |
| `AoiComponent::on_other_enter_aoi`, `on_other_leave_aoi` | `EnterAoi`, `LeaveAoi` |
| `on_client_reconnect_success` | `ClientReconnectSuccess`; `overtaken` remembers it until the observer next gets the whole map |

The order of two entities in the hash table is fixed for a behaviour. A change
happens in an rpc or a timer of the owner; that `component->tick()`
of the owner's own components changes nothing is an assumption about gameplay
code. The entity is ready (before that it does not synchronise), and its
property is of a kind that other clients see (`ALL_CLIENT`). Bytes travel on
an `RpcChannel`, so the receivers' copies are what they hold once everything
sent has arrived.

### MC modules

`MC_SendQueue` names callers and threads, `MC_CellMigration` places base and
client and gives two routings: one gate for everything, and two gates chosen
by the address called. `MC_PropertyMap` names two keys and two values,
`MC_RecvStream` two connections and small limits in the proportion of the real
ones, `MC_DisasterBackup` three games and two gates, `MC_EntityLife` three
games.

## Runs, bounds and what they show

| run | instance | states | shows |
|---|---|---|---|
| send_channel | 2 callers × 2 calls, 3 network threads, fair | 463 545 | `OneChain`: one chain drives the connection and exists while anything is queued; `Fifo`: order kept, nothing lost while up; refines `RpcChannel` with liveness; `ChainEnds`; `DisconnectReported` |
| send_buffer | 1 caller, 2 threads | violation | `WireIntact`: a frame outlives its buffer |
| migration_safety | 3 games, 1 gate, base and client, 2 calls each, 2 migrations | 555 793 | `OneAuthority`, `OwnersCache`, `MailBoxSound`, `NoNullRpc`, `FrozenUntouched` over consecutive migrations, there and back or onwards |
| migration_gates | 3 games, 2 gates, 2 calls each, 1 migration, fair | 41 698 | `OneAuthority`, `OwnersCache` when rpcs overtake one another through two gates; owners see one reliable ordered channel (refinement of `RpcChannel`); `MigrationEnds` |
| migration_rollback | 2 games, 1 gate, 2 and 1 calls, 1 timeout, fair | 330 482 | `NoRepeat`: whatever cells a rollback leaves, none executed an rpc twice or out of order; `CachesDrain`: no owner caches for ever |
| migration_race | the smallest instance it needs | violation | see below |
| map_sync | 2 keys, 2 values, fair | 91 296 | `FlagsReachEntity`, `ClientCovered`, `ObserverCovered`; refines `Replica` with liveness; `ObserverCatchesUp` |
| map_order | the same | violation | see below |
| recv_stream | 2 connections, fair; limits scaled down | 79 586 | `Fits`, `Prompt`, `InOrder`; a connection refines `RpcChannel` with liveness; `BreakReported` |
| life | 3 games, 2 clients, any of them leaving at any moment, fair | 383 966 | `InStages`: base, cell, client, then ready in that order; `Handover`: base, cell and clients agree on the owner when nothing is under way; `NoHalf` |
| life_relogin | 2 games, either of which may get `create_entity` | violation | see below |
| disaster_recover | 3 games, 2 gates, 2 deaths or 1 and a failed write, 1 timed round of backup, 1 gift, fair | 637 937 | `OneCopy`, `Apart`, `NoDuplicate`, `NoOrphan` |

Deadlock is not checked because a bounded run stops when its calls are used up.

Why the bounds are enough. *SendQueue*: two callers are what it takes to have
a call arrive between another call's push and the pop; a third thread lets one
thread free its buffer while a second is in the chain and a third takes the
next handler; two calls each make a queue of up to four, and no action looks
further than the head. The proofs below remove the bounds. *CellMigration*:
with one migration one can see all of the handshake, with two a migration
that starts from the results of an earlier one, back to the first game or on
to a third; two calls per owner make order visible, one before and one after
each step of the handshake. `MaxTimeouts = 0` means that every migration is
completed within its 10 s, which is what the safety runs are about; the
rollback and race runs let the timer fire at any moment. Two gates and two
migrations together break `OneAuthority` (see the next section), so that the
gates run has one. *PropertyMap* has no bound
but its keys and values: any number of changes and frames. One key can be
erased and inserted again while another is dirty; the proofs remove both.
*RecvStream*: frames of 4 bytes and reads of 1 to 5, so that a length field, a
frame and several frames are cut in every way; frames of different lengths, and
longer than a read, are left to the proofs, which
remove all bounds and use of the limits only what `CacheAssumption` says, which
8191 + 16384 <= 32767 <= 102400 satisfies. *EntityLife*: two clients make the
cases of one login, of a second one before, during and after the first, and of
a second life after the first has been destroyed; the third game lets the cell
of the second life be elsewhere; the proofs remove these bounds for `TypeOK`
and `InStages`. *DisasterBackup*: with three games a lost half
has one place to go, and after a second death – of base's game, cell's game, in
either order, in the middle of the first recovery or after it – both halves can
be in the one game that is left. `MaxFaults` allows a failed write instead of the
second death: two gates and a repeated report are what it takes for the table to
let a second order through. One timed round beside those that recoveries make
lets a death fall between any two steps of it. The proofs remove all of these
bounds but for `NoOrphan`.

## Where code and documentation disagree

Each is a run that TLC ends with a counterexample.

* **send_buffer** – `async_write_one_ele` gives `async_write` a buffer inside
  a local `Encoder` and returns. The frame on the wire need not be the rpc.
* **migration_race** – the rollback tells the new cell to destroy itself, the
  new cell the old one. If the timer fires while the packet is under way both
  obey, and the entity has no cell.
* **map_order** – `Entity::tick` lets components tick before
  `propertys_sync2client` so that other clients are served before the flags
  are cleared (its comment says so), but the component that serves them belongs
  to another entity, whose tick may come later in the same loop. What the
  owner's rpcs changed then never reaches the observer's client.
  (`ObserverCovered` is what remains true.) The full synchronisation of a
  reconnected client clears the flags in the same way, in the rpc part of the
  frame, before any observer has ticked.

* **life_relogin** – a gate sends `create_entity` to a random game. If a second
  login of the same uuid comes to another game than the one that has its base,
  a second base is loaded from the database and the old client, which README.md:550
  says is told to go, stays: two live copies of one avatar. (`life` runs with one
  game that gets all logins, `Loads`, and there `Handover` holds.)

Met while modelling, without a run of their own:

* The notice of a rollback can be decoded before the new cell exists, leaving
  `rpc_imp` null, and executed after it has been created: `call_cell_entity`
  (`game_rpc.cpp:222`) checks only the entity. `NullRpc` is that step;
  `NoNullRpc` holds without timeouts and fails with one.
* `is_reqack_from_base`/`_client` survive a rollback and acknowledgements have
  no number: a late one counts for the next migration, which then serialises
  the cell before all owners cache. `OwnersCache` fails with one timeout and
  two migrations.
* With two gates a cell that migrates back at once can be there before the
  notice of the first migration (`migrate_rpc.cpp:20`), which then destroys it:
  `OneAuthority` fails with two gates and two migrations.
* With three clients a kick can be lost. The base kicks the client it has
  (`entity.cpp:709`), the cell has that client's entity created, and the two
  rpcs come from different games: if the kick is there first,
  `call_client_entity` (`client_rpc.cpp:103`) finds no entity and drops it, and
  the entity that is created next stays, though README.md:550 says that the old
  client is told to go. `missed` records such kicks, and `Handover` says what
  is left: whoever has the entity and does not own it was sent the kick. It
  does not say that such a client is never told `ready`: with three clients it
  is not, but with four TLC finds a behaviour in which it is (the base relays
  the second client's `on_client_reconnect_success` to the cell after the third
  client's reconnection and before the fourth's: the cell answers the owner it
  has then, the third, whose kick may have been lost already).
* `on_client_reconnect_success` (`entity.cpp:720`) says that a client that
  breaks in mid-login goes through `ready` again when it is back;
  `create_entity` (`game_rpc.cpp:147`) ignores it while the base is not ready.
* A half of an entity can be rebuilt twice after one death. The table
  `next_disaster_times` is filled with `insert` (`game_rpc.cpp:237`), which
  leaves a deadline that has passed as it is, so that from then on every report
  of that death is dealt with; the comment at line 233 says that the table is
  there against repeated handling ("避免重复处理"). Two gates and one death are enough,
  and TLC finds it in 12 steps (`unheld` as an invariant to be false): the order
  that follows the first gate's report is lost, because the gate it goes to does
  not know of the death yet and picks the dead game; the 20 s pass; the second
  gate reports the death when a write fails and again when the read does, and
  the half asks for its counterpart each time. Three gates do it without a
  failed write.
* With one game left, `get_rand_remote_exclude` (`remote_manager.cpp:218`) has the
  lost half rebuilt beside the other one (`Apart` without its second disjunct is
  violated). Nothing moves them apart when another game joins.
* `create_client_entity_onreconnect` (`client_rpc.cpp:90`) looks the entity up
  among the cells, so that a client always gets a new one, without timers.

## Fairness

*SendQueue.* Each network thread finishes a handler it has begun; *some*
thread takes the next handler (no single thread is promised one: asio does not
promise it); the reactor completes every write and pending read, with success
or an error. Callers need never call, connections need never break.

*CellMigration.* Gates relay and connections deliver (the liveness of
`RpcChannel`, established by send_channel for connections that stay up): it is
enough that not all of them stop, `WF_vars(Transport)`. Each process's main
loop empties its rpc queue and removes marked entities. There is no fairness
on `BeginMigrate`, `CallCell` or `MigrateCheckTimer`: no property holds
because a player moves or a timer is late.

*RecvStream.* Each connection on which there is something to read is read in
the end, `on_read` finishes, and the main thread keeps ticking. Nothing obliges
peers to send or connections to break.

*EntityLife*, *DisasterBackup*: one weak fairness condition on all steps of
games, gates and timers together (`Progress`). It is weaker than fairness of
each, which the threads' loops give; as the rpcs under way and the lives are
finite it is enough, and TLC checks one condition in a fraction of the time.
In *EntityLife* its subscript leaves out the history variables. Nothing obliges
a client to come or to go, a game to die, a write to fail or a backup to be made.

*PropertyMap.* The main thread's frames go on (`Frame`); nothing is promised
of changes, observers or reconnections.

## Proofs

`SendQueue_proofs` proves for every set of callers, every set of network
threads and every `MaxCalls \in Nat` (assumption `MaxCallsAssumption`, the
only one):

* `TypeCorrect`: `Spec => []TypeOK`. Its third conjunct (a thread about to send
  holds an rpc, never the null an empty queue pops) makes it inductive.
* `SingleChain`: `Spec => []OneChain`. The invariant counts the places where
  the permission to write can be – a posted handler, a thread in the chain, a
  write outstanding – and says there is at most one, and exactly one when
  `in_async_write`. It is inductive together with `TypeOK`. Without the
  equivalence with `in_async_write`, a call could post a second chain; without
  the last conjunct a wakeup could be lost.
* `Ordered`: `Spec => []Fifo`. `accepted` is the concatenation of what the
  socket took, refused, is writing (or a thread holds) and what is queued. The
  step lemma `FifoStep` needs `OneChain`: with two chains the rpc held by a
  thread has no place in that concatenation. `FifoStep` rests on
  `AppendToConcat` and `ShiftHead`, associativity facts about sequences.
* `Implements`: `Spec => ChannelSpec`, the safety part of the refinement: each
  action is `Accept`, `Deliver`, `Fail` or a stutter of `RpcChannel`; that the
  delivered rpc is the next accepted one is `Fifo` and `NextOfConcat`.

`PropertyMap_proofs` proves for every set of keys and of values (assumption
`AbsentAssumption`: no value stands for "none"):

* `TypeCorrect`: `Spec => []TypeOK`.
* `FlagsAgree` and `NothingForgotten`: `FlagsReachEntity` and `ClientCovered`,
  from their conjunction with `TypeOK`, which is inductive. Neither is
  alone: that a change leaves its mark (`ChangeMarks`) needs that the map is
  dirty whenever one of its values is – else `UpdateValue` of a dirty value
  would go unnoticed – and a listed map is what lets the delta be sent.
* `Implements`: `Spec => ClientReplica`. The core is `DeltaIsMap`: a delta
  applied to any covered copy gives the map, whichever of the three forms
  (nothing, whole, patch) is sent.
* `ObserverSeesAll`: `Spec => []ObserverCovered`, that is, where the observer
  ticks first and no reconnection intervenes. `ObserverInv` says that the flags cover what the
  observer lacks and that, between its tick and the owner's, it lacks nothing.

`RecvStream_proofs` proves for every set of connections, every set of frame
lengths and all limits that satisfy `SizesAssumption` and `CacheAssumption`:

* `StreamFramed`: the inductive invariant `StreamInv`. The cache holds the
  bytes from the end of the last decoded frame to the last byte read (`Run`),
  `m_cache_idx` is their number, and `ret` stands at the end of a frame. From
  it follow `TypeCorrect`, `CacheFits` (less than one frame is left over, so
  with one more read the `short` does not wrap) and `DecodedPromptly`. The core
  is `NextFrame`: if the decoder stands at the end of a frame, the length it
  reads is that of the next one.
* `QueueInOrder`: `Spec => []InOrder`, with one lemma for a push of the own
  connection, one for a push of another, one for the pop of the head.
* `Implements`: each connection implements `RpcChannel`'s safety part.

`EntityLife_proofs` proves for every set of games, every number of clients and
every set of games that may load the entity (assumption
`ProcessesAssumption`):

* `TypeCorrect`: `Spec => []TypeOK`. `TypeInv` adds what an rpc's argument is,
  by its name (`Letters`), and that every life is due to a client whose request
  has been served (`Served`), which bounds `lives` by `MaxClients`.
* `StagesInOrder`: `Spec => []InStages`, by induction over `Inv`, which says of
  all behaviours in which nothing has crossed between lives (`StageInv`):
  - *rpcs*: an rpc under way implies how many stages its life has behind it
    (`Needs`), and one sent to or by a cell that is still there implies that
    this cell is the only one of its life (`Timely`);
  - *entities*: a life has one base and one cell at most, its base's address is
    unknown until the cell stage and then that of any cell left (`BasesInv`);
  - *order*: when a base is ready, or a reconnected client's
    `on_client_reconnect_success` is on its way to the cell, the cell has been
    told `ready`, will be by an rpc that is ahead in the same queue, or is no
    more (`Told`). This is the part that needs rpcs to keep their order, and
    without it a reconnecting client could be told ready before its cell.

  `Core` collects the three. `CoreLater`, `CoreTail` and `CoreSend` say that it
  survives progress of the log together with the loss of entities, the removal
  of the next rpc and the sending of one; each action is a composition of
  these, and only creation and `on_cell_create` need more.

* `HandedOver`: `Spec => []Handover`, by induction over `HandInv`, again as long
  as nothing has crossed between lives. `Handover` speaks of the moment when
  nothing is under way and is far from inductive: at any other moment what it
  asks for need not hold yet, and `HandInv` says which rpc under way makes up
  for it.
  - *who can have the entity*: a client has at most one token, an order to
    create its entity or the reconnection that leads to one (`TokenInv`),
    nothing before it has been served (`FreshInv`) or once it is gone
    (`ConnInv`), owns one base (`OwnersInv`) and, until the base knows its cell,
    has nothing either (`WaitInv`);
  - *the way of a reconnection*: what comes before the base is ready and what
    comes after exclude one another (`LateInv`, `ChainInv`); a reconnection goes
    from the base to the cell whose address it has (`PlaceInv`, `AddrInv`,
    `NewsInv`), and once the owner's entity is created or about to be, no
    reconnection is on its way any more (`SettledInv`);
  - *agreement*: the owner the base names is that of the last reconnection on
    the link to the cell, or the cell's when there is none (`AgreeInv`); an owner
    that has the entity and is not ready will be told, by one of the rpcs of
    the round through base and cell, unless the cell is gone (`ReadyInv`);
    whoever has the entity, or will have it, and is not the owner has been
    sent the kick (`KickInv`).

  Each action is one lemma for the eleven clauses of `Tidy` and one for each of
  the others. With nothing under way `AgreeInv`, `ReadyInv` and `KickInv` are the
  three clauses of `Handover`.

`LetterQueues` states once what the next proofs keep needing: facts about a
family of fifo queues through which letters pass, each queue with a stage it
stands at. `Free` (no letter of a kind is under way), `Single` (at most one),
`Ahead` (every letter of one kind is ahead of every letter of another) and
`JoinAt`/`JoinAhead` (they join in one queue only, ahead of the others) are kept,
or established, when a letter joins a queue, is removed from its head, moves to
a later stage or is lost.

`CellMigration_proofs` and `CellOrder_proofs` prove for every set of games, of
gates, of owners and every bound on calls and migrations (assumptions
`SourcesAssumption`, `PlacesAssumption`, `BoundsAssumption`, `NoCellAssumption`):

* `TypeCorrect`: `Spec => []TypeOK`, for all behaviours, timeouts included.
  `TypeInv` says of each rpc under way what its argument is.
* `OneInCharge`, `OwnersAllCache`, `MailBoxesSound`, `NoneNull`, `FrozenStays`:
  `OneAuthority`, `OwnersCache`, `MailBoxSound`, `NoNullRpc` and
  `FrozenUntouched`, under the hypothesis `Ordered`: **no migration times out,
  and there is one gate or one migration**. The two cases are the instances of
  migration_safety and migration_gates. The hypothesis cannot be dropped: with
  timeouts `OneAuthority`, `OwnersCache` and `NoNullRpc` fail, and with two gates
  *and* two migrations a packet back to an old game, which takes any gate, can overtake the word
  that the old cell is to go (see [above](#where-code-and-documentation-disagree)).
  The invariant `AuthorityInv` has, besides the shape of cells and of decoded
  rpcs (`CellsInv`, `DecodedInv`) and who can have sent what to whom (`Placed`):
  - `SeatInv`: there is one live cell and no packet or one packet and no live
    cell (`Seat`); an old cell has exactly one word to go on its way, with
    nothing for a living cell of its game ahead of it (`OldCell`); no packet
    overtakes that word, by the one gate (`NoReturn`) or as there is no second
    migration (`OneMigration`);
  - `OwnerInv`, for each owner: its rpcs are where the handshake allows
    (`Traffic`), and it calls, has been asked to cache, has acknowledged, or
    waits for the new cell (`Phase`). That its acknowledgement is the last of
    its rpcs on the old route is what makes the last acknowledgement the moment
    at which nothing more can arrive.

  Neither part is inductive alone: the cell leaves when the last
  acknowledgement arrives (`Phase` of every owner gives `OwnersCache` then), and
  an owner learns the new address only from the cell in the `Seat`.
* `NeverRepeats`: `NoRepeat`, under `Ordered`, from `Order`: for each owner there
  is a number `a` such that the live cell, or the packet, has executed exactly
  calls 1 .. a, the later ones are on their way once each and in order
  (`Sequel`), and the youngest are in the cache (`CacheOf`).
* `BaseTransparent`, `ClientTransparent`: under `Ordered` the calls of the base
  and of the client implement `RpcChannel`'s safety part, from the call to the
  execution wherever the cell is: `Accept` is a call or its entry in the cache,
  `Deliver` its execution, and all of the handshake stutters.

`DisasterBackup_proofs` proves for every set of games, every number of deaths
and of rounds of backups (assumption `PlacesAssumption`):

* `TypeCorrect`: `Spec => []TypeOK`. `TypeInv` adds that a backup which is sent,
  kept or restored from is one that a half has made.
* `RebuiltOnce` and `NeverTogether`: `OneCopy` and `Apart`, with no hypothesis
  on gates, deaths or how often they are reported. The invariant `Inv` says
  - of the reports (`ReportInv`): a game has dealt only with deaths of games that
    are dead, a gate reports no others, and every gate knows every game that runs;
  - of the halves and orders (`CoreInv`), as long as not `unheld`: a half is in
    one game, and not in the other's while there are two; there is one order to
    rebuild at most, of a half that exists nowhere (`OrderInv`); a half with an
    outdated address of the other has the news on its way (`LinkInv`), and while
    it has, nothing is being rebuilt (`WordInv`); while an order or the news of
    its success is under way, the half that is left has its deadline ahead of it,
    or is in `again`, and another order would be `unheld` (`SettledInv`).

  `SettledInv` is where the table comes in, and where it fails: the deadline
  holds back all reports of a recovery, be they late or repeated, the first time
  only. The proof also rests on what `WindowEnds` says: a recovery takes less
  than 20 s. `Apart` needs that a gate which knows one game only is in a world
  of one game (`PlacesAssumption`: the games are a finite set).
* `NeverDoubled`: `NoDuplicate`, for any number of
  gifts too. `NoDuplicate` speaks of the moment when base and cell are linked
  and only reports are under way; `DupInv` says what keeps the account until
  then, as long as nothing was `late`, `unheld` and no rollback `uneven`. `Inv` gives who
  is where and who knows it (`Sound`); on top of it `Accounts` says
  - *addresses* (`AddrAt`): a gift or backup between two living halves names them
    both, or the half that gets it has not yet heard of the rebuilt one; none is
    under way while there is an order to rebuild;
  - *one way* (`PathAt`): all that is sent to a half comes from one game by one
    gate, the one the other half's mailbox keeps, so that it arrives in the order
    it was sent;
  - *backups* (`BackAt`): a round has one backup of the base, and no backup of the
    base and one of the cell of the same round, wherever they are, have more
    than the two halves began with;
  - *gold* (`GoldAt`): a half is worth its gold or, until it has heard that the
    other was rebuilt, what the backup used for that leaves over (`Worth`). The
    two halves together with the gifts to them have no more than there was
    (`Total`), and neither have a backup of the base on its way to the cell and
    what the cell will have when it arrives, the gifts ahead of it in the queue
    (`AheadOf`) included (`Cuts`).

  `Cuts` is why a round is worth keeping: the cell makes its backup when the
  base's arrives, the gifts it got between the two had left the base before, and
  those it has sent since are in neither backup. It needs first take, then give,
  and the order of the queue. `Total` needs the rollback: without it the half that is left
  would keep what the rebuilt one has again, which is the mutant of this
  property. The gifts are counted as the places they have in the queues
  (`Places`); `InStep` and `Trails` compare the places before and after an rpc is
  sent, taken, relayed or lost.

## What is only model-checked, and what is left out

What is beyond the prover stays with TLC: every liveness property (`ENABLED`
and fairness: `ChainEnds`, `MigrationEnds`, `CachesDrain`, `NoOrphan`,
`NoHalf` and the others), and with it the fairness half of each refinement –
`ChannelFairSpec`, `ClientFairReplica`, `TransparentToBase` and
`TransparentToClient` are proved as far as their safety part goes.

One safety property is not fully proved: `NoRepeat` without timeouts only, while
migration_rollback checks it with one; and `OneAuthority` and its companions are
proved under `Ordered` only. Why, is said at each of them
above.

Left out of the modelled parts:

* *SendQueue*: `m_next_heartbeat_time` (only the uncalled `heart_beat_tick`
  reads it).
* *RecvStream*: the limit of 99 rpcs per main-thread tick (it only splits a
  tick in two); what frames say.
* *CellMigration*: argument checking of rpcs, loss of a connection or of a
  process during a migration, and the backup a base makes in
  `new_cell_migrate_in`.
* *EntityLife*: creation from nothing (`create_base_entity_new`, which differs
  in the uuid only), entities of the simpler types, migration and the loss of a
  game; a client process that asks again (`should_call_create` lets it ask once).
* *DisasterBackup*: the client's address that travels with a recovery, a
  migration under way, a connection that breaks between processes that run, and
  a game that comes back under its old address and dies again: the deadline of
  its first death is still in `next_disaster_times` then, so that no report of the
  second one would be held back.

## Not modelled

Each component with status `not_modelled` in `PROJECT.json` gives its reason.
In short:

* **Session registry, rpc-name tables, stubs**: start-up and bookkeeping of
  connections. Everything modelled begins when the processes know each other,
  their gates and their names. Their hazards are listed.
* **Timers and events of one entity, entity tables under deletion**: what can go
  wrong is undefined behaviour within one function (an iterator after an erase,
  a pointer between `delete` and `erase`), which a model could only restate.
* **Property registration, component and rpc method tables, encoder, GValue,
  log, ini**: template machinery, pure conversions and I/O.
* **Gameplay, Lua binding, LuaJIT and the other vendored libraries**: examples,
  a binding without a protocol, third-party code. `src/` is mostly LuaJIT, so
  that the share of all its lines that the modules cover says little about
  the engine's own code under `server/`.
