----------------------------- MODULE PropertyMap -----------------------------
(***************************************************************************)
(* A first-level map property (EntityPropertyMap<T>, T simple;             *)
(* engine/entity_property_manager.h) of an entity with a client, and the   *)
(* copies of it that the entity's own client and the client of an          *)
(* observer, an entity that has it in its area of interest, receive.       *)
(*                                                                         *)
(* Changes leave dirty flags on the value, on the map and in the entity's  *)
(* dirty_propertys.  Once per frame the entity sends what is dirty to its  *)
(* client and clears the flags (propertys_sync2client); the observer's     *)
(* AoiComponent::tick sends what is dirty to the observer's client and     *)
(* leaves them.  entity_tick ticks the entities in the order of a hash     *)
(* table, after the frame's rpcs: the observer before or after the owner.  *)
(*                                                                         *)
(* Updates to one client travel on one ordered channel (RpcChannel):       *)
(* client and observer are what the receivers hold once all that has been  *)
(* sent has arrived.                                                       *)
(***************************************************************************)
EXTENDS Naturals

CONSTANTS Keys, Vals,
          Absent            \* no value under a key

ASSUME AbsentAssumption == Absent \notin Vals

VARIABLES
    propertys,          \* [Keys -> Vals or Absent]
    dirtyValues,        \* keys whose value is_dirty
    sync_tobe_delete,
    dirty, all_dirty,   \* bits 0x80 and 0x40 of the map's flag
    listed,             \* the map is in the entity's dirty_propertys
    client, observer,   \* the receivers' copies
    watching,           \* the owner is in the observer's AoiComponent::others
    observerFirst,      \* g_cell_entities holds the observer before the owner
    overtaken,          \* the own client has reconnected under the observer
    phase               \* where in its frame the main thread is

flags == <<dirtyValues, sync_tobe_delete, dirty, all_dirty, listed>>
copies == <<client, observer, watching>>
order == <<observerFirst, overtaken>>
vars == <<propertys, flags, copies, order, phase>>

Value == Vals \cup {Absent}
Phases == {"rpc",       \* rpc_imp_input_tick
           "observe",   \* the observer's tick
           "sync",      \* the owner's propertys_sync2client
           "timer"}     \* the owner's timer_tick

Empty == [k \in Keys |-> Absent]

Init ==
    /\ propertys = Empty
    /\ dirtyValues = {} /\ sync_tobe_delete = {}
    /\ dirty = FALSE /\ all_dirty = FALSE /\ listed = FALSE
    /\ client = Empty /\ observer = Empty /\ watching = FALSE
    /\ observerFirst \in BOOLEAN /\ overtaken = FALSE
    /\ phase = "rpc"

Present == {k \in Keys : propertys[k] # Absent}

-----------------------------------------------------------------------------
\* Variant: the map is marked but the entity does not hear of it.
SetDirtyUnheard ==
    /\ dirty' = TRUE
    /\ UNCHANGED <<listed, all_dirty>>

(* set_dirty and set_all_dirty of the map: the first flag that is set puts *)
(* it in dirty_propertys.                                                  *)
SetDirty ==
    /\ dirty' = TRUE
    /\ listed' = (listed \/ (~dirty /\ ~all_dirty))
    /\ UNCHANGED all_dirty

SetAllDirty ==
    /\ all_dirty' = TRUE
    /\ listed' = (listed \/ (~dirty /\ ~all_dirty))
    /\ UNCHANGED dirty

(* insert keeps the value of a key that is there, update replaces it; both *)
(* clean the value's flag and set it again, so that the map hears of it.   *)
Insert(k, v) ==
    /\ propertys' = [propertys EXCEPT ![k] = IF @ = Absent THEN v ELSE @]
    /\ dirtyValues' = dirtyValues \cup {k}
    /\ SetDirty
    /\ UNCHANGED sync_tobe_delete

Update(k, v) ==
    /\ propertys' = [propertys EXCEPT ![k] = v]
    /\ dirtyValues' = dirtyValues \cup {k}
    /\ SetDirty
    /\ UNCHANGED sync_tobe_delete

(* GET(k).update(v): a value that is dirty already tells nobody. *)
UpdateValue(k, v) ==
    /\ k \in Present
    /\ propertys' = [propertys EXCEPT ![k] = v]
    /\ dirtyValues' = dirtyValues \cup {k}
    /\ IF k \in dirtyValues THEN UNCHANGED <<dirty, all_dirty, listed>>
                            ELSE SetDirty
    /\ UNCHANGED sync_tobe_delete

\* Variant: the key is not remembered.
EraseForgets(k) ==
    /\ propertys' = [propertys EXCEPT ![k] = Absent]
    /\ dirtyValues' = dirtyValues \ {k}
    /\ SetDirty
    /\ UNCHANGED sync_tobe_delete

Erase(k) ==
    /\ propertys' = [propertys EXCEPT ![k] = Absent]
    /\ dirtyValues' = dirtyValues \ {k}
    /\ sync_tobe_delete' = sync_tobe_delete \cup {k}
    /\ SetDirty

Clear ==
    /\ propertys' = Empty
    /\ dirtyValues' = {}
    /\ SetAllDirty
    /\ UNCHANGED sync_tobe_delete

-----------------------------------------------------------------------------
\* Keys erased and not inserted again: what serialize_dirty deletes.
Deleted == sync_tobe_delete \ Present

\* Variant: a key that was inserted again is deleted all the same, after it.
PatchDeletesLast(copy) ==
    [k \in Keys |-> CASE k \in sync_tobe_delete -> Absent
                      [] k \in dirtyValues -> propertys[k]
                      [] OTHER -> copy[k]]

\* Variant: the receiver clears its map first, as for a whole one.
PatchForgetsRest(copy) == [k \in dirtyValues |-> propertys[k]]

(* serialize_dirty, and unserialize on the other side: deletions, then     *)
(* values.                                                                 *)
Patch(copy) ==
    [k \in Keys |-> CASE k \in dirtyValues -> propertys[k]
                      [] k \in Deleted -> Absent
                      [] OTHER -> copy[k]]

(* serialize, or nothing if the map is not listed or has no flag. *)
Delta(copy) ==
    IF ~listed \/ ~(dirty \/ all_dirty) THEN copy
    ELSE IF all_dirty THEN propertys ELSE Patch(copy)

\* Variant: the values keep their flags, as in a serialize_dirty that cleans
\* the map only.
CleanMapOnly ==
    /\ dirty' = FALSE /\ all_dirty' = FALSE /\ listed' = FALSE
    /\ sync_tobe_delete' = {}
    /\ UNCHANGED dirtyValues

(* need_clean_dirty: every flag that was sent is cleared. *)
CleanDirty ==
    /\ dirtyValues' = {} /\ sync_tobe_delete' = {}
    /\ dirty' = FALSE /\ all_dirty' = FALSE /\ listed' = FALSE

-----------------------------------------------------------------------------
(* The owner's rpcs and timers change the property. *)
Change ==
    /\ phase \in {"rpc", "timer"}
    /\ \/ \E k \in Keys, v \in Vals :
             Insert(k, v) \/ Update(k, v) \/ UpdateValue(k, v)
       \/ \E k \in Keys : Erase(k)
       \/ Clear
    /\ UNCHANGED <<copies, order, phase>>

(* on_other_enter_aoi: the observer's client gets the whole map, whatever  *)
(* it missed before; the flags are left alone.  on_other_leave_aoi.        *)
EnterAoi ==
    /\ phase \in {"rpc", "timer"} /\ ~watching
    /\ watching' = TRUE /\ observer' = propertys /\ overtaken' = FALSE
    /\ UNCHANGED <<propertys, flags, client, observerFirst, phase>>

LeaveAoi ==
    /\ phase \in {"rpc", "timer"} /\ watching
    /\ watching' = FALSE /\ observer' = Empty
    /\ UNCHANGED <<propertys, flags, client, order, phase>>

(* on_client_reconnect_success: propertys_sync2client(true), with          *)
(* serialize_client_all.                                                   *)
ClientReconnectSuccess ==
    /\ phase = "rpc"
    /\ client' = propertys
    /\ CleanDirty
    /\ overtaken' = TRUE
    /\ UNCHANGED <<propertys, observer, watching, observerFirst, phase>>

\* The rpcs of the frame have been executed; entity_tick begins.
RpcsDone ==
    /\ phase = "rpc"
    /\ phase' = IF observerFirst THEN "observe" ELSE "sync"
    /\ UNCHANGED <<propertys, flags, copies, order>>

(* AoiComponent::tick of the observer: serialize_otherclient, which cleans *)
(* nothing but the deletions that were overtaken by an insertion.          *)
AoiTick ==
    /\ phase = "observe"
    /\ phase' = IF observerFirst THEN "sync" ELSE "rpc"
    /\ observer' = IF watching THEN Delta(observer) ELSE observer
    /\ sync_tobe_delete' =
          IF watching /\ listed /\ dirty /\ ~all_dirty THEN Deleted
                                                       ELSE sync_tobe_delete
    /\ UNCHANGED <<propertys, dirtyValues, dirty, all_dirty, listed,
                   client, watching, order>>

(* propertys_sync2client of the owner's tick, with serialize_client. *)
SyncToClient ==
    /\ phase = "sync" /\ phase' = "timer"
    /\ client' = Delta(client)
    /\ CleanDirty
    /\ UNCHANGED <<propertys, observer, watching, order>>

TimersDone ==
    /\ phase = "timer"
    /\ phase' = IF observerFirst THEN "rpc" ELSE "observe"
    /\ UNCHANGED <<propertys, flags, copies, order>>

Frame == RpcsDone \/ AoiTick \/ SyncToClient \/ TimersDone

Next == Change \/ EnterAoi \/ LeaveAoi \/ ClientReconnectSuccess \/ Frame

Spec == Init /\ [][Next]_vars

(* The main thread's frames go on; the callbacks in one come to an end. *)
FairSpec == Spec /\ WF_vars(Frame)

-----------------------------------------------------------------------------
TypeOK ==
    /\ propertys \in [Keys -> Value]
    /\ dirtyValues \subseteq Keys /\ sync_tobe_delete \subseteq Keys
    /\ dirty \in BOOLEAN /\ all_dirty \in BOOLEAN /\ listed \in BOOLEAN
    /\ client \in [Keys -> Value] /\ observer \in [Keys -> Value]
    /\ watching \in BOOLEAN
    /\ observerFirst \in BOOLEAN /\ overtaken \in BOOLEAN
    /\ phase \in Phases

(* The flags agree: a dirty value is there and makes the map dirty, and a  *)
(* map with a flag is listed, so that nothing dirty is out of sight of     *)
(* propertys_sync2client.                                                  *)
FlagsReachEntity ==
    /\ dirtyValues \subseteq Present
    /\ dirtyValues # {} => dirty
    /\ listed <=> (dirty \/ all_dirty)

\* The next delta carries key k.
Carried(k) == all_dirty \/ (dirty /\ (k \in dirtyValues \/ k \in Deleted))

\* Wherever a copy differs from the map, the next delta corrects it.
Covered(copy) == \A k \in Keys : copy[k] # propertys[k] => Carried(k)

(* No change is forgotten: the flags on the values, the map and the entity *)
(* together always tell what the client lacks.                             *)
ClientCovered == Covered(client)

(* entity.cpp, Entity::tick: components tick before propertys_sync2client, *)
(* so that what is dirty reaches the other clients before the flags are    *)
(* cleared.  An observer's client is behind only while the map is dirty.   *)
NotClearedUnseen ==
    watching /\ ~dirty /\ ~all_dirty => observer = propertys

(* The same where the observer ticks first and no reconnection intervenes. *)
ObserverCovered == observerFirst /\ ~overtaken => NotClearedUnseen

(* A delta is as good as the whole map: the client's copy only ever        *)
(* changes into the current map, and it gets there.                        *)
ToClient == INSTANCE Replica WITH value <- propertys, copy <- client
ClientReplica == ToClient!Spec
ClientFairReplica == ToClient!FairSpec

(* And there an observer that stays catches up once the map rests. *)
ObserverCatchesUp ==
    \A m \in [Keys -> Value] :
        <>[](watching /\ propertys = m /\ observerFirst /\ ~overtaken)
            => <>[](observer = m)
=============================================================================
