------------------------- MODULE PropertyMap_proofs -------------------------
(***************************************************************************)
(* What PropertyMap promises, for any keys and any values: the flags never *)
(* lose a change, the client's copy is a Replica of the map, and, where    *)
(* the observer ticks first and no reconnection intervenes, the observer's *)
(* copy is behind only while the map is dirty.                             *)
(*                                                                         *)
(* The argument is pointwise.  A change marks the keys it changes          *)
(* (ChangeMarks) and never unmarks one, so Covered holds of a copy that    *)
(* stays; a delta applied to a covered copy is the map (DeltaIsMap), which *)
(* covers itself once the flags are gone.                                  *)
(***************************************************************************)
EXTENDS PropertyMap, TLAPS

USE AbsentAssumption

-----------------------------------------------------------------------------
(* Type correctness. *)

\* The deltas a well-typed map sends leave a copy well typed.
LEMMA DeltaType ==
    ASSUME TypeOK, NEW copy \in [Keys -> Value]
    PROVE  Delta(copy) \in [Keys -> Value]
<1>1. Patch(copy) \in [Keys -> Value]
  BY DEF Patch, TypeOK, Value
<1> QED
  BY <1>1 DEF Delta, TypeOK

\* Every step keeps every variable in its type.
LEMMA TypeStep == TypeOK /\ [Next]_vars => TypeOK'
<1> SUFFICES ASSUME TypeOK, [Next]_vars PROVE TypeOK'
  OBVIOUS
<1>1. CASE Change
  <2>1. CASE \E k \in Keys, v \in Vals :
                Insert(k, v) \/ Update(k, v) \/ UpdateValue(k, v)
    BY <1>1, <2>1 DEF Change, Insert, Update, UpdateValue, SetDirty, TypeOK,
                      Value, copies, order
  <2>2. CASE \E k \in Keys : Erase(k)
    BY <1>1, <2>2 DEF Change, Erase, SetDirty, TypeOK, Value, copies, order
  <2>3. CASE Clear
    BY <1>1, <2>3 DEF Change, Clear, SetAllDirty, Empty, TypeOK, Value, copies, order
  <2> QED
    BY <1>1, <2>1, <2>2, <2>3 DEF Change
<1>2. CASE EnterAoi \/ LeaveAoi
  BY <1>2 DEF EnterAoi, LeaveAoi, flags, order, Empty, TypeOK, Value
<1>3. CASE ClientReconnectSuccess
  BY <1>3 DEF ClientReconnectSuccess, CleanDirty, TypeOK
<1>4. CASE RpcsDone \/ TimersDone
  BY <1>4 DEF RpcsDone, TimersDone, flags, copies, order, TypeOK, Phases
<1>5. CASE AoiTick
  <2>1. Delta(observer) \in [Keys -> Value]
    BY DeltaType DEF TypeOK
  <2>2. Deleted \subseteq Keys
    BY DEF Deleted, TypeOK
  <2> QED
    BY <1>5, <2>1, <2>2 DEF AoiTick, order, TypeOK, Phases
<1>6. CASE SyncToClient
  <2>1. Delta(client) \in [Keys -> Value]
    BY DeltaType DEF TypeOK
  <2> QED
    BY <1>6, <2>1 DEF SyncToClient, CleanDirty, order, TypeOK, Phases
<1>7. CASE UNCHANGED vars
  BY <1>7 DEF vars, flags, copies, order, TypeOK
<1> QED
  BY <1>1, <1>2, <1>3, <1>4, <1>5, <1>6, <1>7 DEF Next, Frame

\* Every variable has its type in every reachable state.
THEOREM TypeCorrect == Spec => []TypeOK
<1>1. Init => TypeOK
  BY DEF Init, Empty, TypeOK, Value, Phases
<1> QED
  BY <1>1, TypeStep, PTL DEF Spec

-----------------------------------------------------------------------------
(* What the flags say. *)

\* The flags agree after every change.
LEMMA ChangeFlags ==
    ASSUME TypeOK, FlagsReachEntity, Change
    PROVE  FlagsReachEntity'
<1>1. CASE \E k \in Keys, v \in Vals :
              Insert(k, v) \/ Update(k, v) \/ UpdateValue(k, v)
  BY <1>1 DEF Insert, Update, UpdateValue, SetDirty, TypeOK,
              Value, Present, FlagsReachEntity
<1>2. CASE \E k \in Keys : Erase(k)
  BY <1>2 DEF Erase, SetDirty, TypeOK, Present, FlagsReachEntity
<1>3. CASE Clear
  BY <1>3 DEF Clear, SetAllDirty, TypeOK, Present, FlagsReachEntity
<1> QED
  BY <1>1, <1>2, <1>3 DEF Change

\* A change marks what it changes, and what was marked stays marked, also
\* where a key is erased and inserted again or the map cleared in between.
LEMMA ChangeMarks ==
    ASSUME TypeOK, FlagsReachEntity, Change, NEW k \in Keys,
           propertys'[k] # propertys[k] \/ Carried(k)
    PROVE  Carried(k)'
<1>1. CASE \E j \in Keys, v \in Vals :
              Insert(j, v) \/ Update(j, v) \/ UpdateValue(j, v)
  BY <1>1 DEF Insert, Update, UpdateValue, SetDirty, TypeOK, Value, Present,
              Deleted, Carried, FlagsReachEntity
<1>2. CASE \E j \in Keys : Erase(j)
  BY <1>2 DEF Erase, SetDirty, TypeOK, Present, Deleted, Carried
<1>3. CASE Clear
  BY <1>3 DEF Clear, SetAllDirty, Carried
<1> QED
  BY <1>1, <1>2, <1>3 DEF Change

\* What a delta does for a copy whose gaps are all marked: it makes it the
\* map, whichever of the three forms is sent.
LEMMA DeltaIsMap ==
    ASSUME TypeOK, FlagsReachEntity, NEW copy \in [Keys -> Value],
           Covered(copy)
    PROVE  Delta(copy) = propertys
<1>1. CASE ~listed \/ ~(dirty \/ all_dirty)
  BY <1>1 DEF Delta, Covered, Carried, FlagsReachEntity, TypeOK
<1>2. CASE all_dirty /\ listed
  BY <1>2 DEF Delta
<1>3. CASE dirty /\ ~all_dirty /\ listed
  <2>1. Delta(copy) = Patch(copy)
    BY <1>3 DEF Delta
  <2>2. ASSUME NEW k \in Keys PROVE Patch(copy)[k] = propertys[k]
    BY <1>3, <2>2 DEF Patch, Covered, Carried, Deleted, Present, TypeOK
  <2>3. Patch(copy) \in [Keys -> Value]
    BY DEF Patch, TypeOK, Value
  <2> QED
    BY <2>1, <2>2, <2>3 DEF TypeOK
<1> QED
  BY <1>1, <1>2, <1>3 DEF TypeOK

-----------------------------------------------------------------------------
(* The client. *)

CoverInv == TypeOK /\ FlagsReachEntity /\ ClientCovered

\* The sync of a frame makes the client's copy the map.
LEMMA SyncIsMap ==
    ASSUME CoverInv, SyncToClient PROVE client' = propertys
BY DeltaIsMap DEF CoverInv, ClientCovered, SyncToClient, TypeOK

\* The observer's tick drops deletions that an insertion overtook and no
\* mark that the client still needs.
LEMMA AoiTickMarks ==
    ASSUME TypeOK, AoiTick, NEW k \in Keys, Carried(k) PROVE Carried(k)'
BY DEF AoiTick, Carried, Deleted, Present

\* Flags and client's copy stay in step.
LEMMA CoverStep == CoverInv /\ [Next]_vars => CoverInv'
<1> SUFFICES ASSUME CoverInv, [Next]_vars PROVE CoverInv'
  OBVIOUS
<1> USE DEF CoverInv
<1>1. TypeOK'
  BY TypeStep
<1>2. CASE Change
  <2>1. FlagsReachEntity'
    BY <1>2, ChangeFlags
  <2>2. ClientCovered'
    BY <1>2, ChangeMarks DEF ClientCovered, Covered, Change, copies
  <2> QED
    BY <1>1, <2>1, <2>2
<1>3. CASE EnterAoi \/ LeaveAoi \/ RpcsDone \/ TimersDone \/ UNCHANGED vars
  BY <1>1, <1>3 DEF EnterAoi, LeaveAoi, RpcsDone, TimersDone, vars, flags,
        copies, FlagsReachEntity, ClientCovered, Covered, Carried, Deleted,
        Present
<1>4. CASE ClientReconnectSuccess
  BY <1>1, <1>4 DEF ClientReconnectSuccess, CleanDirty, FlagsReachEntity,
        ClientCovered, Covered
<1>5. CASE AoiTick
  <2>1. FlagsReachEntity'
    BY <1>5 DEF AoiTick, FlagsReachEntity, Present
  <2>2. ClientCovered'
    BY <1>5, AoiTickMarks DEF ClientCovered, Covered, AoiTick
  <2> QED
    BY <1>1, <2>1, <2>2
<1>6. CASE SyncToClient
  <2>1. client' = propertys /\ propertys' = propertys
    BY <1>6, SyncIsMap DEF SyncToClient
  <2> QED
    BY <1>1, <1>6, <2>1 DEF SyncToClient, CleanDirty, FlagsReachEntity,
          ClientCovered, Covered
<1> QED
  BY <1>2, <1>3, <1>4, <1>5, <1>6 DEF Next, Frame

\* The invariant holds.
LEMMA CoverInvariant == Spec => []CoverInv
<1>1. Init => CoverInv
  BY DEF Init, Empty, CoverInv, TypeOK, Value, Phases, FlagsReachEntity,
         ClientCovered, Covered
<1> QED
  BY <1>1, CoverStep, PTL DEF Spec

\* Nothing dirty is out of sight of propertys_sync2client.
THEOREM FlagsAgree == Spec => []FlagsReachEntity
<1>1. CoverInv => FlagsReachEntity
  BY DEF CoverInv
<1> QED
  BY <1>1, CoverInvariant, PTL

\* No change to the property is ever lost on the way to the client.
THEOREM NothingForgotten == Spec => []ClientCovered
<1>1. CoverInv => ClientCovered
  BY DEF CoverInv
<1> QED
  BY <1>1, CoverInvariant, PTL

\* The safety part of the refinement: every behaviour of the map and its
\* client's copy is one of the abstract replica.
THEOREM Implements == Spec => ClientReplica
<1>1. Init => ToClient!Init
  BY DEF Init, ToClient!Init
<1>2. CoverInv /\ [Next]_vars => [ToClient!Next]_(ToClient!vars)
  <2> SUFFICES ASSUME CoverInv, [Next]_vars
               PROVE  ToClient!Next \/ UNCHANGED <<propertys, client>>
    BY DEF ToClient!vars
  <2>1. CASE Change
    BY <2>1 DEF Change, copies, ToClient!Next, ToClient!Change
  <2>2. CASE EnterAoi \/ LeaveAoi \/ RpcsDone \/ TimersDone \/ AoiTick
             \/ UNCHANGED vars
    BY <2>2 DEF EnterAoi, LeaveAoi, RpcsDone, TimersDone, AoiTick, vars,
          copies
  <2>3. CASE ClientReconnectSuccess
    BY <2>3 DEF ClientReconnectSuccess, ToClient!Next, ToClient!Sync
  <2>4. CASE SyncToClient
    BY <2>4, SyncIsMap DEF SyncToClient, ToClient!Next, ToClient!Sync
  <2> QED
    BY <2>1, <2>2, <2>3, <2>4 DEF Next, Frame
<1> QED
  BY <1>1, <1>2, CoverInvariant, PTL DEF Spec, ClientReplica, ToClient!Spec

-----------------------------------------------------------------------------
(* The observer, where it ticks before the owner and is not overtaken. *)

\* Between the observer's tick and the owner's sync the copies agree, and at
\* any other time the flags cover what the observer lacks.
ObserverInv ==
    watching /\ observerFirst /\ ~overtaken =>
        Covered(observer) /\ (phase = "sync" => observer = propertys)

\* Every step keeps the observer covered.
LEMMA ObserverStep ==
    ASSUME CoverInv, ObserverInv, [Next]_vars
    PROVE  ObserverInv'
<1> USE DEF CoverInv
<1>1. CASE Change
  <2>1. phase' # "sync" /\ UNCHANGED <<copies, order>>
    BY <1>1 DEF Change
  <2> QED
    BY <1>1, <2>1, ChangeMarks DEF ObserverInv, Covered, copies, order
<1>2. CASE EnterAoi \/ LeaveAoi
  BY <1>2 DEF EnterAoi, LeaveAoi, ObserverInv, Covered, order
<1>3. CASE RpcsDone \/ TimersDone \/ UNCHANGED vars
  <2>1. UNCHANGED <<propertys, flags, copies, order>>
    BY <1>3 DEF RpcsDone, TimersDone, vars
  <2>2. phase' = "sync" /\ observerFirst => phase = "sync"
    BY <1>3 DEF RpcsDone, TimersDone, vars
  <2>3. Covered(observer)' <=> Covered(observer)
    BY <2>1 DEF flags, copies, Covered, Carried, Deleted, Present
  <2> QED
    BY <2>1, <2>2, <2>3 DEF copies, order, ObserverInv
<1>4. CASE ClientReconnectSuccess
  BY <1>4 DEF ClientReconnectSuccess, ObserverInv
<1>5. CASE AoiTick
  <2>1. watching /\ observerFirst /\ ~overtaken => Delta(observer) = propertys
    BY DeltaIsMap DEF ObserverInv, TypeOK
  <2> QED
    BY <1>5, <2>1 DEF AoiTick, ObserverInv, Covered, order
<1>6. CASE SyncToClient
  BY <1>6 DEF SyncToClient, CleanDirty, ObserverInv, Covered, order
<1> QED
  BY <1>1, <1>2, <1>3, <1>4, <1>5, <1>6 DEF Next, Frame

\* Where the observer ticks first and no reconnection intervenes, the flags
\* are not cleared before the observer's client has what they stand for.  (The
\* run map_order shows that the condition is needed.)
THEOREM ObserverSeesAll == Spec => []ObserverCovered
<1>1. Init => ObserverInv
  BY DEF Init, ObserverInv
<1>2. CoverInv /\ ObserverInv /\ [Next]_vars => ObserverInv'
  BY ObserverStep
<1>3. CoverInv /\ ObserverInv => ObserverCovered
  BY DEF CoverInv, TypeOK, ObserverInv, ObserverCovered, NotClearedUnseen,
         Covered, Carried
<1> QED
  BY <1>1, <1>2, <1>3, CoverInvariant, PTL DEF Spec
=============================================================================
