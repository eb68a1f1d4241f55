-------------------------- MODULE ExpertCacheProofs --------------------------
(***************************************************************************)
(* Proofs about ExpertCache: its invariants, for every number of layers,   *)
(* slots, experts and users and every decay interval, and its refinement   *)
(* of SlotPool.                                                            *)
(***************************************************************************)
EXTENDS ExpertCache, SharedProofs

-----------------------------------------------------------------------------
(* The inductive invariant.  None of the parts is inductive alone: that    *)
(* the victim has no handles rests on the pins, that its old expert leaves *)
(* the right map on the slots' partitions, that a filled slot has an       *)
(* expert on the handles.                                                  *)
IInv ==
  /\ TypeOK
  /\ MapMatchesSlots
  /\ HandlesStayValid
  /\ OneFillPerSlot
  /\ PinsCountHandles

(* An expert the lookup finds is in the slot the lookup answers with.      *)
LEMMA ResidentSlot ==
  ASSUME IInv, NEW id \in Ids, Resident(cache, id)
  PROVE  SlotFor(cache, id) \in Slots /\ cache.id[SlotFor(cache, id)] = id
<1>1. PartOf(id) \in PartIds
  BY PartOfType
<1>2. SlotFor(cache, id) \in Slots
  BY <1>1 DEF IInv, TypeOK, CacheType, Resident, SlotFor
<1>. QED  BY <1>1, <1>2 DEF IInv, MapMatchesSlots, SlotFor

(* The handles on a slot are finitely many.                                *)
LEMMA HandlesOnFinite ==
  ASSUME IInv, NEW s
  PROVE  IsFiniteSet(HandlesOn(s)) /\ Cardinality(HandlesOn(s)) \in Nat
<1>1. IsFiniteSet(handles) /\ HandlesOn(s) \in SUBSET handles
  BY DEF IInv, TypeOK, HandlesOn
<1>2. IsFiniteSet(HandlesOn(s))
  BY <1>1, FS_Subset
<1>. QED  BY <1>2, FS_CardinalityType

(* A new cache is empty, and nobody holds anything.                        *)
LEMMA InitIInv == Init => IInv
<1>. SUFFICES ASSUME Init PROVE IInv
  OBVIOUS
<1>. USE DEF Init
<1>1. TypeOK
  <2>1. EmptyCache \in CacheType
    BY CacheAssumption DEF EmptyCache, CacheType
  <2>. QED  BY <2>1, FS_EmptySet DEF TypeOK
<1>2. MapMatchesSlots
  <2>1. \A s \in Slots : s # NoSlot
    BY DEF Slots, NoSlot
  <2>2. \A i \in Ids : i # NoId
    BY DEF Ids, NoId
  <2>. QED  BY <2>1, <2>2 DEF MapMatchesSlots, EmptyCache
<1>3. HandlesStayValid
  BY DEF HandlesStayValid
<1>4. OneFillPerSlot
  BY DEF OneFillPerSlot, EmptyCache
<1>5. PinsCountHandles
  <2>1. \A s : HandlesOn(s) = {}
    BY DEF HandlesOn
  <2>. QED  BY <2>1, FS_EmptySet DEF PinsCountHandles, EmptyCache
<1>. QED  BY <1>1, <1>2, <1>3, <1>4, <1>5 DEF IInv

(* One more user of a resident expert: acquire's hit, and lookup_ready.    *)
LEMMA ShareIInv ==
  ASSUME IInv, NEW u \in Users, NEW id \in Ids, ~Holds(u, id), Resident(cache, id),
         cache' = Pin(cache, SlotFor(cache, id)),
         handles' = handles \union {[user |-> u, id |-> id, slot |-> SlotFor(cache, id)]},
         UNCHANGED <<filling, retired>>
  PROVE  IInv'
<1>. DEFINE s == SlotFor(cache, id)
            h == [user |-> u, id |-> id, slot |-> s]
<1>1. s \in Slots /\ cache.id[s] = id
  BY ResidentSlot
<1>2. /\ cache' \in CacheType
      /\ cache'.pins = [cache.pins EXCEPT ![s] = @ + 1]
      /\ cache'.id = cache.id
      /\ cache'.ready = cache.ready
      /\ cache'.map = cache.map
  BY <1>1, PinEffect DEF IInv, TypeOK
<1>3. h \notin handles
  BY DEF Holds
<1>4. TypeOK'
  <2>1. IsFiniteSet(handles')
    BY FS_AddElement DEF IInv, TypeOK
  <2>. QED  BY <1>1, <1>2, <2>1 DEF IInv, TypeOK, Handles
<1>5. MapMatchesSlots'
  BY <1>2 DEF IInv, MapMatchesSlots
<1>6. HandlesStayValid'
  BY <1>1, <1>2 DEF IInv, HandlesStayValid
<1>7. OneFillPerSlot'
  BY <1>2 DEF IInv, OneFillPerSlot
<1>8. PinsCountHandles'
  <2>. SUFFICES ASSUME NEW t \in Slots
                PROVE  cache'.pins[t] = Cardinality(HandlesOn(t)')
    BY DEF PinsCountHandles
  <2>1. IsFiniteSet(HandlesOn(t)) /\ cache.pins[t] = Cardinality(HandlesOn(t))
    BY HandlesOnFinite DEF IInv, PinsCountHandles
  <2>2. CASE t = s
    <3>1. HandlesOn(t)' = HandlesOn(t) \union {h} /\ h \notin HandlesOn(t)
      BY <1>3, <2>2 DEF HandlesOn
    <3>2. cache'.pins[t] = cache.pins[t] + 1
      BY <1>1, <1>2, <2>2 DEF IInv, TypeOK, CacheType
    <3>. QED  BY <2>1, <3>1, <3>2, FS_AddElement
  <2>3. CASE t # s
    <3>1. HandlesOn(t)' = HandlesOn(t)
      BY <2>3 DEF HandlesOn
    <3>2. cache'.pins[t] = cache.pins[t]
      BY <1>1, <1>2, <2>3 DEF IInv, TypeOK, CacheType
    <3>. QED  BY <2>1, <3>1, <3>2
  <2>. QED  BY <2>2, <2>3
<1>. QED  BY <1>4, <1>5, <1>6, <1>7, <1>8 DEF IInv

(* A slot without pins has no handle, hence no owner of a fill either.     *)
LEMMA UnpinnedUnheld ==
  ASSUME IInv, NEW s \in Slots, cache.pins[s] = 0
  PROVE  /\ HandlesOn(s) = {}
         /\ \A h \in handles : h.slot # s
<1>1. Cardinality(HandlesOn(s)) = 0 /\ IsFiniteSet(HandlesOn(s))
  BY HandlesOnFinite DEF IInv, PinsCountHandles
<1>2. HandlesOn(s) = {}
  BY <1>1, FS_EmptySet
<1>. QED  BY <1>2 DEF HandlesOn

(* acquire's miss evicts an expert nobody holds, in favour of one that is  *)
(* in no slot.                                                             *)
LEMMA MissVictim ==
  ASSUME IInv, NEW u \in Users, NEW id \in Ids, Miss(u, id),
         NEW s, s = Victim(cache, PartOf(id))
  PROVE  /\ s \in Slots /\ s \in SlotsOf(PartOf(id))
         /\ HandlesOn(s) = {}
         /\ \A g \in handles : g.slot # s
         /\ \A t \in Slots : cache.id[t] # id
<1>1. PartOf(id) \in PartIds /\ ~Resident(cache, id)
  BY PartOfType DEF Miss, Misses
<1>2. s \in Slots /\ s \in SlotsOf(PartOf(id)) /\ cache.pins[s] = 0
  <2>1. s \in Unpinned(cache, PartOf(id))
    BY <1>1, VictimUnpinned DEF Miss, Misses, IInv, TypeOK
  <2>. QED  BY <2>1, UnpinnedSlots
<1>3. HandlesOn(s) = {} /\ \A g \in handles : g.slot # s
  BY <1>2, UnpinnedUnheld
<1>4. \A t \in Slots : cache.id[t] # id
  BY <1>1 DEF IInv, MapMatchesSlots, Resident, SlotFor, Slots, NoSlot
<1>. QED  BY <1>2, <1>3, <1>4

(* What it does to the bookkeeping and the handles.                        *)
LEMMA MissEffect ==
  ASSUME IInv, NEW u \in Users, NEW id \in Ids, Miss(u, id),
         NEW s, s = Victim(cache, PartOf(id))
  PROVE  /\ handles' = handles \union {[user |-> u, id |-> id, slot |-> s]}
         /\ filling' = filling \union {[user |-> u, id |-> id, slot |-> s]}
         /\ retired' = retired
         /\ cache' \in CacheType
         /\ cache'.pins = [cache.pins EXCEPT ![s] = 1]
         /\ cache'.id = [cache.id EXCEPT ![s] = id]
         /\ cache'.ready = [cache.ready EXCEPT ![s] = FALSE]
         /\ cache'.map = [cache.map EXCEPT ![PartOf(id)] =
                            [i \in Ids |-> IF i = id THEN s
                                           ELSE IF i = cache.id[s] THEN NoSlot ELSE @[i]]]
<1>1. s \in Slots /\ ~Resident(cache, id)
  BY MissVictim DEF Miss, Misses
<1>2. /\ cache' = Insert(cache, id, s)
      /\ handles' = handles \union {[user |-> u, id |-> id, slot |-> s]}
      /\ filling' = filling \union {[user |-> u, id |-> id, slot |-> s]}
      /\ retired' = retired
  BY <1>1 DEF Miss, Acquire, AcquireSlot
<1>. QED  BY <1>1, <1>2, InsertEffect DEF IInv, TypeOK

(* A miss keeps the invariant.                                             *)
LEMMA MissIInv ==
  ASSUME IInv, NEW u \in Users, NEW id \in Ids, Miss(u, id)
  PROVE  IInv'
<1>. DEFINE p == PartOf(id)
<1>1. PICK s : s = Victim(cache, p)
  OBVIOUS
<1>. DEFINE h == [user |-> u, id |-> id, slot |-> s]
<1>2. p \in PartIds /\ s \in Slots /\ s \in SlotsOf(p)
  BY <1>1, PartOfType, MissVictim
<1>3. handles' = handles \union {h} /\ filling' = filling \union {h} /\ retired' = retired
  BY <1>1, MissEffect
<1>4. /\ cache' \in CacheType
      /\ cache'.pins = [cache.pins EXCEPT ![s] = 1]
      /\ cache'.id = [cache.id EXCEPT ![s] = id]
      /\ cache'.ready = [cache.ready EXCEPT ![s] = FALSE]
      /\ cache'.map = [cache.map EXCEPT ![p] =
                         [i \in Ids |-> IF i = id THEN s
                                        ELSE IF i = cache.id[s] THEN NoSlot ELSE @[i]]]
  BY <1>1, MissEffect
<1>5. HandlesOn(s) = {} /\ \A g \in handles : g.slot # s
  BY <1>1, MissVictim
<1>6. TypeOK'
  <2>1. IsFiniteSet(handles')
    BY <1>3, FS_AddElement DEF IInv, TypeOK
  <2>. QED  BY <1>2, <1>3, <1>4, <2>1 DEF IInv, TypeOK, Handles
<1>7. MapMatchesSlots'
  <2>1. cache.id[s] \in Ids => PartOf(cache.id[s]) = p
    BY <1>2, PartOfType, PartitionsDisjoint DEF IInv, MapMatchesSlots
  <2>2. \A t \in Slots : cache.id[t] # id
    BY <1>1, MissVictim
  <2>3. ASSUME NEW q \in PartIds, NEW i \in Ids, NEW t \in Slots
        PROVE  cache'.map[q][i] = t <=> q = PartOf(i) /\ cache'.id[t] = i
    <3>1. cache.map[q][i] = t <=> q = PartOf(i) /\ cache.id[t] = i
      BY DEF IInv, MapMatchesSlots
    <3>2. cache'.id[t] = IF t = s THEN id ELSE cache.id[t]
      BY <1>2, <1>4 DEF IInv, TypeOK, CacheType
    <3>3. cache'.map[q][i] = IF q # p THEN cache.map[q][i]
                             ELSE IF i = id THEN s
                             ELSE IF i = cache.id[s] THEN NoSlot ELSE cache.map[p][i]
      BY <1>2, <1>4 DEF IInv, TypeOK, CacheType
    <3>4. CASE q # p
      BY <2>1, <3>1, <3>2, <3>3, <3>4
    <3>5. CASE q = p /\ i = id
      BY <2>2, <3>2, <3>3, <3>5
    <3>6. CASE q = p /\ i # id /\ i = cache.id[s]
      <4>1. t # NoSlot
        BY DEF Slots, NoSlot
      <4>2. cache.map[p][i] = s
        BY <1>2, <2>1, <3>6 DEF IInv, MapMatchesSlots
      <4>. QED  BY <3>1, <3>2, <3>3, <3>6, <4>1, <4>2
    <3>7. CASE q = p /\ i # id /\ i # cache.id[s]
      BY <3>1, <3>2, <3>3, <3>7
    <3>. QED  BY <3>4, <3>5, <3>6, <3>7
  <2>4. ASSUME NEW i \in Ids, NEW t \in Slots, cache'.id[t] = i
        PROVE  t \in SlotsOf(PartOf(i))
    <3>1. cache'.id[t] = IF t = s THEN id ELSE cache.id[t]
      BY <1>2, <1>4 DEF IInv, TypeOK, CacheType
    <3>. QED  BY <1>2, <2>4, <3>1 DEF IInv, MapMatchesSlots
  <2>. QED  BY <2>3, <2>4 DEF MapMatchesSlots
<1>8. HandlesStayValid'
  <2>1. \A g \in handles : g.slot \in Slots
    BY DEF IInv, TypeOK, Handles
  <2>. QED  BY <1>2, <1>3, <1>4, <1>5, <2>1 DEF IInv, TypeOK, CacheType, HandlesStayValid
<1>9. OneFillPerSlot'
  <2>1. \A g \in filling : g.slot # s
    BY <1>5 DEF IInv, TypeOK
  <2>2. \A g, f \in filling' : g.slot = f.slot => g = f
    BY <1>3, <2>1 DEF IInv, OneFillPerSlot
  <2>3. id # NoId
    BY DEF Ids, NoId
  <2>4. ASSUME NEW t \in Slots
        PROVE  ~cache'.ready[t] <=> cache'.id[t] = NoId \/ \E g \in filling' : g.slot = t
    <3>1. CASE t = s
      <4>1. cache'.ready[t] = FALSE
        BY <1>4, <3>1 DEF IInv, TypeOK, CacheType
      <4>2. h \in filling' /\ h.slot = t
        BY <1>3, <3>1
      <4>. QED  BY <4>1, <4>2
    <3>2. CASE t # s
      <4>1. cache'.ready[t] = cache.ready[t] /\ cache'.id[t] = cache.id[t]
        BY <1>4, <3>2 DEF IInv, TypeOK, CacheType
      <4>. QED  BY <1>3, <3>2, <4>1 DEF IInv, OneFillPerSlot
    <3>. QED  BY <3>1, <3>2
  <2>. QED  BY <2>2, <2>4 DEF OneFillPerSlot
<1>10. PinsCountHandles'
  <2>. SUFFICES ASSUME NEW t \in Slots
                PROVE  cache'.pins[t] = Cardinality(HandlesOn(t)')
    BY DEF PinsCountHandles
  <2>1. CASE t = s
    <3>1. HandlesOn(t)' = {h}
      BY <1>3, <1>5, <2>1 DEF HandlesOn
    <3>2. cache'.pins[t] = 1
      BY <1>2, <1>4, <2>1 DEF IInv, TypeOK, CacheType
    <3>. QED  BY <3>1, <3>2, FS_Singleton
  <2>2. CASE t # s
    <3>1. HandlesOn(t)' = HandlesOn(t)
      BY <1>3, <2>2 DEF HandlesOn
    <3>2. cache'.pins[t] = cache.pins[t]
      BY <1>2, <1>4, <2>2 DEF IInv, TypeOK, CacheType
    <3>. QED  BY <3>1, <3>2 DEF IInv, PinsCountHandles
  <2>. QED  BY <2>1, <2>2
<1>. QED  BY <1>6, <1>7, <1>8, <1>9, <1>10 DEF IInv

(* publish ends the one fill of its slot.                                  *)
LEMMA PublishIInv ==
  ASSUME IInv, NEW h, PublishFill(h)
  PROVE  IInv'
<1>1. h \in filling /\ h \in handles /\ h.slot \in Slots /\ h.id \in Ids
  BY DEF PublishFill, IInv, TypeOK, Handles
<1>2. /\ cache' \in CacheType
      /\ cache'.pins = cache.pins
      /\ cache'.id = cache.id
      /\ cache'.ready = [cache.ready EXCEPT ![h.slot] = TRUE]
      /\ cache'.map = cache.map
  BY <1>1, PublishEffect DEF PublishFill, IInv, TypeOK
<1>3. /\ handles' = handles
      /\ filling' = filling \ {h}
      /\ retired' = retired
  BY DEF PublishFill
<1>4. TypeOK'
  BY <1>2, <1>3 DEF IInv, TypeOK
<1>5. MapMatchesSlots' /\ HandlesStayValid'
  BY <1>2, <1>3 DEF IInv, MapMatchesSlots, HandlesStayValid
<1>6. OneFillPerSlot'
  <2>1. \A f, g \in filling' : f.slot = g.slot => f = g
    BY <1>3 DEF IInv, OneFillPerSlot
  <2>2. ASSUME NEW t \in Slots
        PROVE  ~cache'.ready[t] <=> cache'.id[t] = NoId \/ \E g \in filling' : g.slot = t
    <3>1. CASE t = h.slot
      <4>1. cache'.ready[t] = TRUE
        BY <1>2, <3>1 DEF IInv, TypeOK, CacheType
      <4>2. cache'.id[t] # NoId
        BY <1>1, <1>2, <3>1 DEF IInv, HandlesStayValid, Ids, NoId
      <4>3. \A g \in filling' : g.slot # t
        BY <1>1, <1>3, <3>1 DEF IInv, OneFillPerSlot
      <4>. QED  BY <4>1, <4>2, <4>3
    <3>2. CASE t # h.slot
      <4>1. cache'.ready[t] = cache.ready[t] /\ cache'.id[t] = cache.id[t]
        BY <1>2, <3>2 DEF IInv, TypeOK, CacheType
      <4>2. (\E g \in filling' : g.slot = t) <=> (\E g \in filling : g.slot = t)
        BY <1>3, <3>2
      <4>. QED  BY <4>1, <4>2 DEF IInv, OneFillPerSlot
    <3>. QED  BY <3>1, <3>2
  <2>. QED  BY <2>1, <2>2 DEF OneFillPerSlot
<1>7. PinsCountHandles'
  BY <1>2, <1>3 DEF IInv, PinsCountHandles, HandlesOn
<1>. QED  BY <1>4, <1>5, <1>6, <1>7 DEF IInv

(* A handle's slot has a pin for it, so that release's assertion holds.    *)
LEMMA HandlePinned ==
  ASSUME IInv, NEW h \in handles
  PROVE  h.slot \in Slots /\ cache.pins[h.slot] > 0
<1>1. h.slot \in Slots
  BY DEF IInv, TypeOK, Handles
<1>2. cache.pins[h.slot] # 0
  BY <1>1, UnpinnedUnheld
<1>. QED  BY <1>1, <1>2 DEF IInv, TypeOK, CacheType

(* release takes back the pin of the handle it drops.                      *)
LEMMA ReleaseIInv ==
  ASSUME IInv, NEW h, ReleaseHandle(h)
  PROVE  IInv'
<1>. DEFINE s == h.slot
<1>1. h \in handles /\ h \notin filling /\ s \in Slots /\ cache.pins[s] > 0
  BY HandlePinned DEF ReleaseHandle
<1>2. /\ cache' \in CacheType
      /\ cache'.pins = [cache.pins EXCEPT ![s] = @ - 1]
      /\ cache'.id = cache.id
      /\ cache'.ready = cache.ready
      /\ cache'.map = cache.map
  BY <1>1, ReleaseEffect DEF ReleaseHandle, IInv, TypeOK
<1>3. /\ handles' = handles \ {h}
      /\ filling' = filling
      /\ retired' = retired
  BY DEF ReleaseHandle
<1>4. TypeOK'
  <2>1. IsFiniteSet(handles')
    BY <1>3, FS_RemoveElement DEF IInv, TypeOK
  <2>. QED  BY <1>1, <1>2, <1>3, <2>1 DEF IInv, TypeOK
<1>5. MapMatchesSlots' /\ HandlesStayValid'
  BY <1>2, <1>3 DEF IInv, MapMatchesSlots, HandlesStayValid
<1>6. OneFillPerSlot'
  BY <1>2, <1>3 DEF IInv, OneFillPerSlot
<1>7. PinsCountHandles'
  <2>. SUFFICES ASSUME NEW t \in Slots
                PROVE  cache'.pins[t] = Cardinality(HandlesOn(t)')
    BY DEF PinsCountHandles
  <2>1. IsFiniteSet(HandlesOn(t)) /\ cache.pins[t] = Cardinality(HandlesOn(t))
    BY HandlesOnFinite DEF IInv, PinsCountHandles
  <2>2. CASE t = s
    <3>1. HandlesOn(t)' = HandlesOn(t) \ {h} /\ h \in HandlesOn(t)
      BY <1>1, <1>3, <2>2 DEF HandlesOn
    <3>2. cache'.pins[t] = cache.pins[t] - 1
      BY <1>2, <2>2 DEF IInv, TypeOK, CacheType
    <3>. QED  BY <2>1, <3>1, <3>2, FS_RemoveElement
  <2>3. CASE t # s
    <3>1. HandlesOn(t)' = HandlesOn(t)
      BY <1>3, <2>3 DEF HandlesOn
    <3>2. cache'.pins[t] = cache.pins[t]
      BY <1>2, <2>3 DEF IInv, TypeOK, CacheType
    <3>. QED  BY <2>1, <3>1, <3>2
  <2>. QED  BY <2>2, <2>3
<1>. QED  BY <1>4, <1>5, <1>6, <1>7 DEF IInv

(* Ageing touches neither the maps, nor the slots, nor the pins.           *)
LEMMA TickIInv ==
  ASSUME IInv, Tick
  PROVE  IInv'
<1>1. /\ cache' \in CacheType
      /\ cache'.pins = cache.pins
      /\ cache'.id = cache.id
      /\ cache'.ready = cache.ready
      /\ cache'.map = cache.map
  BY DecayAllEffect DEF Tick, IInv, TypeOK
<1>2. UNCHANGED <<handles, filling, retired>>
  BY DEF Tick
<1>3. TypeOK'
  BY <1>1, <1>2 DEF IInv, TypeOK
<1>4. MapMatchesSlots' /\ HandlesStayValid' /\ OneFillPerSlot'
  BY <1>1, <1>2 DEF IInv, MapMatchesSlots, HandlesStayValid, OneFillPerSlot
<1>5. PinsCountHandles'
  BY <1>1, <1>2 DEF IInv, PinsCountHandles, HandlesOn
<1>. QED  BY <1>3, <1>4, <1>5 DEF IInv

(* Every step keeps the invariant.                                         *)
LEMMA NextIInv == IInv /\ [Next]_vars => IInv'
<1>. SUFFICES ASSUME IInv, [Next]_vars PROVE IInv'
  OBVIOUS
<1>1. ASSUME NEW u \in Users, NEW id \in Ids, Hit(u, id)
      PROVE  IInv'
  <2>1. Resident(cache, id) /\ ~Holds(u, id)
    BY <1>1 DEF Hit, Hits
  <2>. QED  BY <1>1, <2>1, ShareIInv DEF Hit, Acquire, AcquireSlot
<1>2. ASSUME NEW u \in Users, NEW id \in Ids, Miss(u, id)
      PROVE  IInv'
  BY <1>2, MissIInv
<1>3. ASSUME NEW u \in Users, NEW id \in Ids, LookupReady(u, id)
      PROVE  IInv'
  BY <1>3, ShareIInv DEF LookupReady, ReadyHit
<1>4. ASSUME NEW h \in handles, PublishFill(h)
      PROVE  IInv'
  BY <1>4, PublishIInv
<1>5. ASSUME NEW h \in handles, ReleaseHandle(h)
      PROVE  IInv'
  BY <1>5, ReleaseIInv
<1>6. ASSUME NEW id \in Ids, Retire(id)
      PROVE  IInv'
  BY <1>6 DEF Retire, IInv, TypeOK, MapMatchesSlots, HandlesStayValid, OneFillPerSlot,
              PinsCountHandles, HandlesOn
<1>7. ASSUME Tick
      PROVE  IInv'
  BY <1>7, TickIInv
<1>8. ASSUME UNCHANGED vars
      PROVE  IInv'
  BY <1>8 DEF vars, IInv, TypeOK, MapMatchesSlots, HandlesStayValid, OneFillPerSlot,
              PinsCountHandles, HandlesOn
<1>. QED  BY <1>1, <1>2, <1>3, <1>4, <1>5, <1>6, <1>7, <1>8 DEF Next, Use

(* The bookkeeping satisfies its invariant in every reachable state.       *)
THEOREM Invariance == Spec => []IInv
<1>. QED  BY InitIInv, NextIInv, PTL DEF Spec

(* Type correctness of the bookkeeping and of the handles.                 *)
THEOREM TypeCorrect == Spec => []TypeOK
<1>. QED  BY Invariance, PTL DEF IInv

(* acquire keeps the partitions' maps and the slots in agreement.          *)
THEOREM MapAgreement == Spec => []MapMatchesSlots
<1>. QED  BY Invariance, PTL DEF IInv

(* acquire never evicts an expert that a fetch or a forward pass holds.    *)
THEOREM HeldNeverEvicted == Spec => []HandlesStayValid
<1>. QED  BY Invariance, PTL DEF IInv

(* An unpublished slot has one owner of its fill, a published one none.    *)
THEOREM SingleFill == Spec => []OneFillPerSlot
<1>. QED  BY Invariance, PTL DEF IInv

(* acquire, lookup_ready and release keep the pins equal to the handles.   *)
THEOREM PinsExact == Spec => []PinsCountHandles
<1>. QED  BY Invariance, PTL DEF IInv

-----------------------------------------------------------------------------
(* The refinement of SlotPool.                                             *)

(* The users of a slot, as the refinement sees them.                       *)
HoldersOf(s) == {h.user : h \in HandlesOn(s)}

(* On one slot, a handle is known by its user.                             *)
LEMMA HandleOfUser ==
  ASSUME IInv, NEW g \in handles, NEW h \in handles, g.slot = h.slot, g.user = h.user
  PROVE  g = h
<1>1. g.id = h.id
  BY DEF IInv, HandlesStayValid
<1>. QED  BY <1>1 DEF IInv, TypeOK, Handles

(* A new handle adds its user to the holders of its slot.                  *)
LEMMA AddedHolder ==
  ASSUME NEW u, NEW id, NEW s, NEW t,
         handles' = handles \union {[user |-> u, id |-> id, slot |-> s]}
  PROVE  HoldersOf(t)' = IF t = s THEN HoldersOf(t) \union {u} ELSE HoldersOf(t)
<1>. DEFINE h == [user |-> u, id |-> id, slot |-> s]
<1>1. HandlesOn(t)' = IF t = s THEN HandlesOn(t) \union {h} ELSE HandlesOn(t)
  BY DEF HandlesOn
<1>2. CASE t = s
  <2>1. HandlesOn(t)' = HandlesOn(t) \union {h}
    BY <1>1, <1>2
  <2>2. h.user = u
    OBVIOUS
  <2>. QED  BY <1>2, <2>1, <2>2 DEF HoldersOf
<1>3. CASE t # s
  BY <1>1, <1>3 DEF HoldersOf
<1>. QED  BY <1>2, <1>3

(* A user that shares a resident expert is a share of the pool.            *)
LEMMA ShareImplements ==
  ASSUME IInv, NEW u \in Users, NEW id \in Ids, Resident(cache, id),
         cache' = Pin(cache, SlotFor(cache, id)),
         handles' = handles \union {[user |-> u, id |-> id, slot |-> SlotFor(cache, id)]}
  PROVE  Pool!Next
<1>1. PICK s \in Slots : s = SlotFor(cache, id)
  BY ResidentSlot
<1>2. cache.id[s] = id /\ id # NoId
  BY <1>1, ResidentSlot DEF Ids, NoId
<1>3. cache'.id = cache.id /\ cache'.ready = cache.ready
  BY <1>1, PinEffect DEF IInv, TypeOK
<1>4. \A t \in Slots : HoldersOf(t)' = IF t = s THEN HoldersOf(t) \union {u} ELSE HoldersOf(t)
  BY <1>1, AddedHolder
<1>5. Pool!Share(u, s)
  BY <1>1, <1>2, <1>3, <1>4 DEF Pool!Share, HoldersOf
<1>. QED  BY <1>5 DEF Pool!Next

(* A miss claims an unheld slot of the expert's own, and the expert is in  *)
(* no other slot.                                                          *)
LEMMA MissImplements ==
  ASSUME IInv, NEW u \in Users, NEW id \in Ids, Miss(u, id)
  PROVE  Pool!Next
<1>1. PICK s : s = Victim(cache, PartOf(id))
  OBVIOUS
<1>2. s \in Slots /\ s \in SlotsOf(PartOf(id)) /\ \A t \in Slots : cache.id[t] # id
  BY <1>1, MissVictim
<1>3. HoldersOf(s) = {}
  BY <1>1, MissVictim DEF HoldersOf
<1>4. cache \in CacheType /\ cache' \in CacheType
  BY <1>1, MissEffect DEF IInv, TypeOK
<1>5. /\ cache'.id = [cache.id EXCEPT ![s] = id]
      /\ cache'.ready = [cache.ready EXCEPT ![s] = FALSE]
  BY <1>1, <1>4, MissEffect DEF CacheType
<1>6. handles' = handles \union {[user |-> u, id |-> id, slot |-> s]}
  BY <1>1, MissEffect
<1>7. \A t \in Slots : HoldersOf(t)' = IF t = s THEN HoldersOf(t) \union {u} ELSE HoldersOf(t)
  BY <1>6, AddedHolder
<1>8. Pool!Claim(u, id, s)
  BY <1>2, <1>3, <1>4, <1>5, <1>7 DEF Pool!Claim, HoldersOf
<1>. QED  BY <1>2, <1>8 DEF Pool!Next

(* publish fills a slot that is held and not filled.                       *)
LEMMA PublishImplements ==
  ASSUME IInv, NEW h, PublishFill(h)
  PROVE  Pool!Next
<1>. DEFINE s == h.slot
<1>1. h \in filling /\ h \in handles /\ s \in Slots
  BY DEF PublishFill, IInv, TypeOK, Handles
<1>2. cache'.id = cache.id /\ cache'.ready = [cache.ready EXCEPT ![s] = TRUE]
  BY <1>1, PublishEffect DEF PublishFill, IInv, TypeOK
<1>3. \A t \in Slots : HoldersOf(t)' = HoldersOf(t)
  BY DEF PublishFill, HoldersOf, HandlesOn
<1>4. HoldersOf(s) # {}
  BY <1>1 DEF HoldersOf, HandlesOn
<1>5. ~cache.ready[s]
  BY <1>1 DEF IInv, OneFillPerSlot
<1>6. Pool!Fill(s)
  BY <1>1, <1>2, <1>3, <1>4, <1>5 DEF Pool!Fill, HoldersOf
<1>. QED  BY <1>1, <1>6 DEF Pool!Next

(* release drops a holder, never the last one of an unfilled slot.         *)
LEMMA ReleaseImplements ==
  ASSUME IInv, NEW h, ReleaseHandle(h)
  PROVE  Pool!Next
<1>. DEFINE s == h.slot
<1>1. h \in handles /\ h \notin filling /\ s \in Slots /\ cache.pins[s] > 0 /\ h.user \in Users
  BY HandlePinned DEF ReleaseHandle, IInv, TypeOK, Handles
<1>2. cache'.id = cache.id /\ cache'.ready = cache.ready
  BY <1>1, ReleaseEffect DEF ReleaseHandle, IInv, TypeOK
<1>3. \A g \in HandlesOn(s) : g.user = h.user => g = h
  BY <1>1, HandleOfUser DEF HandlesOn
<1>4. \A t \in Slots : HoldersOf(t)' = IF t = s THEN HoldersOf(t) \ {h.user} ELSE HoldersOf(t)
  BY <1>1, <1>3 DEF ReleaseHandle, HoldersOf, HandlesOn
<1>5. h.user \in HoldersOf(s)
  BY <1>1 DEF HoldersOf, HandlesOn
<1>6. cache.ready[s] \/ HoldersOf(s) # {h.user}
  <2>. SUFFICES ASSUME ~cache.ready[s] PROVE HoldersOf(s) # {h.user}
    OBVIOUS
  <2>1. cache.id[s] # NoId
    BY <1>1 DEF IInv, TypeOK, Handles, HandlesStayValid, Ids, NoId
  <2>2. PICK g \in filling : g.slot = s
    BY <1>1, <2>1 DEF IInv, OneFillPerSlot
  <2>3. g \in HandlesOn(s) /\ g # h
    BY <1>1, <2>2 DEF IInv, TypeOK, HandlesOn
  <2>4. g.user \in HoldersOf(s) /\ g.user # h.user
    BY <1>3, <2>3 DEF HoldersOf
  <2>. QED  BY <2>4
<1>7. Pool!Drop(h.user, s)
  BY <1>1, <1>2, <1>4, <1>5, <1>6 DEF Pool!Drop, HoldersOf
<1>. QED  BY <1>1, <1>7 DEF Pool!Next

(* Steps that change neither experts, nor ready flags, nor handles are     *)
(* steps the pool does not see.                                            *)
LEMMA StutterImplements ==
  ASSUME cache'.id = cache.id, cache'.ready = cache.ready, handles' = handles
  PROVE  UNCHANGED Pool!poolVars
BY DEF Pool!poolVars, HandlesOn

(* Every step of the cache is a step of the pool, or none.                 *)
LEMMA StepImplements == IInv /\ [Next]_vars => [Pool!Next]_(Pool!poolVars)
<1>. SUFFICES ASSUME IInv, [Next]_vars PROVE [Pool!Next]_(Pool!poolVars)
  OBVIOUS
<1>1. ASSUME NEW u \in Users, NEW id \in Ids, Hit(u, id)
      PROVE  Pool!Next
  BY <1>1, ShareImplements DEF Hit, Hits, Acquire, AcquireSlot
<1>2. ASSUME NEW u \in Users, NEW id \in Ids, Miss(u, id)
      PROVE  Pool!Next
  BY <1>2, MissImplements
<1>3. ASSUME NEW u \in Users, NEW id \in Ids, LookupReady(u, id)
      PROVE  Pool!Next
  BY <1>3, ShareImplements DEF LookupReady, ReadyHit
<1>4. ASSUME NEW h \in handles, PublishFill(h)
      PROVE  Pool!Next
  BY <1>4, PublishImplements
<1>5. ASSUME NEW h \in handles, ReleaseHandle(h)
      PROVE  Pool!Next
  BY <1>5, ReleaseImplements
<1>6. ASSUME NEW id \in Ids, Retire(id)
      PROVE  UNCHANGED Pool!poolVars
  BY <1>6, StutterImplements DEF Retire
<1>7. ASSUME Tick
      PROVE  UNCHANGED Pool!poolVars
  BY <1>7, DecayAllEffect, StutterImplements DEF Tick, IInv, TypeOK
<1>8. ASSUME UNCHANGED vars
      PROVE  UNCHANGED Pool!poolVars
  BY <1>8, StutterImplements DEF vars
<1>. QED  BY <1>1, <1>2, <1>3, <1>4, <1>5, <1>6, <1>7, <1>8 DEF Next, Use

(* An empty cache is an empty pool.                                        *)
LEMMA InitImplements == Init => Pool!Init
<1>. SUFFICES ASSUME Init PROVE Pool!Init
  OBVIOUS
<1>1. cache.id = [s \in Slots |-> NoId] /\ cache.ready = [s \in Slots |-> FALSE]
  BY DEF Init, EmptyCache
<1>2. \A s : HandlesOn(s) = {}
  BY DEF Init, HandlesOn
<1>. QED  BY <1>1, <1>2 DEF Pool!Init

(* The aged-LFU cache implements the slot pool its users rely on.          *)
THEOREM ImplementsPool == Spec => PoolPromise
<1>. QED  BY InitImplements, StepImplements, Invariance, PTL DEF Spec, PoolPromise, Pool!Spec
=============================================================================
