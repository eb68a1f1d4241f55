--------------------------- MODULE ExpertCacheOps ---------------------------
(***************************************************************************)
(* The bookkeeping of llmpager-core's ExpertCache as operators on a cache  *)
(* record.  The GPU pager keeps one such record for device memory and a    *)
(* second one for its host-RAM tier, so the operators take the record.     *)
(*                                                                         *)
(* A slot is an index; a partition owns a contiguous run of slots and its  *)
(* own id -> slot map.  One partition per layer gives per-layer caches,    *)
(* a single partition one pool shared by every layer.                      *)
(***************************************************************************)
EXTENDS Integers

CONSTANTS
  Parts,          (* number of partitions                                  *)
  SlotsPerPart,   (* slots of a partition                                  *)
  IdsPerPart,     (* experts per layer: the fold factor of an id           *)
  NumIds,         (* size of the flat expert population                    *)
  DecayInterval,  (* insertions into a partition between two decays        *)
  MaxFreq         (* where the frequency counter saturates: u32::MAX, small *)

ASSUME CacheAssumption ==
  /\ Parts \in Nat \ {0}
  /\ SlotsPerPart \in Nat \ {0}
  /\ IdsPerPart \in Nat \ {0}
  /\ NumIds \in Nat \ {0}
  /\ DecayInterval \in Nat \ {0}
  /\ MaxFreq \in Nat \ {0}

NoId   == -1      (* Option<ExpertId>::None                                *)
NoSlot == -1      (* absent from the map                                   *)

Ids     == 0 .. NumIds - 1
PartIds == 0 .. Parts - 1
Slots   == 0 .. Parts * SlotsPerPart - 1

(* Flat ids fold (layer, expert); a layer's ids never meet another's.      *)
Fold(layer, expert) == layer * IdsPerPart + expert
LayerOf(id)         == id \div IdsPerPart

(* The partition of an id: a lone pool takes every id, and an id past the  *)
(* last partition is clamped into it.                                      *)
PartOf(id) ==
  IF Parts = 1 \/ LayerOf(id) >= Parts
  THEN Parts - 1
  ELSE LayerOf(id)

SlotsOf(p) == {s \in Slots : p * SlotsPerPart <= s /\ s < (p + 1) * SlotsPerPart}

CacheType ==
  [ id      : [Slots -> Ids \union {NoId}],
    freq    : [Slots -> 0 .. MaxFreq],
    pins    : [Slots -> Nat],
    ready   : [Slots -> BOOLEAN],
    map     : [PartIds -> [Ids -> Slots \union {NoSlot}]],
    inserts : [PartIds -> 0 .. DecayInterval - 1] ]

EmptyCache ==
  [ id      |-> [s \in Slots |-> NoId],
    freq    |-> [s \in Slots |-> 0],
    pins    |-> [s \in Slots |-> 0],
    ready   |-> [s \in Slots |-> FALSE],
    map     |-> [p \in PartIds |-> [i \in Ids |-> NoSlot]],
    inserts |-> [p \in PartIds |-> 0] ]

-----------------------------------------------------------------------------
(* Lookups.                                                                *)

SlotFor(c, id)  == c.map[PartOf(id)][id]
Resident(c, id) == SlotFor(c, id) # NoSlot

(* Mutant: the victim search forgets to skip pinned slots.                 *)
UnpinnedAll(c, p) == SlotsOf(p)

Unpinned(c, p) == {s \in SlotsOf(p) : c.pins[s] = 0}

(* The three answers of acquire.                                           *)
Hits(c, id)   == Resident(c, id)
Stalls(c, id) == ~Resident(c, id) /\ Unpinned(c, PartOf(id)) = {}
Misses(c, id) == ~Resident(c, id) /\ Unpinned(c, PartOf(id)) # {}

(* Every slot the id could use is pinned and none of them is mid-fetch.    *)
IsWedged(c, id) ==
  \A s \in SlotsOf(PartOf(id)) : c.pins[s] > 0 /\ c.ready[s]

-----------------------------------------------------------------------------
(* The victim: among the unpinned slots the lowest (frequency, occupied)   *)
(* pair, an empty slot before an occupied one, the first index on a tie.   *)

Occupied(c, s) == IF c.id[s] = NoId THEN 0 ELSE 1
VictimKey(c, s) == 2 * c.freq[s] + Occupied(c, s)

IsVictim(c, p, s) ==
  /\ s \in Unpinned(c, p)
  /\ \A t \in Unpinned(c, p) :
       \/ VictimKey(c, s) < VictimKey(c, t)
       \/ VictimKey(c, s) = VictimKey(c, t) /\ s <= t

Victim(c, p) == CHOOSE s \in Unpinned(c, p) : IsVictim(c, p, s)

-----------------------------------------------------------------------------
(* Updates.                                                                *)

(* Mutants: the counter wraps instead of saturating; the pin is forgotten. *)
PinWrapping(c, s) ==
  [c EXCEPT !.freq[s] = @ + 1, !.pins[s] = @ + 1]

PinUncounted(c, s) ==
  [c EXCEPT !.freq[s] = IF @ < MaxFreq THEN @ + 1 ELSE MaxFreq]

(* A hit, of acquire and of lookup_ready: one more use, one more pin.      *)
Pin(c, s) ==
  [c EXCEPT !.freq[s] = IF @ < MaxFreq THEN @ + 1 ELSE MaxFreq,
            !.pins[s] = @ + 1]

(* Mutants: the old expert stays in the map; the slot keeps its old ready  *)
(* flag; the counters are never halved.                                    *)
InsertMutant(c, id, s, mapped, ready, halved) ==
  LET p     == PartOf(id)
      decay == c.inserts[p] + 1 >= DecayInterval
      used  == [c.freq EXCEPT ![s] = 1]
  IN  [ id      |-> [c.id EXCEPT ![s] = id],
        freq    |-> [t \in Slots |->
                       IF halved /\ decay /\ t \in SlotsOf(p) THEN used[t] \div 2 ELSE used[t]],
        pins    |-> [c.pins EXCEPT ![s] = 1],
        ready   |-> [c.ready EXCEPT ![s] = ready],
        map     |-> [c.map EXCEPT ![p] =
                       [i \in Ids |-> IF i = id THEN s
                                      ELSE IF i = c.id[s] /\ ~mapped THEN NoSlot ELSE @[i]]],
        inserts |-> [c.inserts EXCEPT ![p] = IF decay THEN 0 ELSE @ + 1] ]

InsertKeepsMapping(c, id, s) == InsertMutant(c, id, s, TRUE, FALSE, TRUE)
InsertKeepsReady(c, id, s)   == InsertMutant(c, id, s, FALSE, c.ready[s], TRUE)
InsertNeverDecays(c, id, s)  == InsertMutant(c, id, s, FALSE, FALSE, FALSE)

(* A miss: the victim's old expert leaves the partition's map, the new one *)
(* claims the slot, pinned and not ready; then the insertion is counted,   *)
(* and every decay_interval insertions the partition's counters halve.     *)
Insert(c, id, s) ==
  LET p     == PartOf(id)
      decay == c.inserts[p] + 1 >= DecayInterval
      used  == [c.freq EXCEPT ![s] = 1]
  IN  [ id      |-> [c.id EXCEPT ![s] = id],
        freq    |-> [t \in Slots |->
                       IF decay /\ t \in SlotsOf(p) THEN used[t] \div 2 ELSE used[t]],
        pins    |-> [c.pins EXCEPT ![s] = 1],
        ready   |-> [c.ready EXCEPT ![s] = FALSE],
        map     |-> [c.map EXCEPT ![p] =
                       [i \in Ids |-> IF i = id THEN s
                                      ELSE IF i = c.id[s] THEN NoSlot ELSE @[i]]],
        inserts |-> [c.inserts EXCEPT ![p] = IF decay THEN 0 ELSE @ + 1] ]

(* acquire as a whole, for the id and the slot it answers with.            *)
AcquireSlot(c, id) ==
  IF Resident(c, id) THEN SlotFor(c, id) ELSE Victim(c, PartOf(id))

Acquire(c, id) ==
  IF Resident(c, id) THEN Pin(c, SlotFor(c, id))
                     ELSE Insert(c, id, Victim(c, PartOf(id)))

(* lookup_ready: a resident expert that is still being filled is a miss.   *)
ReadyHit(c, id) == Resident(c, id) /\ c.ready[SlotFor(c, id)]

Publish(c, s) == [c EXCEPT !.ready[s] = TRUE]

(* Mutant: release clears the slot's pins instead of taking one off.       *)
ReleaseAll(c, s) == [c EXCEPT !.pins[s] = 0]

(* release asserts pins > 0: callers guard it.                             *)
Release(c, s) == [c EXCEPT !.pins[s] = @ - 1]

DecayAll(c) ==
  [c EXCEPT !.freq    = [s \in Slots |-> c.freq[s] \div 2],
            !.inserts = [p \in PartIds |-> 0]]
=============================================================================
