----------------------------- MODULE ExpertCache -----------------------------
(***************************************************************************)
(* ExpertCache as a state machine: the cache record and the users of its   *)
(* API, who follow the protocol its comments state.  A user that acquires  *)
(* an expert holds a handle; a user whose acquire missed owes the fill and *)
(* publishes before its handle goes back.                                  *)
(*                                                                         *)
(* A user stands for one outstanding pin: a thread that holds an expert    *)
(* twice, or a prefetch job that pins a slot until its fill is done, is a  *)
(* user of its own.                                                        *)
(***************************************************************************)
EXTENDS ExpertCacheOps, FiniteSets

CONSTANTS
  Users,        (* holders of pins                                         *)
  MaxRetired    (* bound: experts the workload stops asking for            *)

VARIABLES
  cache,        (* the bookkeeping                                         *)
  handles,      (* outstanding pins: user, expert, slot                    *)
  filling,      (* the handles whose owner still has to publish            *)
  retired       (* experts the workload no longer asks for                 *)

vars == <<cache, handles, filling, retired>>

Handles == [user : Users, id : Ids, slot : Slots]

Holds(u, id) == \E h \in handles : h.user = u /\ h.id = id

Init ==
  /\ cache = EmptyCache
  /\ handles = {}
  /\ filling = {}
  /\ retired = {}

-----------------------------------------------------------------------------
(* acquire answers Hit: the slot may still be in flight.                   *)
Hit(u, id) ==
  /\ id \notin retired /\ ~Holds(u, id)
  /\ Hits(cache, id)
  /\ cache' = Acquire(cache, id)
  /\ handles' = handles \union {[user |-> u, id |-> id, slot |-> AcquireSlot(cache, id)]}
  /\ UNCHANGED <<filling, retired>>

(* acquire answers Miss: the caller owns the fetch.                        *)
Miss(u, id) ==
  /\ id \notin retired /\ ~Holds(u, id)
  /\ Misses(cache, id)
  /\ cache' = Acquire(cache, id)
  /\ LET h == [user |-> u, id |-> id, slot |-> AcquireSlot(cache, id)]
     IN  /\ handles' = handles \union {h}
         /\ filling' = filling \union {h}
  /\ UNCHANGED retired

(* lookup_ready: pins only an expert that is resident and published.       *)
LookupReady(u, id) ==
  /\ id \notin retired /\ ~Holds(u, id)
  /\ ReadyHit(cache, id)
  /\ cache' = Pin(cache, SlotFor(cache, id))
  /\ handles' = handles \union {[user |-> u, id |-> id, slot |-> SlotFor(cache, id)]}
  /\ UNCHANGED <<filling, retired>>

PublishFill(h) ==
  /\ h \in filling
  /\ cache' = Publish(cache, h.slot)
  /\ filling' = filling \ {h}
  /\ UNCHANGED <<handles, retired>>

ReleaseHandle(h) ==
  /\ h \in handles \ filling
  /\ cache' = Release(cache, h.slot)
  /\ handles' = handles \ {h}
  /\ UNCHANGED <<filling, retired>>

(* The pager's tick: a shared pool ages at the end of a token.             *)
Tick ==
  /\ cache' = DecayAll(cache)
  /\ UNCHANGED <<handles, filling, retired>>

(* The workload shifts: an expert is not asked for again.                  *)
Retire(id) ==
  /\ retired = {} /\ MaxRetired > 0
  /\ retired' = retired \union {id}
  /\ UNCHANGED <<cache, handles, filling>>

Use ==
  \/ \E u \in Users, id \in Ids : Hit(u, id) \/ Miss(u, id) \/ LookupReady(u, id)
  \/ \E h \in handles : PublishFill(h) \/ ReleaseHandle(h)
  \/ \E id \in Ids : Retire(id)

Next == Use \/ Tick

Spec == Init /\ [][Next]_vars

-----------------------------------------------------------------------------
(* Ageing of a per-layer cache, which counts insertions and is never       *)
(* ticked.                                                                 *)

Fairness ==
  \A u \in Users, id \in Ids, s \in Slots :
    LET h == [user |-> u, id |-> id, slot |-> s]
    IN  WF_vars(PublishFill(h)) /\ WF_vars(ReleaseHandle(h))

LayerSpec == Init /\ [][Use]_vars /\ Fairness

-----------------------------------------------------------------------------
(* Type correctness of the bookkeeping and of its users' handles.          *)
TypeOK ==
  /\ cache \in CacheType
  /\ handles \subseteq Handles /\ IsFiniteSet(handles)
  /\ filling \subseteq handles
  /\ retired \subseteq Ids

(* The maps and the slots say the same thing: an id is mapped, by its own  *)
(* partition only, exactly to the slot that records it, and an expert sits *)
(* in a slot of its own partition.  acquire updates both sides of an       *)
(* eviction and looks a victim's id up in the partition of the newcomer.   *)
MapMatchesSlots ==
  /\ \A p \in PartIds, i \in Ids, s \in Slots :
       cache.map[p][i] = s <=> p = PartOf(i) /\ cache.id[s] = i
  /\ \A i \in Ids, s \in Slots :
       cache.id[s] = i => s \in SlotsOf(PartOf(i))

(* A handle's slot keeps its expert until the handle is released: acquire  *)
(* never evicts what a fetch or a forward pass is using.                   *)
HandlesStayValid == \A h \in handles : cache.id[h.slot] = h.id

(* A slot is unpublished exactly while it is empty or one holder owes its  *)
(* fill; that holder is unique, so a slot never has two writers.           *)
OneFillPerSlot ==
  /\ \A s \in Slots :
       ~cache.ready[s] <=> cache.id[s] = NoId \/ \E h \in filling : h.slot = s
  /\ \A g, h \in filling : g.slot = h.slot => g = h

(* The pins of a slot are its handles, neither more nor fewer: none is     *)
(* lost in an eviction, so release never meets a slot without pins and a   *)
(* slot whose users are gone can be evicted.                               *)
HandlesOn(s) == {h \in handles : h.slot = s}

PinsCountHandles == \A s \in Slots : cache.pins[s] = Cardinality(HandlesOn(s))

(* "Long-dead experts cannot pin the cache forever": while the partition   *)
(* keeps inserting, an expert nobody asks for any more leaves it.          *)
RetiredExpertLeaves ==
  \A r \in Ids :
    []<><<\E u \in Users, i \in Ids : PartOf(i) = PartOf(r) /\ Miss(u, i)>>_vars
      => (r \in retired ~> ~Resident(cache, r))

(* The cache keeps the promise of a slot pool, whatever its policy.        *)
Pool == INSTANCE SlotPool WITH
  Home    <- [i \in Ids |-> SlotsOf(PartOf(i))],
  None    <- NoId,
  content <- cache.id,
  filled  <- cache.ready,
  holders <- [s \in Slots |-> {h.user : h \in HandlesOn(s)}]

PoolPromise == Pool!Spec
=============================================================================
