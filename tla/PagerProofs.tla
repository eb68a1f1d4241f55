----------------------------- MODULE PagerProofs -----------------------------
(***************************************************************************)
(* Proofs about Pager, for any number of clients, io workers, slots, slabs *)
(* and experts, and any routes, prefetches and profiles.                   *)
(***************************************************************************)
EXTENDS Pager, SharedProofs

-----------------------------------------------------------------------------
(* The RAM tier's record is a cache of one partition: the lemmas about the *)
(* operators hold of it as well.                                           *)
RamP == INSTANCE SharedProofs WITH
  Parts <- 1, SlotsPerPart <- RamSlots, IdsPerPart <- NumIds,
  DecayInterval <- 4 * RamSlots

(* The tier's parameters are what a cache may have.                        *)
LEMMA RamParameters ==
  /\ 1 \in Nat \ {0} /\ RamSlots \in Nat \ {0} /\ NumIds \in Nat \ {0}
  /\ 4 * RamSlots \in Nat \ {0} /\ MaxFreq \in Nat \ {0}
BY CacheAssumption, PagerAssumption

(* The pager's names for the tier's operators and the lemmas' are one.     *)
LEMMA RamNames ==
  /\ Ram!Slots = RamP!Slots /\ Ram!Ids = Ids /\ RamP!Ids = Ids
  /\ Ram!CacheType = RamP!CacheType
  /\ Ram!EmptyCache = RamP!EmptyCache
  /\ \A t, i : Ram!ReadyHit(t, i) <=> RamP!ReadyHit(t, i)
  /\ \A t, i : Ram!SlotFor(t, i) = RamP!SlotFor(t, i)
  /\ \A t, i : Ram!Hits(t, i) <=> RamP!Hits(t, i)
  /\ \A t, i : Ram!Misses(t, i) <=> RamP!Misses(t, i)
  /\ \A t, i : Ram!AcquireSlot(t, i) = RamP!AcquireSlot(t, i)
  /\ \A t, i : Ram!Acquire(t, i) = RamP!Acquire(t, i)
  /\ \A t, s : Ram!Pin(t, s) = RamP!Pin(t, s)
  /\ \A t, s : Ram!Publish(t, s) = RamP!Publish(t, s)
  /\ \A t, s : Ram!Release(t, s) = RamP!Release(t, s)
<1>1. Ram!Slots = RamP!Slots /\ Ram!Ids = Ids /\ RamP!Ids = Ids /\ Ram!PartIds = RamP!PartIds
      /\ Ram!NoId = RamP!NoId /\ Ram!NoSlot = RamP!NoSlot
  BY DEF Ram!Slots, RamP!Slots, Ram!Ids, RamP!Ids, Ids, Ram!PartIds, RamP!PartIds,
         Ram!NoId, RamP!NoId, Ram!NoSlot, RamP!NoSlot
<1>2. Ram!CacheType = RamP!CacheType /\ Ram!EmptyCache = RamP!EmptyCache
  BY <1>1 DEF Ram!CacheType, RamP!CacheType, Ram!EmptyCache, RamP!EmptyCache
<1>3. \A i : Ram!PartOf(i) = RamP!PartOf(i)
  BY DEF Ram!PartOf, RamP!PartOf, Ram!LayerOf, RamP!LayerOf
<1>4. \A p : Ram!SlotsOf(p) = RamP!SlotsOf(p)
  BY <1>1 DEF Ram!SlotsOf, RamP!SlotsOf
<1>5. /\ \A t, i : Ram!SlotFor(t, i) = RamP!SlotFor(t, i)
      /\ \A t, i : Ram!Resident(t, i) <=> RamP!Resident(t, i)
      /\ \A t, p : Ram!Unpinned(t, p) = RamP!Unpinned(t, p)
  BY <1>1, <1>3, <1>4 DEF Ram!SlotFor, RamP!SlotFor, Ram!Resident, RamP!Resident,
                         Ram!Unpinned, RamP!Unpinned
<1>6. \A t, p : Ram!Victim(t, p) = RamP!Victim(t, p)
  BY DEF Ram!Victim, RamP!Victim, Ram!IsVictim, RamP!IsVictim,
         Ram!Unpinned, RamP!Unpinned, Ram!SlotsOf, RamP!SlotsOf,
         Ram!Slots, RamP!Slots, Ram!VictimKey, RamP!VictimKey,
         Ram!Occupied, RamP!Occupied, Ram!NoId, RamP!NoId
<1>7. /\ \A t, s : Ram!Pin(t, s) = RamP!Pin(t, s)
      /\ \A t, s : Ram!Publish(t, s) = RamP!Publish(t, s)
      /\ \A t, s : Ram!Release(t, s) = RamP!Release(t, s)
  BY DEF Ram!Pin, RamP!Pin, Ram!Publish, RamP!Publish, Ram!Release, RamP!Release
<1>8. \A t, i, s : Ram!Insert(t, i, s) = RamP!Insert(t, i, s)
  BY DEF Ram!Insert, RamP!Insert, Ram!PartOf, RamP!PartOf, Ram!LayerOf,
         RamP!LayerOf, Ram!SlotsOf, RamP!SlotsOf, Ram!Slots, RamP!Slots,
         Ram!Ids, RamP!Ids, Ram!PartIds, RamP!PartIds, Ram!NoSlot,
         RamP!NoSlot
<1>9. /\ \A t, i : Ram!ReadyHit(t, i) <=> RamP!ReadyHit(t, i)
      /\ \A t, i : Ram!Hits(t, i) <=> RamP!Hits(t, i)
      /\ \A t, i : Ram!Misses(t, i) <=> RamP!Misses(t, i)
  BY <1>3, <1>5 DEF Ram!ReadyHit, RamP!ReadyHit, Ram!Hits, RamP!Hits, Ram!Misses, RamP!Misses
<1>10. /\ \A t, i : Ram!AcquireSlot(t, i) = RamP!AcquireSlot(t, i)
       /\ \A t, i : Ram!Acquire(t, i) = RamP!Acquire(t, i)
  BY <1>3, <1>5, <1>6, <1>7, <1>8 DEF Ram!AcquireSlot, RamP!AcquireSlot, Ram!Acquire, RamP!Acquire
<1>. QED  BY <1>1, <1>2, <1>5, <1>7, <1>9, <1>10

-----------------------------------------------------------------------------
(* The inductive invariant.                                                *)

(* A job that no handle of its client stands for: one not yet sent, or a   *)
(* prefetch, whose pin goes back when the fill is over.                    *)
IsUnsent(k) == k[3].prefetch \/ k[1] = "client"
Unsent(s)   == IF \E k \in CarriersOf(s) : IsUnsent(k) THEN 1 ELSE 0
Owners(s)   == Cardinality(Pinners(s)) + Cardinality(Leaks(s))

(* What a device slot's two records, its pins and its jobs have to do with *)
(* one another.  A slot in flight stays pinned: if not, an acquire could   *)
(* claim it for another expert before its fill is over.                    *)
OneJob(s) ==
  /\ fill[s] = "InFlight" =>
       \/ \E k \in CarriersOf(s) : CarriersOf(s) = {k} /\ k[3].id = cache.id[s]
       \/ CarriersOf(s) = {} /\ NoneAlive
  /\ fill[s] # "InFlight" => CarriersOf(s) = {}

PinsOwned(s) ==
  \/ cache.pins[s] = Owners(s) + Unsent(s)
  \/ cache.pins[s] = Owners(s) + 1 /\ NoneAlive /\ CarriersOf(s) = {} /\ fill[s] = "InFlight"

SlotOK(s) ==
  /\ fill[s] = "Ready" <=> cache.ready[s]
  /\ fill[s] = "Empty" <=> cache.id[s] = NoId
  /\ OneJob(s)
  /\ fill[s] = "InFlight" => cache.pins[s] > 0
  /\ PinsOwned(s)

(* A client's request: the experts it still has to acquire are not among   *)
(* those it has handles for, and a handle is in one place.                 *)
HandleIds(c) == {h.id : h \in out[c] \union held[c] \union usable[c]}

ClientOK(c) ==
  /\ out[c] \intersect held[c] = {}
  /\ out[c] \intersect usable[c] = {}
  /\ held[c] \intersect usable[c] = {}
  /\ \A i, j \in DOMAIN todo[c] : todo[c][i] = todo[c][j] => i = j
  /\ \A i \in DOMAIN todo[c] : todo[c][i] \notin HandleIds(c)
  /\ pc[c] \in {"acquire", "stalled", "send"} => todo[c] # <<>>
  /\ pc[c] = "send" => sending[c].id = Head(todo[c]) /\ ~sending[c].prefetch
  /\ pc[c] = "sendPrefetch" => sending[c].prefetch
  /\ pc[c] \in {"ready", "sendPrefetch", "waiting", "asleep"} => out[c] = {}

(* A handle's slot keeps its expert, and stays filled once waited for.     *)
HandlesOK(c) ==
  /\ \A h \in out[c] \union held[c] \union usable[c] : cache.id[h.slot] = h.id
  /\ \A h \in usable[c] : fill[h.slot] = "Ready"

(* With a zstd pack and a RAM tier, a copy of the slab is cut short: see   *)
(* the run pager_compressed.                                               *)
Raw == ~(Compressed /\ HasRam)

DevOK(s) == Raw /\ fill[s] = "Ready" => dev[s] = Whole(cache.id[s])

(* A worker's buffer holds its job's expert from the read or the copy of a *)
(* slab on, and the job's slot does when the fill is published.            *)
WorkerOK(w) ==
  /\ wpc[w] \in {"ramGet", "ramCopy", "ramRelease", "copyStored"} => HasRam
  /\ wpc[w] \in {"ramRelease", "copyStored", "ramPut", "ramWrite", "ramPublish", "copyRaw"} =>
       buf[w] = Whole(job[w].id)
  /\ Raw /\ wpc[w] = "publish" => dev[job[w].slot] = Whole(job[w].id)

(* The workers that have a slab pinned, to read it or to fill it.          *)
ReadsSlab(w)  == wpc[w] \in {"ramCopy", "ramRelease"}
FillsSlab(w)  == wpc[w] \in {"ramWrite", "ramPublish"}
SlabUsers(s)  == {w \in Workers : (ReadsSlab(w) \/ FillsSlab(w)) /\ rslot[w] = s}

SlabOK(s) ==
  /\ ram.pins[s] = Cardinality(SlabUsers(s))
  /\ ram.ready[s] => slab[s] = Whole(ram.id[s])

UserOK(w) ==
  /\ ReadsSlab(w) => ram.ready[rslot[w]] /\ ram.id[rslot[w]] = job[w].id
  /\ FillsSlab(w) =>
       /\ ~ram.ready[rslot[w]] /\ ram.id[rslot[w]] = job[w].id
       /\ \A v \in Workers \ {w} : v \notin SlabUsers(rslot[w])
  /\ wpc[w] = "ramPublish" => slab[rslot[w]] = Whole(job[w].id)

RamOK ==
  /\ RamP!MapsPoint(ram)
  /\ \A s \in Ram!Slots : SlabOK(s)
  /\ \A w \in Workers : UserOK(w)

IInv ==
  /\ TypeOK
  /\ MapsPoint(cache)
  /\ \A s \in Slots : SlotOK(s) /\ DevOK(s)
  /\ \A c \in Clients : ClientOK(c) /\ HandlesOK(c)
  /\ \A w \in Workers : WorkerOK(w)
  /\ RamOK

-----------------------------------------------------------------------------
(* Jobs and their carriers.                                                *)

(* Where the job of a slot may be.                                         *)
LEMMA CarrierIs ==
  ASSUME NEW s, NEW k
  PROVE  k \in CarriersOf(s) <=>
           \/ \E c \in Clients : Sending(c) /\ k = <<"client", c, sending[c]>> /\ sending[c].slot = s
           \/ \E i \in DOMAIN queue : k = <<"channel", i, queue[i]>> /\ queue[i].slot = s
           \/ \E w \in Workers : Working(w) /\ k = <<"worker", w, job[w]>> /\ job[w].slot = s
BY DEF CarriersOf, Carriers

(* The same after a step.                                                  *)
LEMMA CarrierWillBe ==
  ASSUME NEW s, NEW k
  PROVE  k \in CarriersOf(s)' <=>
           \/ \E c \in Clients : /\ Sending(c)' /\ k = <<"client", c, sending'[c]>>
                                /\ sending'[c].slot = s
           \/ \E i \in DOMAIN queue' : k = <<"channel", i, queue'[i]>> /\ queue'[i].slot = s
           \/ \E w \in Workers : Working(w)' /\ k = <<"worker", w, job'[w]>> /\ job'[w].slot = s
BY DEF CarriersOf, Carriers

(* Nobody takes or gives a job.                                            *)
LEMMA SameCarriers ==
  ASSUME UNCHANGED <<queue, sending, job>>,
         \A c \in Clients : Sending(c)' <=> Sending(c),
         \A w \in Workers : Working(w)' <=> Working(w),
         NEW s
  PROVE  CarriersOf(s)' = CarriersOf(s)
BY DEF CarriersOf, Carriers

(* Nobody takes or gives a handle.                                         *)
LEMMA SameOwners ==
  ASSUME \A c \in Clients : (out[c] \union held[c] \union usable[c])'
                             = out[c] \union held[c] \union usable[c],
         UNCHANGED leaked, NEW s
  PROVE  Owners(s)' = Owners(s)
<1>1. Pinners(s)' = Pinners(s) /\ Leaks(s)' = Leaks(s)
  BY DEF Pinners, Leaks
<1>. QED  BY <1>1 DEF Owners

(* A slot nothing happens to.                                              *)
LEMMA SlotKept ==
  ASSUME NEW s, SlotOK(s), NoneAlive => NoneAlive',
         cache'.ready[s] <=> cache.ready[s], cache'.id[s] = cache.id[s],
         cache'.pins[s] = cache.pins[s], fill'[s] = fill[s],
         CarriersOf(s)' = CarriersOf(s), Owners(s)' = Owners(s)
  PROVE  SlotOK(s)'
<1>1. Unsent(s)' = Unsent(s)
  BY DEF Unsent, IsUnsent
<1>. QED  BY <1>1 DEF SlotOK, OneJob, PinsOwned

(* One job on a slot tells whether one of its pins awaits a send or a      *)
(* prefetch.                                                               *)
LEMMA UnsentIs ==
  ASSUME NEW s
  PROVE  /\ Unsent(s) \in {0, 1}
         /\ CarriersOf(s) = {} => Unsent(s) = 0
         /\ \A k : CarriersOf(s) = {k} => Unsent(s) = IF IsUnsent(k) THEN 1 ELSE 0
         /\ Unsent(s)' \in {0, 1}
         /\ CarriersOf(s)' = {} => Unsent(s)' = 0
         /\ \A k : CarriersOf(s)' = {k} => Unsent(s)' = IF IsUnsent(k) THEN 1 ELSE 0
BY DEF Unsent, IsUnsent

(* There are finitely many handles, hence finitely many owners of a slot.  *)
LEMMA OwnersFinite ==
  ASSUME NEW s
  PROVE  /\ IsFiniteSet(Pinners(s)) /\ IsFiniteSet(Leaks(s))
         /\ Cardinality(Pinners(s)) \in Nat /\ Cardinality(Leaks(s)) \in Nat
         /\ Owners(s) \in Nat
<1>1. IsFiniteSet(Ids) /\ IsFiniteSet(Slots)
  BY FS_Interval, CacheAssumption DEF Ids, Slots
<1>2. IsFiniteSet(Ids \X Slots)
  BY <1>1, FS_Product
<1>. DEFINE f == [x \in Ids \X Slots |-> [id |-> x[1], slot |-> x[2]]]
<1>3. f \in Surjection(Ids \X Slots, Handles)
  <2>1. f \in [Ids \X Slots -> Handles]
    BY DEF Handles
  <2>2. ASSUME NEW h \in Handles
        PROVE  \E x \in Ids \X Slots : f[x] = h
    <3>1. <<h.id, h.slot>> \in Ids \X Slots /\ h = [id |-> h.id, slot |-> h.slot]
      BY DEF Handles
    <3>. QED  BY <3>1
  <2>. QED  BY <2>1, <2>2 DEF Surjection
<1>4. IsFiniteSet(Handles)
  BY <1>2, <1>3, FS_Surjection
<1>5. IsFiniteSet(Clients \X Handles)
  BY <1>4, PagerAssumption, FS_Product
<1>6. Pinners(s) \subseteq Clients \X Handles /\ Leaks(s) \subseteq Clients \X Handles
  BY DEF Pinners, Leaks
<1>7. IsFiniteSet(Pinners(s)) /\ IsFiniteSet(Leaks(s))
  BY <1>5, <1>6, FS_Subset
<1>8. Cardinality(Pinners(s)) \in Nat /\ Cardinality(Leaks(s)) \in Nat
  BY <1>7, FS_CardinalityType
<1>. QED  BY <1>7, <1>8 DEF Owners

(* A slot without pins has neither a handle nor a job.                     *)
LEMMA UnpinnedIdle ==
  ASSUME IInv, NEW s \in Slots, cache.pins[s] = 0
  PROVE  /\ Owners(s) = 0 /\ Pinners(s) = {} /\ Leaks(s) = {}
         /\ CarriersOf(s) = {}
<1>1. SlotOK(s) /\ Owners(s) \in Nat /\ Unsent(s) \in {0, 1}
  BY OwnersFinite, UnsentIs DEF IInv
<1>2. Owners(s) = 0
  BY <1>1 DEF SlotOK, PinsOwned
<1>3. Cardinality(Pinners(s)) = 0 /\ Cardinality(Leaks(s)) = 0
  BY <1>2, OwnersFinite DEF Owners
<1>4. Pinners(s) = {} /\ Leaks(s) = {}
  BY <1>3, OwnersFinite, FS_EmptySet
<1>5. CarriersOf(s) = {}
  BY <1>1 DEF SlotOK, OneJob
<1>. QED  BY <1>2, <1>4, <1>5

(* A handle that is out, held or usable pins its slot.                     *)
LEMMA HandlePins ==
  ASSUME IInv, NEW c \in Clients, NEW h \in out[c] \union held[c] \union usable[c]
  PROVE  h \in Handles /\ h.slot \in Slots /\ cache.pins[h.slot] \in Nat /\ cache.pins[h.slot] > 0
<1>1. h \in Handles /\ h.slot \in Slots /\ h.id \in Ids
  BY DEF IInv, TypeOK, Locals, Handles
<1>2. <<c, h>> \in Pinners(h.slot)
  BY <1>1 DEF Pinners
<1>3. cache.pins[h.slot] # 0
  BY <1>1, <1>2, UnpinnedIdle
<1>4. cache.pins[h.slot] \in Nat
  BY <1>1 DEF IInv, TypeOK, CacheType
<1>. QED  BY <1>1, <1>3, <1>4

-----------------------------------------------------------------------------
(* What a step leaves alone stays as it is.                                *)

(* A client's step leaves the workers, the tier and the device alone.      *)
LEMMA WorkersAside ==
  ASSUME IInv, UNCHANGED <<ramVars, dev, workerVars>>
  PROVE  /\ \A w \in Workers : WorkerOK(w)'
         /\ RamOK'
         /\ NoneAlive' <=> NoneAlive
         /\ \A w \in Workers : Working(w)' <=> Working(w)
         /\ ram' \in Ram!CacheType /\ slab' \in [Ram!Slots -> Contents]
         /\ dev' \in [Slots -> Contents]
<1>. USE DEF ramVars, workerVars
<1>1. \A w \in Workers : WorkerOK(w)'
  BY DEF IInv, WorkerOK
<1>2. RamOK'
  BY DEF IInv, RamOK, SlabOK, UserOK, ReadsSlab, FillsSlab, SlabUsers
<1>3. (NoneAlive' <=> NoneAlive) /\ \A w \in Workers : Working(w)' <=> Working(w)
  BY DEF NoneAlive, Alive, Working
<1>4. ram' \in Ram!CacheType /\ slab' \in [Ram!Slots -> Contents] /\ dev' \in [Slots -> Contents]
  BY DEF IInv, TypeOK
<1>. QED  BY <1>1, <1>2, <1>3, <1>4

(* A client to which nothing happens but that it is notified.              *)
LEMMA ClientAside ==
  ASSUME IInv, NEW d \in Clients,
         out'[d] = out[d], held'[d] = held[d], usable'[d] = usable[d], todo'[d] = todo[d],
         sending'[d] = sending[d],
         \/ pc'[d] = pc[d]
         \/ pc[d] = "stalled" /\ pc'[d] = "acquire"
         \/ pc[d] = "asleep" /\ pc'[d] = "waiting"
  PROVE  ClientOK(d)'
<1>1. ClientOK(d)
  BY DEF IInv
<1>. QED  BY <1>1 DEF ClientOK, HandleIds

(* A slot whose records, jobs and owners do not change.                    *)
LEMMA SlotsAside ==
  ASSUME IInv, UNCHANGED <<cache, fill, dev>>, NoneAlive => NoneAlive',
         \A s : CarriersOf(s)' = CarriersOf(s), \A s : Owners(s)' = Owners(s)
  PROVE  /\ MapsPoint(cache)'
         /\ \A s \in Slots : SlotOK(s)' /\ DevOK(s)'
<1>1. ASSUME NEW s \in Slots
      PROVE  SlotOK(s)'
  <2>1. SlotOK(s)
    BY DEF IInv
  <2>. QED  BY <2>1, SlotKept
<1>2. MapsPoint(cache)' /\ \A s \in Slots : DevOK(s)'
  BY DEF IInv, MapsPoint, DevOK
<1>. QED  BY <1>1, <1>2

(* A client that gets no handle and waits for none.                        *)
LEMMA HandlesAside ==
  ASSUME IInv, NEW d \in Clients, UNCHANGED <<cache, fill>>,
         out'[d] \union held'[d] \union usable'[d] \subseteq out[d] \union held[d] \union usable[d],
         usable'[d] \subseteq usable[d]
  PROVE  HandlesOK(d)'
<1>1. HandlesOK(d)
  BY DEF IInv
<1>. QED  BY <1>1 DEF HandlesOK

-----------------------------------------------------------------------------
(* Clients.                                                                *)

(* A request starts with experts the client holds no handle for.           *)
LEMMA RequestKeeps ==
  ASSUME IInv, NEW c \in Clients, NEW q \in Routes, Request(c, q)
  PROVE  IInv'
<1>. USE DEF Request, lockVars, ramVars, workerVars
<1>1. q \in Seq(Ids) /\ q # <<>> /\ \A i, j \in DOMAIN q : q[i] = q[j] => i = j
  BY PagerAssumption
<1>2. pc[c] = "ready" /\ pc' = [pc EXCEPT ![c] = "acquire"] /\ todo' = [todo EXCEPT ![c] = q]
  OBVIOUS
<1>3. /\ pc \in [Clients -> {"ready", "acquire", "send", "stalled", "sendPrefetch", "waiting",
                             "asleep", "failed", "panicked"}]
      /\ todo \in [Clients -> Seq(Ids)]
  BY DEF IInv, TypeOK, Locals
<1>4. TypeOK'
  BY <1>1, <1>2, <1>3 DEF IInv, TypeOK, Locals
<1>5. \A d \in Clients : Sending(d)' <=> Sending(d)
  BY <1>2, <1>3 DEF Sending
<1>6. MapsPoint(cache)' /\ \A s \in Slots : SlotOK(s)' /\ DevOK(s)'
  BY <1>5, WorkersAside, SameCarriers, SameOwners, SlotsAside
<1>7. ASSUME NEW d \in Clients
      PROVE  ClientOK(d)' /\ HandlesOK(d)'
  <2>1. HandlesOK(d)'
    BY HandlesAside
  <2>2. CASE d = c
    <3>1. ClientOK(c) /\ out[c] = {}
      BY <1>2 DEF IInv, ClientOK
    <3>2. \A i \in DOMAIN q : q[i] \notin HandleIds(c)
      BY <3>1 DEF HandleIds
    <3>. QED  BY <1>1, <1>2, <1>3, <2>1, <2>2, <3>1, <3>2 DEF ClientOK, HandleIds
  <2>3. CASE d # c
    BY <1>2, <1>3, <2>1, <2>3, ClientAside
  <2>. QED  BY <2>2, <2>3
<1>. QED  BY <1>4, <1>6, <1>7, WorkersAside DEF IInv

(* A stalled request sleeps, and looks again when the grace has passed.    *)
LEMMA StallKeeps ==
  ASSUME IInv, NEW c \in Clients,
         \/ AcquireStall(c)
         \/ StallTimeout(c) /\ ~IsWedged(cache, Head(todo[c]))
  PROVE  IInv'
<1>. USE DEF lockVars, ramVars, workerVars
<1>1. /\ UNCHANGED <<cache, fill, ramVars, dev, queue, todo, sending, out, held, target, usable,
                     leaked, workerVars>>
      /\ \/ pc[c] = "acquire" /\ pc' = [pc EXCEPT ![c] = "stalled"]
         \/ pc[c] = "stalled" /\ pc' = [pc EXCEPT ![c] = "acquire"]
  BY DEF AcquireStall, StallTimeout
<1>2. pc \in [Clients -> {"ready", "acquire", "send", "stalled", "sendPrefetch", "waiting",
                          "asleep", "failed", "panicked"}]
  BY DEF IInv, TypeOK, Locals
<1>3. TypeOK'
  BY <1>1, <1>2 DEF IInv, TypeOK, Locals
<1>4. \A d \in Clients : Sending(d)' <=> Sending(d)
  BY <1>1, <1>2 DEF Sending
<1>5. MapsPoint(cache)' /\ \A s \in Slots : SlotOK(s)' /\ DevOK(s)'
  BY <1>1, <1>4, WorkersAside, SameCarriers, SameOwners, SlotsAside
<1>6. ASSUME NEW d \in Clients
      PROVE  ClientOK(d)' /\ HandlesOK(d)'
  <2>1. HandlesOK(d)'
    BY <1>1, HandlesAside
  <2>2. CASE d = c
    <3>1. ClientOK(c)
      BY DEF IInv
    <3>. QED  BY <1>1, <1>2, <2>1, <2>2, <3>1 DEF ClientOK, HandleIds
  <2>3. CASE d # c
    BY <1>1, <1>2, <2>1, <2>3, ClientAside
  <2>. QED  BY <2>2, <2>3
<1>. QED  BY <1>1, <1>3, <1>5, <1>6, WorkersAside DEF IInv

(* The handles of a request that fails are dropped with their pins: owners *)
(* become leaks, one for one.                                              *)
LEMMA DroppedOwners ==
  ASSUME IInv, NEW c \in Clients, leaked[c] = {},
         out' = [out EXCEPT ![c] = {}], leaked' = [leaked EXCEPT ![c] = out[c]],
         UNCHANGED <<held, usable>>, NEW s
  PROVE  Owners(s)' = Owners(s)
<1>. DEFINE X == {u \in Clients \X Handles : u[1] = c /\ u[2] \in out[c] /\ u[2].slot = s}
<1>1. out \in [Clients -> SUBSET Handles] /\ leaked \in [Clients -> SUBSET Handles]
  BY DEF IInv, TypeOK, Locals
<1>2. out[c] \intersect held[c] = {} /\ out[c] \intersect usable[c] = {}
  BY DEF IInv, ClientOK
<1>3. PICK P, L, N, M : P = Pinners(s) /\ L = Leaks(s) /\ N = Pinners(s)' /\ M = Leaks(s)'
  OBVIOUS
<1>4. /\ \A u : u \in N <=> u \in P /\ ~(u[1] = c /\ u[2] \in out[c])
      /\ \A u : u \in P /\ (u[1] = c /\ u[2] \in out[c]) <=> u \in X
  BY <1>1, <1>2, <1>3 DEF Pinners
<1>5. \A u : u \in M <=> u \in L \/ u \in X
  BY <1>1, <1>3 DEF Leaks
<1>6. L \intersect X = {}
  BY <1>3 DEF Leaks
<1>7. PICK Y : Y = X
  OBVIOUS
<1>8. P = N \union Y /\ N \intersect Y = {} /\ M = L \union Y /\ L \intersect Y = {}
  BY <1>4, <1>5, <1>6, <1>7
<1>9. IsFiniteSet(P) /\ IsFiniteSet(L) /\ Y \subseteq P /\ N \subseteq P
  BY <1>3, <1>8, OwnersFinite
<1>10. IsFiniteSet(Y) /\ IsFiniteSet(N)
  BY <1>9, FS_Subset
<1>11. /\ Cardinality(P) = Cardinality(N) + Cardinality(Y) - Cardinality({})
       /\ Cardinality(M) = Cardinality(L) + Cardinality(Y) - Cardinality({})
  <2>1. Cardinality(P) = Cardinality(N) + Cardinality(Y) - Cardinality(N \intersect Y)
    BY <1>8, <1>10, FS_Union
  <2>2. Cardinality(M) = Cardinality(L) + Cardinality(Y) - Cardinality(L \intersect Y)
    BY <1>8, <1>9, <1>10, FS_Union
  <2>. QED  BY <1>8, <2>1, <2>2
<1>12. /\ Cardinality(P) \in Nat /\ Cardinality(N) \in Nat
       /\ Cardinality(L) \in Nat /\ Cardinality(Y) \in Nat /\ Cardinality({}) = 0
  BY <1>9, <1>10, FS_CardinalityType, FS_EmptySet
<1>13. Cardinality(N) + Cardinality(M) = Cardinality(P) + Cardinality(L)
  BY <1>11, <1>12
<1>. QED  BY <1>3, <1>13 DEF Owners

(* A request on a wedged pool returns the error.                           *)
LEMMA WedgeKeeps ==
  ASSUME IInv, NEW c \in Clients, StallTimeout(c), IsWedged(cache, Head(todo[c]))
  PROVE  IInv'
<1>. USE DEF lockVars, ramVars, workerVars
<1>1. /\ pc[c] = "stalled"
      /\ pc' = [pc EXCEPT ![c] = IF leaked[c] = {} THEN "ready" ELSE "failed"]
      /\ todo' = [todo EXCEPT ![c] = <<>>]
      /\ out' = [out EXCEPT ![c] = IF leaked[c] = {} THEN {} ELSE @]
      /\ leaked' = [leaked EXCEPT ![c] = IF @ = {} THEN out[c] ELSE @]
      /\ UNCHANGED <<cache, fill, ramVars, dev, queue, sending, held, target, usable, workerVars>>
  BY DEF StallTimeout
<1>2. /\ pc \in [Clients -> {"ready", "acquire", "send", "stalled", "sendPrefetch", "waiting",
                             "asleep", "failed", "panicked"}]
      /\ todo \in [Clients -> Seq(Ids)]
      /\ out \in [Clients -> SUBSET Handles]
      /\ leaked \in [Clients -> SUBSET Handles]
  BY DEF IInv, TypeOK, Locals
<1>3. TypeOK'
  <2>1. /\ pc' \in [Clients -> {"ready", "acquire", "send", "stalled", "sendPrefetch", "waiting",
                                "asleep", "failed", "panicked"}]
        /\ todo' \in [Clients -> Seq(Ids)]
        /\ out' \in [Clients -> SUBSET Handles]
        /\ leaked' \in [Clients -> SUBSET Handles]
    BY <1>1, <1>2
  <2>. QED  BY <1>1, <2>1 DEF IInv, TypeOK, Locals
<1>4. \A d \in Clients : Sending(d)' <=> Sending(d)
  BY <1>1, <1>2 DEF Sending
<1>5. \A s : Owners(s)' = Owners(s)
  <2>1. CASE leaked[c] = {}
    <3>1. out' = [out EXCEPT ![c] = {}] /\ leaked' = [leaked EXCEPT ![c] = out[c]]
      BY <1>1, <1>2, <2>1
    <3>. QED  BY <1>1, <2>1, <3>1, DroppedOwners
  <2>2. CASE leaked[c] # {}
    <3>1. out' = out /\ leaked' = leaked
      BY <1>1, <1>2, <2>2
    <3>. QED  BY <1>1, <3>1, SameOwners
  <2>. QED  BY <2>1, <2>2
<1>6. MapsPoint(cache)' /\ \A s \in Slots : SlotOK(s)' /\ DevOK(s)'
  BY <1>1, <1>4, <1>5, WorkersAside, SameCarriers, SlotsAside
<1>7. ASSUME NEW d \in Clients
      PROVE  ClientOK(d)' /\ HandlesOK(d)'
  <2>1. HandlesOK(d)'
    BY <1>1, <1>2, HandlesAside
  <2>2. CASE d = c
    <3>1. ClientOK(c)
      BY DEF IInv
    <3>2. /\ todo'[c] = <<>> /\ held'[c] = held[c] /\ usable'[c] = usable[c]
          /\ \/ pc'[c] = "ready" /\ out'[c] = {}
             \/ pc'[c] = "failed" /\ out'[c] = out[c]
      BY <1>1, <1>2
    <3>. QED  BY <2>1, <2>2, <3>1, <3>2 DEF ClientOK, HandleIds
  <2>3. CASE d # c
    BY <1>1, <1>2, <2>1, <2>3, ClientAside
  <2>. QED  BY <2>2, <2>3
<1>. QED  BY <1>1, <1>3, <1>6, <1>7, WorkersAside DEF IInv

(* wait: the handle becomes usable when the slot's fill is over.           *)
LEMMA WaitKeeps ==
  ASSUME IInv, NEW c \in Clients, NEW h \in held[c], Wait(c, h)
  PROVE  IInv'
<1>. USE DEF lockVars, ramVars, workerVars
<1>1. /\ pc[c] \in {"ready", "waiting"}
      /\ \/ /\ fill[h.slot] = "Ready" /\ pc' = [pc EXCEPT ![c] = "ready"]
            /\ held' = [held EXCEPT ![c] = @ \ {h}]
            /\ usable' = [usable EXCEPT ![c] = @ \union {h}]
            /\ target' = [target EXCEPT ![c] = NoHandle]
         \/ /\ pc' = [pc EXCEPT ![c] = "asleep"]
            /\ target' = [target EXCEPT ![c] = h]
            /\ UNCHANGED <<held, usable>>
      /\ UNCHANGED <<cache, fill, ramVars, dev, queue, todo, sending, out, leaked, workerVars>>
  BY DEF Wait
<1>2. /\ pc \in [Clients -> {"ready", "acquire", "send", "stalled", "sendPrefetch", "waiting",
                             "asleep", "failed", "panicked"}]
      /\ held \in [Clients -> SUBSET Handles]
      /\ usable \in [Clients -> SUBSET Handles]
      /\ target \in [Clients -> Handles]
      /\ h \in Handles /\ NoHandle \in Handles
  <2>1. NoHandle \in Handles
    BY CacheAssumption DEF NoHandle, Handles, Ids, Slots
  <2>. QED  BY <2>1 DEF IInv, TypeOK, Locals
<1>3. TypeOK'
  <2>1. /\ pc' \in [Clients -> {"ready", "acquire", "send", "stalled", "sendPrefetch", "waiting",
                                "asleep", "failed", "panicked"}]
        /\ held' \in [Clients -> SUBSET Handles]
        /\ usable' \in [Clients -> SUBSET Handles]
        /\ target' \in [Clients -> Handles]
    BY <1>1, <1>2
  <2>. QED  BY <1>1, <2>1 DEF IInv, TypeOK, Locals
<1>4. \A d \in Clients : Sending(d)' <=> Sending(d)
  BY <1>1, <1>2 DEF Sending
<1>5. \A d \in Clients : (out[d] \union held[d] \union usable[d])'
                         = out[d] \union held[d] \union usable[d]
  BY <1>1, <1>2
<1>6. MapsPoint(cache)' /\ \A s \in Slots : SlotOK(s)' /\ DevOK(s)'
  BY <1>1, <1>4, <1>5, WorkersAside, SameCarriers, SameOwners, SlotsAside
<1>7. ASSUME NEW d \in Clients
      PROVE  ClientOK(d)' /\ HandlesOK(d)'
  <2>1. HandlesOK(d)'
    <3>1. HandlesOK(d)
      BY DEF IInv
    <3>2. \A g \in usable'[d] : fill[g.slot] = "Ready"
      BY <1>1, <1>2, <3>1 DEF HandlesOK
    <3>. QED  BY <1>1, <1>5, <3>1, <3>2 DEF HandlesOK
  <2>2. CASE d = c
    <3>1. ClientOK(c)
      BY DEF IInv
    <3>2. out[c] = {} /\ h \notin usable[c]
      BY <1>1, <3>1 DEF ClientOK
    <3>3. pc'[c] \in {"ready", "asleep"} /\ out'[c] = {} /\ held'[c] \intersect usable'[c] = {}
      BY <1>1, <1>2, <3>1, <3>2 DEF ClientOK
    <3>4. HandleIds(c)' = HandleIds(c)
      BY <1>5 DEF HandleIds
    <3>. QED  BY <1>1, <2>1, <2>2, <3>1, <3>3, <3>4 DEF ClientOK
  <2>3. CASE d # c
    BY <1>1, <1>2, <2>1, <2>3, ClientAside
  <2>. QED  BY <2>2, <2>3
<1>. QED  BY <1>1, <1>3, <1>6, <1>7, WorkersAside DEF IInv

(* A step that changes nothing but the counters of the bookkeeping.        *)
LEMMA CountersKeep ==
  ASSUME IInv, UNCHANGED <<fill, ramVars, dev, queue, clientVars, workerVars>>,
         cache' \in CacheType, MapsPoint(cache'), cache'.id = cache.id,
         cache'.ready = cache.ready, \A s \in Slots : cache'.pins[s] = cache.pins[s]
  PROVE  IInv'
<1>. USE DEF clientVars, ramVars, workerVars
<1>1. TypeOK'
  BY DEF IInv, TypeOK, Locals
<1>2. \A s : CarriersOf(s)' = CarriersOf(s) /\ Owners(s)' = Owners(s)
  <2>1. \A d \in Clients : Sending(d)' <=> Sending(d)
    BY DEF Sending
  <2>. QED  BY <2>1, WorkersAside, SameCarriers, SameOwners
<1>3. ASSUME NEW s \in Slots
      PROVE  SlotOK(s)' /\ DevOK(s)'
  <2>1. SlotOK(s) /\ DevOK(s)
    BY DEF IInv
  <2>2. SlotOK(s)'
    BY <1>2, <2>1, WorkersAside, SlotKept
  <2>. QED  BY <2>1, <2>2 DEF DevOK
<1>4. ASSUME NEW d \in Clients
      PROVE  ClientOK(d)' /\ HandlesOK(d)'
  <2>1. ClientOK(d)'
    BY ClientAside
  <2>2. HandlesOK(d)
    BY DEF IInv
  <2>. QED  BY <2>1, <2>2 DEF HandlesOK
<1>5. MapsPoint(cache)'
  BY DEF MapsPoint
<1>. QED  BY <1>1, <1>3, <1>4, <1>5, WorkersAside DEF IInv

(* prefetch of a resident expert.                                          *)
LEMMA PrefetchHitKeeps ==
  ASSUME IInv, NEW c \in Clients, NEW id \in Prefetches, PrefetchHit(c, id)
  PROVE  IInv'
<1>1. id \in Ids /\ Hits(cache, id) /\ cache \in CacheType /\ MapsPoint(cache)
  BY PagerAssumption DEF PrefetchHit, IInv, TypeOK
<1>2. /\ cache' = Release(Acquire(cache, id), AcquireSlot(cache, id))
      /\ UNCHANGED <<fill, ramVars, dev, queue, clientVars, workerVars>>
  BY DEF PrefetchHit
<1>3. /\ cache' \in CacheType /\ MapsPoint(cache') /\ cache'.id = cache.id
      /\ cache'.ready = cache.ready /\ \A s \in Slots : cache'.pins[s] = cache.pins[s]
  BY <1>1, <1>2, HitAndBack
<1>. QED  BY <1>2, <1>3, CountersKeep

(* The tick of a shared pool.                                              *)
LEMMA TickKeeps ==
  ASSUME IInv, NEW c \in Clients, Tick(c)
  PROVE  IInv'
<1>1. cache \in CacheType /\ MapsPoint(cache)
  BY DEF IInv, TypeOK
<1>2. /\ cache' = DecayAll(cache)
      /\ UNCHANGED <<fill, ramVars, dev, queue, clientVars, workerVars>>
  BY DEF Tick
<1>3. /\ cache' \in CacheType /\ MapsPoint(cache') /\ cache'.id = cache.id
      /\ cache'.ready = cache.ready /\ cache'.pins = cache.pins
  BY <1>1, <1>2, Decayed
<1>. QED  BY <1>2, <1>3, CountersKeep

(* A sequence without its head.                                            *)
LEMMA TailOf ==
  ASSUME NEW T, NEW q \in Seq(T), q # <<>>
  PROVE  /\ Head(q) = q[1] /\ 1 \in DOMAIN q /\ Head(q) \in T
         /\ Tail(q) \in Seq(T)
         /\ \A i \in DOMAIN Tail(q) : i + 1 \in DOMAIN q /\ i + 1 # 1 /\ Tail(q)[i] = q[i + 1]
         /\ \A i, j \in DOMAIN Tail(q) : i + 1 = j + 1 => i = j
         /\ Len(q) = 1 => Tail(q) = <<>>
         /\ Len(q) # 1 => Tail(q) # <<>>
<1>1. Len(q) \in Nat \ {0} /\ DOMAIN q = 1 .. Len(q)
  OBVIOUS
<1>2. Tail(q) \in Seq(T) /\ Len(Tail(q)) = Len(q) - 1 /\ DOMAIN Tail(q) = 1 .. Len(q) - 1
  BY <1>1
<1>3. \A i \in DOMAIN Tail(q) : i + 1 \in DOMAIN q /\ i + 1 # 1 /\ Tail(q)[i] = q[i + 1]
  BY <1>1, <1>2
<1>4. \A i, j \in DOMAIN Tail(q) : i + 1 = j + 1 => i = j
  BY <1>1, <1>2
<1>5. (Len(q) = 1 => Tail(q) = <<>>) /\ (Len(q) # 1 => Tail(q) # <<>>)
  <2>1. \A t \in Seq(T) : Len(t) = 0 <=> t = <<>>
    OBVIOUS
  <2>2. PICK t \in Seq(T) : t = Tail(q) /\ Len(t) = Len(q) - 1
    BY <1>2
  <2>3. Len(t) = 0 <=> Len(q) = 1
    BY <1>1, <2>2
  <2>. QED  BY <2>1, <2>2, <2>3
<1>. QED  BY <1>1, <1>2, <1>3, <1>4, <1>5

(* The request has one more handle, and one expert less to acquire.        *)
LEMMA HandleGained ==
  ASSUME IInv, NEW c \in Clients, NEW h \in Handles, pc[c] \in {"acquire", "send"},
         h.id = Head(todo[c]), Acquired(c, h), UNCHANGED <<usable, leaked>>,
         \A d \in Clients \ {c} : sending'[d] = sending[d]
  PROVE  /\ pc' \in [Clients -> {"ready", "acquire", "send", "stalled", "sendPrefetch", "waiting",
                                 "asleep", "failed", "panicked"}]
         /\ todo' \in [Clients -> Seq(Ids)]
         /\ out' \in [Clients -> SUBSET Handles]
         /\ held' \in [Clients -> SUBSET Handles]
         /\ pc'[c] \in {"ready", "acquire"} /\ \A d \in Clients \ {c} : pc'[d] = pc[d]
         /\ \A d \in Clients : ClientOK(d)'
         /\ (out[c] \union held[c] \union usable[c])'
              = out[c] \union held[c] \union usable[c] \union {h}
         /\ \A d \in Clients \ {c} : (out[d] \union held[d] \union usable[d])'
                                      = out[d] \union held[d] \union usable[d]
         /\ h \notin out[c] \union held[c] \union usable[c]
<1>1. /\ pc \in [Clients -> {"ready", "acquire", "send", "stalled", "sendPrefetch", "waiting",
                             "asleep", "failed", "panicked"}]
      /\ todo \in [Clients -> Seq(Ids)]
      /\ out \in [Clients -> SUBSET Handles]
      /\ held \in [Clients -> SUBSET Handles]
      /\ usable \in [Clients -> SUBSET Handles]
  BY DEF IInv, TypeOK, Locals
<1>2. ClientOK(c)
  BY DEF IInv
<1>3. PICK q \in Seq(Ids) : q = todo[c] /\ q # <<>>
  BY <1>1, <1>2 DEF ClientOK
<1>4. \A g \in out[c] \union held[c] \union usable[c] : g.id # h.id
  BY <1>2, <1>3, TailOf DEF ClientOK, HandleIds
<1>5. todo' = [todo EXCEPT ![c] = Tail(q)] /\ Tail(q) \in Seq(Ids)
  BY <1>3, TailOf DEF Acquired
<1>6. \/ /\ Len(q) = 1 /\ pc' = [pc EXCEPT ![c] = "ready"]
         /\ held' = [held EXCEPT ![c] = @ \union out[c] \union {h}]
         /\ out' = [out EXCEPT ![c] = {}]
      \/ /\ Len(q) # 1 /\ pc' = [pc EXCEPT ![c] = "acquire"]
         /\ out' = [out EXCEPT ![c] = @ \union {h}]
         /\ held' = held
  BY <1>3 DEF Acquired
<1>7. /\ pc' \in [Clients -> {"ready", "acquire", "send", "stalled", "sendPrefetch", "waiting",
                              "asleep", "failed", "panicked"}]
      /\ todo' \in [Clients -> Seq(Ids)]
      /\ out' \in [Clients -> SUBSET Handles]
      /\ held' \in [Clients -> SUBSET Handles]
  <2>1. todo' \in [Clients -> Seq(Ids)]
    BY <1>1, <1>5
  <2>2. PICK some \in SUBSET Handles, all \in SUBSET Handles :
          some = out[c] \union {h} /\ all = held[c] \union out[c] \union {h}
    <3>1. out[c] \in SUBSET Handles /\ held[c] \in SUBSET Handles /\ {h} \in SUBSET Handles
      BY <1>1
    <3>2. out[c] \union {h} \in SUBSET Handles /\ held[c] \union out[c] \union {h} \in SUBSET Handles
      BY <3>1
    <3>. QED  BY <3>2
  <2>3. out' \in [Clients -> SUBSET Handles] /\ held' \in [Clients -> SUBSET Handles]
    <3>1. \/ held' = [held EXCEPT ![c] = all] /\ out' = [out EXCEPT ![c] = {}]
          \/ out' = [out EXCEPT ![c] = some] /\ held' = held
      BY <1>6, <2>2
    <3>. QED  BY <1>1, <3>1
  <2>4. pc' \in [Clients -> {"ready", "acquire", "send", "stalled", "sendPrefetch", "waiting",
                             "asleep", "failed", "panicked"}]
    BY <1>1, <1>6
  <2>. QED  BY <2>1, <2>3, <2>4
<1>8. /\ pc'[c] = IF Len(q) = 1 THEN "ready" ELSE "acquire"
      /\ Len(q) = 1 => out'[c] = {} /\ held'[c] = held[c] \union out[c] \union {h}
      /\ Len(q) # 1 => out'[c] = out[c] \union {h} /\ held'[c] = held[c]
      /\ todo'[c] = Tail(q)
      /\ \A d \in Clients \ {c} : /\ pc'[d] = pc[d] /\ out'[d] = out[d] /\ held'[d] = held[d]
                                  /\ todo'[d] = todo[d]
  BY <1>1, <1>5, <1>6
<1>9. /\ (out[c] \union held[c] \union usable[c])'
           = out[c] \union held[c] \union usable[c] \union {h}
      /\ h \notin out[c] \union held[c] \union usable[c]
  BY <1>4, <1>8
<1>10. ClientOK(c)'
  <2>1. /\ out'[c] \intersect held'[c] = {}
        /\ out'[c] \intersect usable'[c] = {}
        /\ held'[c] \intersect usable'[c] = {}
    BY <1>2, <1>8, <1>9 DEF ClientOK
  <2>2. \A i, j \in DOMAIN q : q[i] = q[j] => i = j
    BY <1>2, <1>3 DEF ClientOK
  <2>3. \A i, j \in DOMAIN Tail(q) : Tail(q)[i] = Tail(q)[j] => i = j
    <3>. SUFFICES ASSUME NEW i \in DOMAIN Tail(q), NEW j \in DOMAIN Tail(q),
                         Tail(q)[i] = Tail(q)[j]
                  PROVE  i = j
      OBVIOUS
    <3>1. /\ i + 1 \in DOMAIN q /\ j + 1 \in DOMAIN q
          /\ Tail(q)[i] = q[i + 1] /\ Tail(q)[j] = q[j + 1]
          /\ i + 1 = j + 1 => i = j
      BY <1>3, TailOf
    <3>. QED  BY <2>2, <3>1
  <2>4. \A i \in DOMAIN Tail(q) : Tail(q)[i] \notin HandleIds(c)'
    <3>. SUFFICES ASSUME NEW i \in DOMAIN Tail(q)
                  PROVE  Tail(q)[i] \notin HandleIds(c)'
      OBVIOUS
    <3>1. /\ i + 1 \in DOMAIN q /\ 1 \in DOMAIN q /\ i + 1 # 1
          /\ Tail(q)[i] = q[i + 1] /\ Head(q) = q[1]
      BY <1>3, TailOf
    <3>2. q[i + 1] \notin HandleIds(c)
      BY <1>2, <1>3, <3>1 DEF ClientOK
    <3>3. q[i + 1] # h.id
      BY <1>3, <2>2, <3>1
    <3>. QED  BY <1>9, <3>1, <3>2, <3>3 DEF HandleIds
  <2>5. Len(q) # 1 => Tail(q) # <<>>
    BY <1>3, TailOf
  <2>6. /\ pc'[c] \in {"acquire", "stalled", "send"} => todo'[c] # <<>>
        /\ pc'[c] \notin {"send", "sendPrefetch"}
        /\ pc'[c] \in {"ready", "sendPrefetch", "waiting", "asleep"} => out'[c] = {}
    BY <1>8, <2>5
  <2>. QED  BY <1>8, <2>1, <2>3, <2>4, <2>6 DEF ClientOK
<1>11. \A d \in Clients \ {c} : ClientOK(d)'
  BY <1>8, ClientAside
<1>. QED  BY <1>7, <1>8, <1>9, <1>10, <1>11

(* Its slot has one more owner.                                            *)
LEMMA OwnerGained ==
  ASSUME NEW c \in Clients, NEW h \in Handles, UNCHANGED leaked,
         (out[c] \union held[c] \union usable[c])'
           = out[c] \union held[c] \union usable[c] \union {h},
         \A d \in Clients \ {c} : (out[d] \union held[d] \union usable[d])'
                                   = out[d] \union held[d] \union usable[d],
         h \notin out[c] \union held[c] \union usable[c],
         NEW s
  PROVE  Owners(s)' = IF s = h.slot THEN Owners(s) + 1 ELSE Owners(s)
<1>1. Leaks(s)' = Leaks(s)
  BY DEF Leaks
<1>2. CASE s = h.slot
  <2>1. Pinners(s)' = Pinners(s) \union {<<c, h>>}
    <3>1. ASSUME NEW u \in Clients \X Handles
          PROVE  u \in Pinners(s)' <=> u \in Pinners(s) \/ u = <<c, h>>
      <4>1. CASE u[1] = c
        <5>1. u = <<c, u[2]>>
          BY <4>1
        <5>. QED  BY <1>2, <4>1, <5>1 DEF Pinners
      <4>2. CASE u[1] # c
        <5>1. u[1] \in Clients \ {c} /\ u # <<c, h>>
          BY <4>2
        <5>. QED  BY <5>1 DEF Pinners
      <4>. QED  BY <4>1, <4>2
    <3>2. Pinners(s) \subseteq Clients \X Handles /\ Pinners(s)' \subseteq Clients \X Handles
          /\ <<c, h>> \in Clients \X Handles
      BY DEF Pinners
    <3>. QED  BY <3>1, <3>2
  <2>2. <<c, h>> \notin Pinners(s)
    BY DEF Pinners
  <2>3. Cardinality(Pinners(s)') = Cardinality(Pinners(s)) + 1
    BY <2>1, <2>2, OwnersFinite, FS_AddElement
  <2>. QED  BY <1>1, <1>2, <2>3, OwnersFinite DEF Owners
<1>3. CASE s # h.slot
  <2>1. Pinners(s)' = Pinners(s)
    <3>1. ASSUME NEW u \in Clients \X Handles
          PROVE  u \in Pinners(s)' <=> u \in Pinners(s)
      <4>1. CASE u[1] = c
        BY <1>3, <4>1 DEF Pinners
      <4>2. CASE u[1] # c
        <5>1. u[1] \in Clients \ {c}
          BY <4>2
        <5>. QED  BY <5>1 DEF Pinners
      <4>. QED  BY <4>1, <4>2
    <3>2. Pinners(s) \subseteq Clients \X Handles /\ Pinners(s)' \subseteq Clients \X Handles
      BY DEF Pinners
    <3>. QED  BY <3>1, <3>2
  <2>. QED  BY <1>1, <1>3, <2>1 DEF Owners
<1>. QED  BY <1>2, <1>3

(* A hit gives a handle and a pin.                                         *)
LEMMA AcquireHitKeeps ==
  ASSUME IInv, NEW c \in Clients, AcquireHit(c)
  PROVE  IInv'
<1>. USE DEF ramVars, workerVars
<1>1. cache \in CacheType /\ MapsPoint(cache) /\ pc[c] = "acquire" /\ ClientOK(c)
  BY DEF AcquireHit, IInv, TypeOK
<1>2. PICK id \in Ids : id = Head(todo[c])
  <2>1. todo[c] \in Seq(Ids) /\ todo[c] # <<>>
    BY <1>1 DEF ClientOK, IInv, TypeOK, Locals
  <2>. QED  BY <2>1, TailOf
<1>3. Hits(cache, id) /\ cache' = Acquire(cache, id)
  BY <1>2 DEF AcquireHit
<1>4. PICK s \in Slots :
        /\ s = AcquireSlot(cache, id) /\ cache.id[s] = id
        /\ cache' \in CacheType /\ MapsPoint(cache')
        /\ cache'.id = cache.id /\ cache'.ready = cache.ready
        /\ \A t \in Slots : cache'.pins[t] = IF t = s THEN cache.pins[t] + 1 ELSE cache.pins[t]
  BY <1>1, <1>3, HitEffect
<1>5. PICK h \in Handles : h = [id |-> id, slot |-> s]
  BY DEF Handles
<1>6. /\ Acquired(c, h)
      /\ UNCHANGED <<fill, ramVars, dev, queue, sending, target, usable, leaked, workerVars>>
  BY <1>2, <1>4, <1>5 DEF AcquireHit
<1>7. h.id = id /\ h.slot = s
  BY <1>5
<1>8. /\ pc' \in [Clients -> {"ready", "acquire", "send", "stalled", "sendPrefetch", "waiting",
                              "asleep", "failed", "panicked"}]
      /\ todo' \in [Clients -> Seq(Ids)]
      /\ out' \in [Clients -> SUBSET Handles]
      /\ held' \in [Clients -> SUBSET Handles]
      /\ pc'[c] \in {"ready", "acquire"} /\ \A d \in Clients \ {c} : pc'[d] = pc[d]
      /\ \A d \in Clients : ClientOK(d)'
      /\ (out[c] \union held[c] \union usable[c])'
           = out[c] \union held[c] \union usable[c] \union {h}
      /\ \A d \in Clients \ {c} : (out[d] \union held[d] \union usable[d])'
                                   = out[d] \union held[d] \union usable[d]
      /\ h \notin out[c] \union held[c] \union usable[c]
  BY <1>1, <1>2, <1>6, <1>7, HandleGained
<1>9. TypeOK'
  BY <1>4, <1>6, <1>8 DEF IInv, TypeOK, Locals
<1>10. \A d \in Clients : Sending(d)' <=> Sending(d)
  BY <1>1, <1>8 DEF Sending
<1>11. ASSUME NEW t \in Slots
       PROVE  SlotOK(t)' /\ DevOK(t)'
  <2>1. SlotOK(t) /\ DevOK(t)
    BY DEF IInv
  <2>2. CarriersOf(t)' = CarriersOf(t)
    BY <1>6, <1>10, WorkersAside, SameCarriers
  <2>3. Owners(t)' = IF t = s THEN Owners(t) + 1 ELSE Owners(t)
    BY <1>6, <1>7, <1>8, OwnerGained
  <2>4. Unsent(t)' = Unsent(t)
    BY <2>2 DEF Unsent, IsUnsent
  <2>5. Owners(t) \in Nat /\ Unsent(t) \in Nat /\ cache.pins[t] \in Nat
    BY <1>1, OwnersFinite, UnsentIs DEF CacheType
  <2>6. NoneAlive' <=> NoneAlive
    BY <1>6, WorkersAside
  <2>7. PinsOwned(t)'
    <3>1. cache'.pins[t] = IF t = s THEN cache.pins[t] + 1 ELSE cache.pins[t]
      BY <1>4
    <3>2. PinsOwned(t) /\ fill'[t] = fill[t]
      BY <1>6, <2>1 DEF SlotOK
    <3>. QED  BY <2>2, <2>3, <2>4, <2>5, <2>6, <3>1, <3>2 DEF PinsOwned
  <2>8. OneJob(t)'
    BY <1>4, <1>6, <2>1, <2>2, <2>6 DEF SlotOK, OneJob
  <2>9. fill'[t] = "InFlight" => cache'.pins[t] > 0
    BY <1>4, <1>6, <2>1, <2>5 DEF SlotOK
  <2>. QED  BY <1>4, <1>6, <2>1, <2>7, <2>8, <2>9 DEF SlotOK, DevOK
<1>12. ASSUME NEW d \in Clients
       PROVE  HandlesOK(d)'
  <2>1. HandlesOK(d)
    BY DEF IInv
  <2>2. out'[d] \union held'[d] \union usable'[d]
          \subseteq out[d] \union held[d] \union usable[d] \union {h}
    BY <1>8
  <2>. QED  BY <1>4, <1>6, <1>7, <2>1, <2>2 DEF HandlesOK
<1>13. MapsPoint(cache)'
  BY <1>4 DEF MapsPoint
<1>. QED  BY <1>6, <1>8, <1>9, <1>11, <1>12, <1>13, WorkersAside DEF IInv

(* The carrier of a slot's job is its only one, and the slot is in flight. *)
LEMMA CarrierOwns ==
  ASSUME IInv, NEW s \in Slots, NEW k \in CarriersOf(s)
  PROVE  /\ fill[s] = "InFlight" /\ CarriersOf(s) = {k} /\ k[3].id = cache.id[s]
         /\ cache.pins[s] = Owners(s) + Unsent(s)
<1>1. SlotOK(s)
  BY DEF IInv
<1>2. fill[s] = "InFlight" /\ CarriersOf(s) # {}
  BY <1>1 DEF SlotOK, OneJob
<1>3. CarriersOf(s) = {k} /\ k[3].id = cache.id[s]
  BY <1>1, <1>2 DEF SlotOK, OneJob
<1>4. cache.pins[s] = Owners(s) + Unsent(s)
  BY <1>1, <1>2 DEF SlotOK, PinsOwned
<1>. QED  BY <1>2, <1>3, <1>4

(* A job that is sent moves from its client to the end of the channel, or  *)
(* is gone if the channel is closed.                                       *)
LEMMA JobSent ==
  ASSUME IInv, NEW c \in Clients, Sending(c), ~Sending(c)',
         \A d \in Clients \ {c} : sending'[d] = sending[d] /\ (Sending(d)' <=> Sending(d)),
         UNCHANGED workerVars, queue' \in {queue, Append(queue, sending[c])},
         NEW j \in Jobs, j = sending[c]
  PROVE  /\ j.slot \in Slots /\ fill[j.slot] = "InFlight" /\ cache.id[j.slot] = j.id
         /\ CarriersOf(j.slot) = {<<"client", c, j>>}
         /\ cache.pins[j.slot] = Owners(j.slot) + 1
         /\ queue' = queue => CarriersOf(j.slot)' = {}
         /\ queue' = Append(queue, j) =>
              CarriersOf(j.slot)' = {<<"channel", Len(queue) + 1, j>>}
         /\ \A t \in Slots \ {j.slot} : CarriersOf(t)' = CarriersOf(t)
         /\ queue' \in Seq(Jobs)
<1>. DEFINE s == j.slot
            k == <<"client", c, j>>
<1>1. s \in Slots /\ queue \in Seq(Jobs)
  BY DEF Jobs, IInv, TypeOK
<1>2. k \in CarriersOf(s) /\ k[3] = j /\ k[1] = "client"
  BY CarrierIs
<1>3. fill[s] = "InFlight" /\ CarriersOf(s) = {k} /\ cache.id[s] = j.id
      /\ cache.pins[s] = Owners(s) + 1
  <2>1. Unsent(s) = 1
    BY <1>1, <1>2, CarrierOwns, UnsentIs DEF IsUnsent
  <2>. QED  BY <1>1, <1>2, <2>1, CarrierOwns
<1>4. \A w \in Workers : (Working(w)' <=> Working(w)) /\ job'[w] = job[w]
  BY DEF workerVars, Working
<1>5. ASSUME NEW t \in Slots, NEW l
      PROVE  l \in CarriersOf(t)' <=>
               \/ l \in CarriersOf(t) /\ l # k
               \/ /\ queue' # queue /\ l = <<"channel", Len(queue) + 1, j>> /\ t = s
  <2>1. \/ queue' = queue
        \/ queue' = Append(queue, j) /\ queue' # queue
    <3>1. Append(queue, j) # queue
      BY <1>1
    <3>. QED  BY <3>1
  <2>2. (\E i \in DOMAIN queue' : l = <<"channel", i, queue'[i]>> /\ queue'[i].slot = t)
          <=> \/ \E i \in DOMAIN queue : l = <<"channel", i, queue[i]>> /\ queue[i].slot = t
              \/ queue' # queue /\ l = <<"channel", Len(queue) + 1, j>> /\ t = s
    <3>1. CASE queue' = queue
      BY <3>1
    <3>2. CASE queue' = Append(queue, j) /\ queue' # queue
      <4>1. /\ DOMAIN queue' = DOMAIN queue \union {Len(queue) + 1}
            /\ \A i \in DOMAIN queue : queue'[i] = queue[i]
            /\ queue'[Len(queue) + 1] = j
        BY <1>1, <3>2
      <4>. QED  BY <3>2, <4>1
    <3>. QED  BY <2>1, <3>1, <3>2
  <2>3. (\E d \in Clients : Sending(d)' /\ l = <<"client", d, sending'[d]>> /\ sending'[d].slot = t)
          <=> (\E d \in Clients : Sending(d) /\ l = <<"client", d, sending[d]>> /\ sending[d].slot = t)
              /\ l # k
    <3>1. ASSUME NEW d \in Clients \ {c}
          PROVE  (Sending(d)' <=> Sending(d)) /\ sending'[d] = sending[d]
      OBVIOUS
    <3>. QED  BY <3>1
  <2>4. (\E w \in Workers : Working(w)' /\ l = <<"worker", w, job'[w]>> /\ job'[w].slot = t)
          <=> (\E w \in Workers : Working(w) /\ l = <<"worker", w, job[w]>> /\ job[w].slot = t)
              /\ l # k
    BY <1>4
  <2>5. (\E i \in DOMAIN queue : l = <<"channel", i, queue[i]>> /\ queue[i].slot = t) => l # k
    OBVIOUS
  <2>6. l \in CarriersOf(t) <=>
           \/ \E d \in Clients : Sending(d) /\ l = <<"client", d, sending[d]>> /\ sending[d].slot = t
           \/ \E i \in DOMAIN queue : l = <<"channel", i, queue[i]>> /\ queue[i].slot = t
           \/ \E w \in Workers : Working(w) /\ l = <<"worker", w, job[w]>> /\ job[w].slot = t
    BY CarrierIs
  <2>7. l \in CarriersOf(t)' <=>
           \/ \E d \in Clients : Sending(d)' /\ l = <<"client", d, sending'[d]>> /\ sending'[d].slot = t
           \/ \E i \in DOMAIN queue' : l = <<"channel", i, queue'[i]>> /\ queue'[i].slot = t
           \/ \E w \in Workers : Working(w)' /\ l = <<"worker", w, job'[w]>> /\ job'[w].slot = t
    BY CarrierWillBe
  <2>. QED  BY <2>2, <2>3, <2>4, <2>5, <2>6, <2>7
<1>6. ASSUME NEW t \in Slots \ {s}
      PROVE  CarriersOf(t)' = CarriersOf(t)
  <2>1. k \notin CarriersOf(t)
    BY <1>2 DEF CarriersOf
  <2>. QED  BY <1>5, <2>1
<1>7. queue' = queue => CarriersOf(s)' = {}
  BY <1>1, <1>3, <1>5
<1>8. queue' = Append(queue, j) => CarriersOf(s)' = {<<"channel", Len(queue) + 1, j>>}
  <2>1. Append(queue, j) # queue
    BY <1>1
  <2>. QED  BY <1>1, <1>3, <1>5, <2>1
<1>9. queue' \in Seq(Jobs)
  BY <1>1
<1>. QED  BY <1>1, <1>3, <1>6, <1>7, <1>8, <1>9

(* With the channel closed a request panics, its job still in its hands.   *)
LEMMA PanicKeeps ==
  ASSUME IInv, NEW c \in Clients, SendJob(c), NoneAlive
  PROVE  IInv'
<1>. USE DEF lockVars, ramVars, workerVars
<1>1. /\ pc[c] = "send" /\ pc' = [pc EXCEPT ![c] = "panicked"]
      /\ UNCHANGED <<cache, fill, ramVars, dev, queue, todo, sending, out, held, target, usable,
                     leaked, workerVars>>
  BY DEF SendJob, NoneAlive
<1>2. pc \in [Clients -> {"ready", "acquire", "send", "stalled", "sendPrefetch", "waiting",
                          "asleep", "failed", "panicked"}]
  BY DEF IInv, TypeOK, Locals
<1>3. TypeOK'
  BY <1>1, <1>2 DEF IInv, TypeOK, Locals
<1>4. \A d \in Clients : Sending(d)' <=> Sending(d)
  BY <1>1, <1>2 DEF Sending
<1>5. MapsPoint(cache)' /\ \A s \in Slots : SlotOK(s)' /\ DevOK(s)'
  BY <1>1, <1>4, WorkersAside, SameCarriers, SameOwners, SlotsAside
<1>6. ASSUME NEW d \in Clients
      PROVE  ClientOK(d)' /\ HandlesOK(d)'
  <2>1. HandlesOK(d)'
    BY <1>1, HandlesAside
  <2>2. CASE d = c
    <3>1. ClientOK(c)
      BY DEF IInv
    <3>. QED  BY <1>1, <1>2, <2>1, <2>2, <3>1 DEF ClientOK, HandleIds
  <2>3. CASE d # c
    BY <1>1, <1>2, <2>1, <2>3, ClientAside
  <2>. QED  BY <2>2, <2>3
<1>. QED  BY <1>1, <1>3, <1>5, <1>6, WorkersAside DEF IInv

(* A request's job is sent: its pin passes from the job to the handle.     *)
LEMMA SendJobKeeps ==
  ASSUME IInv, NEW c \in Clients, SendJob(c), ~NoneAlive
  PROVE  IInv'
<1>. USE DEF lockVars, ramVars, workerVars
<1>1. pc[c] = "send" /\ ClientOK(c) /\ sending \in [Clients -> Jobs]
  BY DEF SendJob, IInv, TypeOK, Locals
<1>2. PICK j \in Jobs : j = sending[c] /\ j.id = Head(todo[c]) /\ ~j.prefetch
  BY <1>1 DEF ClientOK
<1>3. PICK h \in Handles : h = HandleOf(j)
  BY DEF Jobs, Handles, HandleOf
<1>4. h.id = j.id /\ h.slot = j.slot /\ j.slot \in Slots
  BY <1>3 DEF HandleOf, Jobs
<1>5. /\ queue' = Append(queue, j) /\ sending' = [sending EXCEPT ![c] = NoJob]
      /\ Acquired(c, h)
      /\ UNCHANGED <<cache, fill, ramVars, dev, target, usable, leaked, workerVars>>
  BY <1>2, <1>3 DEF SendJob, NoneAlive
<1>6. NoJob \in Jobs
  BY CacheAssumption DEF NoJob, Jobs, Ids, Slots
<1>7. sending' \in [Clients -> Jobs] /\ \A d \in Clients \ {c} : sending'[d] = sending[d]
  BY <1>1, <1>5, <1>6
<1>8. /\ pc' \in [Clients -> {"ready", "acquire", "send", "stalled", "sendPrefetch", "waiting",
                              "asleep", "failed", "panicked"}]
      /\ todo' \in [Clients -> Seq(Ids)]
      /\ out' \in [Clients -> SUBSET Handles]
      /\ held' \in [Clients -> SUBSET Handles]
      /\ pc'[c] \in {"ready", "acquire"} /\ \A d \in Clients \ {c} : pc'[d] = pc[d]
      /\ \A d \in Clients : ClientOK(d)'
      /\ (out[c] \union held[c] \union usable[c])'
           = out[c] \union held[c] \union usable[c] \union {h}
      /\ \A d \in Clients \ {c} : (out[d] \union held[d] \union usable[d])'
                                   = out[d] \union held[d] \union usable[d]
      /\ h \notin out[c] \union held[c] \union usable[c]
  BY <1>1, <1>2, <1>4, <1>5, <1>7, HandleGained
<1>9. Sending(c) /\ ~Sending(c)' /\ \A d \in Clients \ {c} : Sending(d)' <=> Sending(d)
  BY <1>1, <1>8 DEF Sending
<1>10. /\ fill[j.slot] = "InFlight" /\ cache.id[j.slot] = j.id
       /\ CarriersOf(j.slot) = {<<"client", c, j>>}
       /\ cache.pins[j.slot] = Owners(j.slot) + 1
       /\ CarriersOf(j.slot)' = {<<"channel", Len(queue) + 1, j>>}
       /\ \A t \in Slots \ {j.slot} : CarriersOf(t)' = CarriersOf(t)
       /\ queue' \in Seq(Jobs)
  BY <1>2, <1>5, <1>7, <1>9, JobSent
<1>11. TypeOK'
  BY <1>5, <1>7, <1>8, <1>10 DEF IInv, TypeOK, Locals
<1>12. ASSUME NEW t \in Slots
       PROVE  SlotOK(t)' /\ DevOK(t)'
  <2>1. SlotOK(t) /\ DevOK(t)
    BY DEF IInv
  <2>2. Owners(t)' = IF t = j.slot THEN Owners(t) + 1 ELSE Owners(t)
    BY <1>4, <1>5, <1>8, OwnerGained
  <2>3. CASE t = j.slot
    <3>1. PICK k : k = <<"channel", Len(queue) + 1, j>>
      OBVIOUS
    <3>2. CarriersOf(t)' = {k} /\ k[3].id = cache'.id[t]
      BY <1>5, <1>10, <2>3, <3>1
    <3>3. ~IsUnsent(k)
      BY <1>2, <3>1 DEF IsUnsent
    <3>4. Unsent(t)' = 0
      BY <3>2, <3>3, UnsentIs
    <3>5. cache'.pins[t] = Owners(t)' + 0
      BY <1>5, <1>10, <2>2, <2>3, OwnersFinite
    <3>6. OneJob(t)' /\ PinsOwned(t)'
      BY <1>5, <1>10, <2>3, <3>2, <3>4, <3>5 DEF OneJob, PinsOwned
    <3>. QED  BY <1>5, <2>1, <3>6 DEF SlotOK, DevOK
  <2>4. CASE t # j.slot
    <3>1. SlotOK(t)'
      BY <1>5, <1>10, <2>1, <2>2, <2>4, SlotKept, WorkersAside
    <3>. QED  BY <1>5, <2>1, <3>1 DEF DevOK
  <2>. QED  BY <2>3, <2>4
<1>13. ASSUME NEW d \in Clients
       PROVE  HandlesOK(d)'
  <2>1. HandlesOK(d)
    BY DEF IInv
  <2>2. out'[d] \union held'[d] \union usable'[d]
          \subseteq out[d] \union held[d] \union usable[d] \union {h}
    BY <1>8
  <2>. QED  BY <1>4, <1>5, <1>10, <2>1, <2>2 DEF HandlesOK
<1>14. MapsPoint(cache)'
  BY <1>5 DEF IInv, MapsPoint
<1>. QED  BY <1>5, <1>8, <1>11, <1>12, <1>13, <1>14, WorkersAside DEF IInv

(* A prefetch's job is sent with its pin, or lost with no worker left.     *)
LEMMA SendPrefetchKeeps ==
  ASSUME IInv, NEW c \in Clients, SendPrefetch(c)
  PROVE  IInv'
<1>. USE DEF lockVars, ramVars, workerVars
<1>1. pc[c] = "sendPrefetch" /\ ClientOK(c) /\ sending \in [Clients -> Jobs]
      /\ pc \in [Clients -> {"ready", "acquire", "send", "stalled", "sendPrefetch", "waiting",
                             "asleep", "failed", "panicked"}]
  BY DEF SendPrefetch, IInv, TypeOK, Locals
<1>2. PICK j \in Jobs : j = sending[c] /\ j.prefetch
  BY <1>1 DEF ClientOK
<1>3. /\ queue' = IF NoneAlive THEN queue ELSE Append(queue, j)
      /\ sending' = [sending EXCEPT ![c] = NoJob]
      /\ pc' = [pc EXCEPT ![c] = "ready"]
      /\ UNCHANGED <<cache, fill, ramVars, dev, todo, out, held, target, usable, leaked,
                     workerVars>>
  BY <1>2 DEF SendPrefetch, NoneAlive
<1>4. NoJob \in Jobs
  BY CacheAssumption DEF NoJob, Jobs, Ids, Slots
<1>5. /\ sending' \in [Clients -> Jobs] /\ \A d \in Clients \ {c} : sending'[d] = sending[d]
      /\ pc' \in [Clients -> {"ready", "acquire", "send", "stalled", "sendPrefetch", "waiting",
                              "asleep", "failed", "panicked"}]
      /\ pc'[c] = "ready" /\ \A d \in Clients \ {c} : pc'[d] = pc[d]
  BY <1>1, <1>3, <1>4
<1>6. Sending(c) /\ ~Sending(c)' /\ \A d \in Clients \ {c} : Sending(d)' <=> Sending(d)
  BY <1>1, <1>5 DEF Sending
<1>7. /\ j.slot \in Slots /\ fill[j.slot] = "InFlight" /\ cache.id[j.slot] = j.id
      /\ CarriersOf(j.slot) = {<<"client", c, j>>}
      /\ cache.pins[j.slot] = Owners(j.slot) + 1
      /\ queue' = queue => CarriersOf(j.slot)' = {}
      /\ queue' = Append(queue, j) => CarriersOf(j.slot)' = {<<"channel", Len(queue) + 1, j>>}
      /\ \A t \in Slots \ {j.slot} : CarriersOf(t)' = CarriersOf(t)
      /\ queue' \in Seq(Jobs)
  BY <1>2, <1>3, <1>5, <1>6, JobSent
<1>8. TypeOK'
  BY <1>3, <1>5, <1>7 DEF IInv, TypeOK, Locals
<1>9. ASSUME NEW t \in Slots
      PROVE  SlotOK(t)' /\ DevOK(t)'
  <2>1. SlotOK(t) /\ DevOK(t)
    BY DEF IInv
  <2>2. Owners(t)' = Owners(t) /\ (NoneAlive' <=> NoneAlive)
    BY <1>3, SameOwners, WorkersAside
  <2>3. CASE t = j.slot /\ NoneAlive
    <3>1. CarriersOf(t)' = {}
      BY <1>3, <1>7, <2>3
    <3>2. OneJob(t)' /\ PinsOwned(t)'
      BY <1>3, <1>7, <2>2, <2>3, <3>1 DEF OneJob, PinsOwned
    <3>. QED  BY <1>3, <2>1, <3>2 DEF SlotOK, DevOK
  <2>4. CASE t = j.slot /\ ~NoneAlive
    <3>1. PICK k : k = <<"channel", Len(queue) + 1, j>>
      OBVIOUS
    <3>2. CarriersOf(t)' = {k} /\ k[3].id = cache'.id[t] /\ IsUnsent(k)
      BY <1>2, <1>3, <1>7, <2>4, <3>1 DEF IsUnsent
    <3>3. Unsent(t)' = 1
      BY <3>2, UnsentIs
    <3>4. OneJob(t)' /\ PinsOwned(t)'
      BY <1>3, <1>7, <2>2, <2>4, <3>2, <3>3 DEF OneJob, PinsOwned
    <3>. QED  BY <1>3, <2>1, <3>4 DEF SlotOK, DevOK
  <2>5. CASE t # j.slot
    <3>1. SlotOK(t)'
      BY <1>3, <1>7, <2>1, <2>2, <2>5, SlotKept
    <3>. QED  BY <1>3, <2>1, <3>1 DEF DevOK
  <2>. QED  BY <2>3, <2>4, <2>5
<1>10. ASSUME NEW d \in Clients
       PROVE  ClientOK(d)' /\ HandlesOK(d)'
  <2>1. HandlesOK(d)'
    BY <1>3, HandlesAside
  <2>2. CASE d = c
    BY <1>1, <1>3, <1>5, <2>1, <2>2 DEF ClientOK, HandleIds
  <2>3. CASE d # c
    BY <1>3, <1>5, <2>1, <2>3, ClientAside
  <2>. QED  BY <2>2, <2>3
<1>11. MapsPoint(cache)'
  BY <1>3 DEF IInv, MapsPoint
<1>. QED  BY <1>3, <1>8, <1>9, <1>10, <1>11, WorkersAside DEF IInv

(* A miss claims a slot nobody has a handle on and no job is for.          *)
LEMMA ClaimKeeps ==
  ASSUME IInv, NEW c \in Clients, NEW id \in Ids, NEW prefetch \in BOOLEAN, NEW next,
         \/ pc[c] = "acquire" /\ next = "send" /\ ~prefetch /\ id = Head(todo[c])
         \/ pc[c] = "ready" /\ next = "sendPrefetch" /\ prefetch,
         ClaimSlot(c, id, prefetch, next),
         UNCHANGED <<ramVars, dev, queue, todo, out, held, target, usable, leaked, workerVars>>
  PROVE  IInv'
<1>. USE DEF ramVars, workerVars
<1>1. /\ cache \in CacheType /\ MapsPoint(cache) /\ Misses(cache, id) /\ cache' = Acquire(cache, id)
      /\ sending \in [Clients -> Jobs]
      /\ pc \in [Clients -> {"ready", "acquire", "send", "stalled", "sendPrefetch", "waiting",
                             "asleep", "failed", "panicked"}]
      /\ fill \in [Slots -> {"Empty", "InFlight", "Ready"}]
  BY DEF ClaimSlot, IInv, TypeOK, Locals
<1>2. PICK s \in Slots :
        /\ s = AcquireSlot(cache, id) /\ cache.pins[s] = 0
        /\ cache' \in CacheType /\ MapsPoint(cache')
        /\ \A t \in Slots :
             /\ cache'.pins[t] = IF t = s THEN 1 ELSE cache.pins[t]
             /\ cache'.id[t] = IF t = s THEN id ELSE cache.id[t]
             /\ cache'.ready[t] <=> t # s /\ cache.ready[t]
  BY <1>1, MissClaims
<1>3. PICK j \in Jobs : j = [id |-> id, slot |-> s, prefetch |-> prefetch]
  BY DEF Jobs
<1>4. j.id = id /\ j.slot = s /\ j.prefetch = prefetch
  BY <1>3
<1>5. /\ fill' = [fill EXCEPT ![s] = "InFlight"]
      /\ sending' = [sending EXCEPT ![c] = j]
      /\ pc' = [pc EXCEPT ![c] = next]
  BY <1>2, <1>3 DEF ClaimSlot
<1>6. /\ sending' \in [Clients -> Jobs] /\ sending'[c] = j
      /\ \A d \in Clients \ {c} : sending'[d] = sending[d] /\ pc'[d] = pc[d]
      /\ pc' \in [Clients -> {"ready", "acquire", "send", "stalled", "sendPrefetch", "waiting",
                              "asleep", "failed", "panicked"}]
      /\ pc'[c] = next
      /\ fill' \in [Slots -> {"Empty", "InFlight", "Ready"}]
      /\ \A t \in Slots : fill'[t] = IF t = s THEN "InFlight" ELSE fill[t]
  BY <1>1, <1>5
<1>7. TypeOK'
  BY <1>2, <1>6 DEF IInv, TypeOK, Locals
<1>8. ~Sending(c) /\ Sending(c)' /\ \A d \in Clients \ {c} : Sending(d)' <=> Sending(d)
  BY <1>6 DEF Sending
<1>9. PICK k : k = <<"client", c, j>>
  OBVIOUS
<1>10. \A w \in Workers : (Working(w)' <=> Working(w)) /\ job'[w] = job[w]
  BY DEF Working
<1>11. ASSUME NEW t \in Slots, NEW l
       PROVE  l \in CarriersOf(t)' <=> l \in CarriersOf(t) \/ (l = k /\ t = s)
  <2>1. l \in CarriersOf(t) <=>
           \/ \E d \in Clients : Sending(d) /\ l = <<"client", d, sending[d]>> /\ sending[d].slot = t
           \/ \E i \in DOMAIN queue : l = <<"channel", i, queue[i]>> /\ queue[i].slot = t
           \/ \E w \in Workers : Working(w) /\ l = <<"worker", w, job[w]>> /\ job[w].slot = t
    BY CarrierIs
  <2>2. l \in CarriersOf(t)' <=>
           \/ \E d \in Clients : Sending(d)' /\ l = <<"client", d, sending'[d]>> /\ sending'[d].slot = t
           \/ \E i \in DOMAIN queue' : l = <<"channel", i, queue'[i]>> /\ queue'[i].slot = t
           \/ \E w \in Workers : Working(w)' /\ l = <<"worker", w, job'[w]>> /\ job'[w].slot = t
    BY CarrierWillBe
  <2>3. (\E d \in Clients : Sending(d)' /\ l = <<"client", d, sending'[d]>> /\ sending'[d].slot = t)
          <=> \/ \E d \in Clients : Sending(d) /\ l = <<"client", d, sending[d]>> /\ sending[d].slot = t
              \/ l = k /\ t = s
    BY <1>4, <1>6, <1>8, <1>9
  <2>4. (\E w \in Workers : Working(w)' /\ l = <<"worker", w, job'[w]>> /\ job'[w].slot = t)
          <=> \E w \in Workers : Working(w) /\ l = <<"worker", w, job[w]>> /\ job[w].slot = t
    BY <1>10
  <2>. QED  BY <2>1, <2>2, <2>3, <2>4
<1>12. CarriersOf(s) = {} /\ Owners(s) = 0
  BY <1>2, UnpinnedIdle
<1>13. ASSUME NEW t \in Slots
       PROVE  SlotOK(t)' /\ DevOK(t)'
  <2>1. SlotOK(t) /\ DevOK(t)
    BY DEF IInv
  <2>2. Owners(t)' = Owners(t) /\ (NoneAlive' <=> NoneAlive)
    BY SameOwners, WorkersAside
  <2>3. CASE t = s
    <3>1. CarriersOf(t)' = {k}
      BY <1>11, <1>12, <2>3
    <3>2. IsUnsent(k) /\ k[3].id = id /\ id # NoId
      BY <1>4, <1>9 DEF IsUnsent, Ids, NoId
    <3>3. Unsent(t)' = 1
      BY <3>1, <3>2, UnsentIs
    <3>4. OneJob(t)' /\ PinsOwned(t)'
      BY <1>2, <1>6, <1>12, <2>2, <2>3, <3>1, <3>2, <3>3 DEF OneJob, PinsOwned
    <3>. QED  BY <1>2, <1>6, <2>3, <3>2, <3>4 DEF SlotOK, DevOK
  <2>4. CASE t # s
    <3>1. CarriersOf(t)' = CarriersOf(t)
      BY <1>11, <2>4
    <3>2. SlotOK(t)'
      BY <1>2, <1>6, <2>1, <2>2, <2>4, <3>1, SlotKept
    <3>. QED  BY <1>2, <1>6, <2>1, <2>4, <3>2 DEF DevOK
  <2>. QED  BY <2>3, <2>4
<1>14. ASSUME NEW d \in Clients
       PROVE  HandlesOK(d)'
  <2>1. HandlesOK(d)
    BY DEF IInv
  <2>2. \A h \in out[d] \union held[d] \union usable[d] : h.slot \in Slots /\ h.slot # s
    BY <1>2, HandlePins
  <2>. QED  BY <1>2, <1>6, <2>1, <2>2 DEF HandlesOK
<1>15. ASSUME NEW d \in Clients
       PROVE  ClientOK(d)'
  <2>1. ClientOK(d)
    BY DEF IInv
  <2>2. CASE d = c
    <3>1. \/ pc'[c] = "send" /\ pc[c] = "acquire" /\ sending'[c].id = Head(todo[c])
             /\ ~sending'[c].prefetch
          \/ pc'[c] = "sendPrefetch" /\ pc[c] = "ready" /\ sending'[c].prefetch
      BY <1>4, <1>6
    <3>. QED  BY <2>1, <2>2, <3>1 DEF ClientOK, HandleIds
  <2>3. CASE d # c
    BY <1>6, <2>3, ClientAside
  <2>. QED  BY <2>2, <2>3
<1>16. MapsPoint(cache)'
  BY <1>2 DEF MapsPoint
<1>. QED  BY <1>7, <1>13, <1>14, <1>15, <1>16, WorkersAside DEF IInv

(* The misses of a request and of a prefetch.                              *)
LEMMA MissKeeps ==
  ASSUME IInv, NEW c \in Clients, AcquireMiss(c) \/ \E id \in Prefetches : PrefetchMiss(c, id)
  PROVE  IInv'
<1>1. CASE AcquireMiss(c)
  <2>1. pc[c] = "acquire" /\ todo[c] \in Seq(Ids) /\ todo[c] # <<>>
    BY <1>1 DEF AcquireMiss, IInv, TypeOK, Locals, ClientOK
  <2>2. Head(todo[c]) \in Ids
    BY <2>1, TailOf
  <2>. QED  BY <1>1, <2>1, <2>2, ClaimKeeps DEF AcquireMiss
<1>2. ASSUME NEW id \in Prefetches, PrefetchMiss(c, id)
      PROVE  IInv'
  <2>1. id \in Ids
    BY PagerAssumption
  <2>. QED  BY <1>2, <2>1, ClaimKeeps DEF PrefetchMiss
<1>. QED  BY <1>1, <1>2

(* notify_all moves sleepers only.                                         *)
LEMMA NotifiedClients ==
  ASSUME IInv, pc' = Notified(pc)
  PROVE  /\ pc' \in [Clients -> {"ready", "acquire", "send", "stalled", "sendPrefetch", "waiting",
                                 "asleep", "failed", "panicked"}]
         /\ \A d \in Clients : \/ pc'[d] = pc[d]
                               \/ pc[d] = "stalled" /\ pc'[d] = "acquire"
                               \/ pc[d] = "asleep" /\ pc'[d] = "waiting"
         /\ \A d \in Clients : Sending(d)' <=> Sending(d)
<1>1. pc \in [Clients -> {"ready", "acquire", "send", "stalled", "sendPrefetch", "waiting",
                          "asleep", "failed", "panicked"}]
  BY DEF IInv, TypeOK, Locals
<1>2. \A d \in Clients : \/ pc'[d] = pc[d]
                         \/ pc[d] = "stalled" /\ pc'[d] = "acquire"
                         \/ pc[d] = "asleep" /\ pc'[d] = "waiting"
  BY DEF Notified
<1>3. pc' \in [Clients -> {"ready", "acquire", "send", "stalled", "sendPrefetch", "waiting",
                           "asleep", "failed", "panicked"}]
  BY <1>1 DEF Notified
<1>. QED  BY <1>2, <1>3 DEF Sending

(* release gives a waited-for handle's pin back.                           *)
LEMMA ReleaseKeeps ==
  ASSUME IInv, NEW c \in Clients, NEW h \in usable[c], ReleaseHandle(c, h)
  PROVE  IInv'
<1>. USE DEF ramVars, workerVars
<1>1. /\ cache \in CacheType /\ MapsPoint(cache) /\ ClientOK(c) /\ HandlesOK(c)
      /\ usable \in [Clients -> SUBSET Handles]
  BY DEF IInv, TypeOK, Locals
<1>2. PICK s \in Slots : s = h.slot /\ h \in Handles /\ cache.pins[s] \in Nat /\ cache.pins[s] > 0
  BY HandlePins
<1>3. /\ cache' = Release(cache, s) /\ usable' = [usable EXCEPT ![c] = @ \ {h}]
      /\ pc' = Notified(pc)
      /\ UNCHANGED <<fill, ramVars, dev, queue, todo, sending, out, held, target, leaked, workerVars>>
  BY <1>2 DEF ReleaseHandle
<1>4. /\ cache' \in CacheType /\ MapsPoint(cache') /\ cache'.id = cache.id
      /\ cache'.ready = cache.ready
      /\ \A t \in Slots : cache'.pins[t] = IF t = s THEN cache.pins[t] - 1 ELSE cache.pins[t]
  BY <1>1, <1>2, <1>3, Released
<1>5. /\ usable' \in [Clients -> SUBSET Handles] /\ usable'[c] = usable[c] \ {h}
      /\ \A d \in Clients \ {c} : usable'[d] = usable[d]
  BY <1>1, <1>3
<1>6. TypeOK'
  BY <1>3, <1>4, <1>5, NotifiedClients DEF IInv, TypeOK, Locals
<1>7. fill[s] = "Ready" /\ h \notin out[c] /\ h \notin held[c]
  BY <1>1, <1>2 DEF HandlesOK, ClientOK
<1>8. Pinners(s) = Pinners(s)' \union {<<c, h>>} /\ <<c, h>> \notin Pinners(s)'
  <2>1. ASSUME NEW u \in Clients \X Handles
        PROVE  u \in Pinners(s) <=> u \in Pinners(s)' \/ u = <<c, h>>
    <3>1. CASE u[1] = c
      <4>1. u = <<c, u[2]>>
        BY <3>1
      <4>. QED  BY <1>2, <1>3, <1>5, <3>1, <4>1 DEF Pinners
    <3>2. CASE u[1] # c
      <4>1. u[1] \in Clients \ {c} /\ u # <<c, h>>
        BY <3>2
      <4>. QED  BY <1>3, <1>5, <4>1 DEF Pinners
    <3>. QED  BY <3>1, <3>2
  <2>2. Pinners(s) \subseteq Clients \X Handles /\ Pinners(s)' \subseteq Clients \X Handles
        /\ <<c, h>> \in Clients \X Handles
    BY <1>2 DEF Pinners
  <2>3. <<c, h>> \notin Pinners(s)'
    BY <1>3, <1>5, <1>7 DEF Pinners
  <2>. QED  BY <2>1, <2>2, <2>3
<1>9. Owners(s) = Owners(s)' + 1 /\ Owners(s)' \in Nat
  <2>1. PICK P : P = Pinners(s)'
    OBVIOUS
  <2>2. Pinners(s) = P \union {<<c, h>>} /\ <<c, h>> \notin P
    BY <1>8, <2>1
  <2>3. IsFiniteSet(P)
    BY <2>2, OwnersFinite, FS_Subset
  <2>4. Cardinality(Pinners(s)) = Cardinality(P) + 1 /\ Cardinality(P) \in Nat
    BY <2>2, <2>3, FS_AddElement, FS_CardinalityType
  <2>5. Leaks(s)' = Leaks(s)
    BY <1>3 DEF Leaks
  <2>6. Owners(s)' = Cardinality(P) + Cardinality(Leaks(s))
    BY <2>1, <2>5 DEF Owners
  <2>. QED  BY <2>4, <2>6, OwnersFinite DEF Owners
<1>10. ASSUME NEW t \in Slots
       PROVE  SlotOK(t)' /\ DevOK(t)'
  <2>1. SlotOK(t) /\ DevOK(t)
    BY DEF IInv
  <2>2. CarriersOf(t)' = CarriersOf(t) /\ (NoneAlive' <=> NoneAlive)
    BY <1>3, NotifiedClients, WorkersAside, SameCarriers
  <2>3. CASE t = s
    <3>1. CarriersOf(t) = {}
      BY <1>7, <2>1, <2>3 DEF SlotOK, OneJob
    <3>2. Unsent(t) = 0 /\ Unsent(t)' = 0
      BY <2>2, <3>1, UnsentIs
    <3>3. cache.pins[t] = Owners(t)
      BY <1>7, <2>1, <2>3, <3>2, OwnersFinite DEF SlotOK, PinsOwned
    <3>4. cache'.pins[t] = Owners(t)' + Unsent(t)'
      BY <1>4, <1>9, <2>3, <3>2, <3>3
    <3>5. OneJob(t)' /\ PinsOwned(t)'
      BY <1>3, <1>7, <2>2, <2>3, <3>1, <3>4 DEF OneJob, PinsOwned
    <3>. QED  BY <1>3, <1>4, <1>7, <2>1, <2>3, <3>5 DEF SlotOK, DevOK
  <2>4. CASE t # s
    <3>1. Owners(t)' = Owners(t)
      <4>1. Pinners(t)' = Pinners(t)
        <5>1. ASSUME NEW u \in Clients \X Handles
              PROVE  u \in Pinners(t)' <=> u \in Pinners(t)
          <6>1. CASE u[1] = c
            BY <1>2, <1>3, <1>5, <2>4, <6>1 DEF Pinners
          <6>2. CASE u[1] # c
            <7>1. u[1] \in Clients \ {c}
              BY <6>2
            <7>. QED  BY <1>3, <1>5, <7>1 DEF Pinners
          <6>. QED  BY <6>1, <6>2
        <5>2. Pinners(t) \subseteq Clients \X Handles /\ Pinners(t)' \subseteq Clients \X Handles
          BY DEF Pinners
        <5>. QED  BY <5>1, <5>2
      <4>2. Leaks(t)' = Leaks(t)
        BY <1>3 DEF Leaks
      <4>. QED  BY <4>1, <4>2 DEF Owners
    <3>2. SlotOK(t)'
      BY <1>3, <1>4, <2>1, <2>2, <2>4, <3>1, SlotKept
    <3>. QED  BY <1>3, <1>4, <2>1, <3>2 DEF DevOK
  <2>. QED  BY <2>3, <2>4
<1>11. ASSUME NEW d \in Clients
       PROVE  ClientOK(d)' /\ HandlesOK(d)'
  <2>1. usable'[d] \subseteq usable[d] /\ usable'[d] \in SUBSET usable[d]
    BY <1>5
  <2>2. HandlesOK(d)'
    <3>1. HandlesOK(d)
      BY DEF IInv
    <3>. QED  BY <1>3, <1>4, <2>1, <3>1 DEF HandlesOK
  <2>3. ClientOK(d)'
    <3>1. ClientOK(d)
      BY DEF IInv
    <3>2. HandleIds(d)' \subseteq HandleIds(d)
      BY <1>3, <2>1 DEF HandleIds
    <3>3. /\ out'[d] = out[d] /\ held'[d] = held[d] /\ todo'[d] = todo[d] /\ sending'[d] = sending[d]
          /\ \/ pc'[d] = pc[d]
             \/ pc[d] = "stalled" /\ pc'[d] = "acquire"
             \/ pc[d] = "asleep" /\ pc'[d] = "waiting"
      BY <1>3, NotifiedClients
    <3>. QED  BY <2>1, <3>1, <3>2, <3>3 DEF ClientOK
  <2>. QED  BY <2>2, <2>3
<1>12. MapsPoint(cache)'
  BY <1>4 DEF MapsPoint
<1>. QED  BY <1>3, <1>6, <1>10, <1>11, <1>12, WorkersAside DEF IInv

(* Every step of a client keeps the invariant.                             *)
LEMMA ClientStepKeeps ==
  ASSUME IInv, NEW c \in Clients, ClientStep(c)
  PROVE  IInv'
<1>1. CASE AcquireHit(c)
  BY <1>1, AcquireHitKeeps
<1>2. CASE AcquireMiss(c) \/ \E id \in Prefetches : PrefetchMiss(c, id)
  BY <1>2, MissKeeps
<1>3. CASE AcquireStall(c)
  BY <1>3, StallKeeps
<1>4. CASE StallTimeout(c)
  BY <1>4, StallKeeps, WedgeKeeps
<1>5. CASE SendJob(c)
  BY <1>5, SendJobKeeps, PanicKeeps
<1>6. CASE SendPrefetch(c)
  BY <1>6, SendPrefetchKeeps
<1>7. CASE Tick(c)
  BY <1>7, TickKeeps
<1>8. CASE \E q \in Routes : Request(c, q)
  BY <1>8, RequestKeeps
<1>9. CASE \E id \in Prefetches : PrefetchHit(c, id)
  BY <1>9, PrefetchHitKeeps
<1>10. CASE \E h \in held[c] : Wait(c, h)
  BY <1>10, WaitKeeps
<1>11. CASE \E h \in usable[c] : ReleaseHandle(c, h)
  BY <1>11, ReleaseKeeps
<1>. QED  BY <1>1, <1>2, <1>3, <1>4, <1>5, <1>6, <1>7, <1>8, <1>9, <1>10, <1>11 DEF ClientStep

-----------------------------------------------------------------------------
(* The tier's record, through the lemmas about the operators.              *)

(* What the tier's type says of its parts.                                 *)
LEMMA RamParts ==
  ASSUME NEW t \in Ram!CacheType
  PROVE  /\ t.pins \in [Ram!Slots -> Nat]
         /\ t.ready \in [Ram!Slots -> BOOLEAN]
         /\ \A s \in Ram!Slots : t.pins[s] \in Nat
BY DEF Ram!CacheType

(* get pins the slab that holds the expert.                                *)
LEMMA SlabFound ==
  ASSUME NEW t \in Ram!CacheType, RamP!MapsPoint(t), NEW id \in Ids, Ram!ReadyHit(t, id)
  PROVE  \E s \in Ram!Slots :
           /\ s = Ram!SlotFor(t, id) /\ t.id[s] = id /\ t.ready[s]
           /\ Ram!Pin(t, s) \in Ram!CacheType /\ RamP!MapsPoint(Ram!Pin(t, s))
           /\ Ram!Pin(t, s).id = t.id /\ Ram!Pin(t, s).ready = t.ready
           /\ \A u \in Ram!Slots :
                Ram!Pin(t, s).pins[u] = IF u = s THEN t.pins[u] + 1 ELSE t.pins[u]
<1>1. RamP!ReadyHit(t, id) /\ t \in RamP!CacheType /\ id \in RamP!Ids
  BY RamNames
<1>2. RamP!Hits(t, id) /\ t.ready[RamP!SlotFor(t, id)] /\ RamP!AcquireSlot(t, id) = RamP!SlotFor(t, id)
  BY <1>1 DEF RamP!ReadyHit, RamP!Hits, RamP!AcquireSlot
<1>3. \E s \in RamP!Slots :
        /\ s = RamP!AcquireSlot(t, id) /\ t.id[s] = id
        /\ RamP!Acquire(t, id) = RamP!Pin(t, s)
        /\ RamP!Acquire(t, id) \in RamP!CacheType /\ RamP!MapsPoint(RamP!Acquire(t, id))
        /\ RamP!Acquire(t, id).id = t.id /\ RamP!Acquire(t, id).ready = t.ready
        /\ \A u \in RamP!Slots :
             RamP!Acquire(t, id).pins[u] = IF u = s THEN t.pins[u] + 1 ELSE t.pins[u]
  BY <1>1, <1>2, RamParameters, RamP!HitEffect
<1>. QED  BY <1>2, <1>3, RamNames

(* put claims a slab that nobody uses.                                     *)
LEMMA SlabClaimed ==
  ASSUME NEW t \in Ram!CacheType, RamP!MapsPoint(t), NEW id \in Ids, Ram!Misses(t, id)
  PROVE  \E s \in Ram!Slots :
           /\ s = Ram!AcquireSlot(t, id) /\ t.pins[s] = 0
           /\ Ram!Acquire(t, id) \in Ram!CacheType /\ RamP!MapsPoint(Ram!Acquire(t, id))
           /\ \A u \in Ram!Slots :
                /\ Ram!Acquire(t, id).pins[u] = IF u = s THEN 1 ELSE t.pins[u]
                /\ Ram!Acquire(t, id).id[u] = IF u = s THEN id ELSE t.id[u]
                /\ Ram!Acquire(t, id).ready[u] <=> u # s /\ t.ready[u]
<1>1. RamP!Misses(t, id) /\ t \in RamP!CacheType /\ id \in RamP!Ids
  BY RamNames
<1>2. \E s \in RamP!Slots :
        /\ s = RamP!AcquireSlot(t, id) /\ t.pins[s] = 0
        /\ RamP!Acquire(t, id) \in RamP!CacheType /\ RamP!MapsPoint(RamP!Acquire(t, id))
        /\ \A u \in RamP!Slots :
             /\ RamP!Acquire(t, id).pins[u] = IF u = s THEN 1 ELSE t.pins[u]
             /\ RamP!Acquire(t, id).id[u] = IF u = s THEN id ELSE t.id[u]
             /\ RamP!Acquire(t, id).ready[u] <=> u # s /\ t.ready[u]
  BY <1>1, RamParameters, RamP!MissClaims
<1>. QED  BY <1>2, RamNames

(* put of an expert that is there already: only counters change.           *)
LEMMA SlabTouched ==
  ASSUME NEW t \in Ram!CacheType, RamP!MapsPoint(t), NEW id \in Ids, Ram!Hits(t, id),
         NEW n, n = Ram!Release(Ram!Acquire(t, id), Ram!AcquireSlot(t, id))
  PROVE  /\ n \in Ram!CacheType /\ RamP!MapsPoint(n)
         /\ n.id = t.id /\ n.ready = t.ready
         /\ \A u \in Ram!Slots : n.pins[u] = t.pins[u]
<1>1. RamP!Hits(t, id) /\ t \in RamP!CacheType /\ id \in RamP!Ids
  BY RamNames
<1>2. n = RamP!Release(RamP!Acquire(t, id), RamP!AcquireSlot(t, id))
  BY RamNames
<1>3. /\ n \in RamP!CacheType /\ RamP!MapsPoint(n)
      /\ n.id = t.id /\ n.ready = t.ready
      /\ \A u \in RamP!Slots : n.pins[u] = t.pins[u]
  BY <1>1, <1>2, RamParameters, RamP!HitAndBack
<1>. QED  BY <1>3, RamNames

(* A slab is released by its reader or its writer.                         *)
LEMMA SlabReleased ==
  ASSUME NEW t \in Ram!CacheType, RamP!MapsPoint(t), NEW s \in Ram!Slots, t.pins[s] > 0,
         NEW n, n = Ram!Release(t, s)
  PROVE  /\ n \in Ram!CacheType /\ RamP!MapsPoint(n)
         /\ n.id = t.id /\ n.ready = t.ready
         /\ \A u \in Ram!Slots : n.pins[u] = IF u = s THEN t.pins[u] - 1 ELSE t.pins[u]
<1>1. t \in RamP!CacheType /\ s \in RamP!Slots /\ n = RamP!Release(t, s)
  BY RamNames
<1>2. /\ n \in RamP!CacheType /\ RamP!MapsPoint(n)
      /\ n.id = t.id /\ n.ready = t.ready
      /\ \A u \in RamP!Slots : n.pins[u] = IF u = s THEN t.pins[u] - 1 ELSE t.pins[u]
  BY <1>1, RamParameters, RamP!Released
<1>. QED  BY <1>2, RamNames

(* A slab that has been written is published.                              *)
LEMMA SlabPublished ==
  ASSUME NEW t \in Ram!CacheType, RamP!MapsPoint(t), NEW s \in Ram!Slots,
         NEW n, n = Ram!Publish(t, s)
  PROVE  /\ n \in Ram!CacheType /\ RamP!MapsPoint(n)
         /\ n.id = t.id /\ n.pins = t.pins
         /\ \A u \in Ram!Slots : n.ready[u] <=> u = s \/ t.ready[u]
<1>1. t \in RamP!CacheType /\ s \in RamP!Slots /\ n = RamP!Publish(t, s)
  BY RamNames
<1>2. /\ n \in RamP!CacheType /\ RamP!MapsPoint(n)
      /\ n.id = t.id /\ n.pins = t.pins
      /\ \A u \in RamP!Slots : n.ready[u] <=> u = s \/ t.ready[u]
  BY <1>1, RamParameters, RamP!Published
<1>. QED  BY <1>2, RamNames

-----------------------------------------------------------------------------
(* Workers and the tier.                                                   *)

(* A worker busy with the tier or with a read leaves the rest alone.       *)
LEMMA DeviceAside ==
  ASSUME IInv, UNCHANGED <<lockVars, dev, queue, clientVars, job>>,
         \A v \in Workers : Working(v)' <=> Working(v), NoneAlive => NoneAlive'
  PROVE  /\ MapsPoint(cache)'
         /\ \A s \in Slots : SlotOK(s)' /\ DevOK(s)'
         /\ \A c \in Clients : ClientOK(c)' /\ HandlesOK(c)'
<1>. USE DEF lockVars, clientVars
<1>1. \A s : CarriersOf(s)' = CarriersOf(s) /\ Owners(s)' = Owners(s)
  <2>1. \A d \in Clients : Sending(d)' <=> Sending(d)
    BY DEF Sending
  <2>. QED  BY <2>1, SameCarriers, SameOwners
<1>2. MapsPoint(cache)' /\ \A s \in Slots : SlotOK(s)' /\ DevOK(s)'
  BY <1>1, SlotsAside
<1>3. \A c \in Clients : ClientOK(c)' /\ HandlesOK(c)'
  BY ClientAside, HandlesAside
<1>. QED  BY <1>2, <1>3

(* One worker moves: the users of a slab change by that worker at most.    *)
LEMMA UsersCount ==
  ASSUME NEW w \in Workers,
         \A v \in Workers \ {w} : wpc'[v] = wpc[v] /\ rslot'[v] = rslot[v],
         NEW t
  PROVE  /\ Cardinality(SlabUsers(t)) \in Nat
         /\ w \notin SlabUsers(t) /\ w \in SlabUsers(t)' =>
              Cardinality(SlabUsers(t)') = Cardinality(SlabUsers(t)) + 1
         /\ w \in SlabUsers(t) /\ w \notin SlabUsers(t)' =>
              Cardinality(SlabUsers(t)') = Cardinality(SlabUsers(t)) - 1
         /\ w \in SlabUsers(t) => Cardinality(SlabUsers(t)) > 0
         /\ (w \in SlabUsers(t) <=> w \in SlabUsers(t)') => SlabUsers(t)' = SlabUsers(t)
         /\ \A v \in Workers \ {w} : v \in SlabUsers(t)' <=> v \in SlabUsers(t)
         /\ Cardinality(SlabUsers(t)) = 0 => \A v \in Workers : v \notin SlabUsers(t)
<1>1. PICK S, N : S = SlabUsers(t) /\ N = SlabUsers(t)'
  OBVIOUS
<1>2. S \subseteq Workers /\ N \subseteq Workers
  BY <1>1 DEF SlabUsers
<1>3. \A v \in Workers \ {w} : v \in N <=> v \in S
  BY <1>1 DEF SlabUsers, ReadsSlab, FillsSlab
<1>4. IsFiniteSet(S) /\ Cardinality(S) \in Nat
  BY <1>2, PagerAssumption, FS_Subset, FS_CardinalityType
<1>5. CASE w \notin S /\ w \in N
  <2>1. N = S \union {w}
    BY <1>2, <1>3, <1>5
  <2>2. Cardinality(N) = Cardinality(S) + 1
    BY <1>4, <1>5, <2>1, FS_AddElement
  <2>3. Cardinality(S) = 0 => S = {}
    BY <1>4, FS_EmptySet
  <2>. QED  BY <1>1, <1>3, <1>4, <1>5, <2>2, <2>3
<1>6. CASE w \in S /\ w \notin N
  <2>1. N = S \ {w}
    BY <1>2, <1>3, <1>6
  <2>2. Cardinality(S) # 0
    BY <1>4, <1>6, FS_EmptySet
  <2>3. Cardinality(N) = Cardinality(S) - 1
    BY <1>4, <1>6, <2>1, FS_RemoveElement
  <2>4. Cardinality(S) > 0
    BY <1>4, <2>2
  <2>. QED  BY <1>1, <1>3, <1>4, <1>6, <2>2, <2>3, <2>4
<1>7. CASE w \in S <=> w \in N
  <2>1. N = S
    BY <1>2, <1>3, <1>7
  <2>2. Cardinality(S) = 0 => S = {}
    BY <1>4, FS_EmptySet
  <2>. QED  BY <1>1, <1>3, <1>4, <1>7, <2>1, <2>2
<1>. QED  BY <1>5, <1>6, <1>7

(* The types of what a worker's step may change.                           *)
WorkerTypes ==
  /\ wpc \in [Workers -> {"starting", "idle", "ramGet", "ramCopy", "ramRelease", "read", "ramPut",
                          "ramWrite", "ramPublish", "copyRaw", "copyStored", "publish", "dead",
                          "lost"}]
  /\ job \in [Workers -> Jobs]
  /\ buf \in [Workers -> Contents]
  /\ rslot \in [Workers -> Ram!Slots]
  /\ ram \in Ram!CacheType /\ slab \in [Ram!Slots -> Contents]
  /\ dev \in [Slots -> Contents]

(* A worker's step within the tier or a read, that keeps the tier's part   *)
(* of the invariant, keeps the invariant.                                  *)
LEMMA TierStep ==
  ASSUME IInv, NEW w \in Workers, UNCHANGED <<lockVars, dev, queue, clientVars, job>>,
         \A v \in Workers \ {w} : wpc'[v] = wpc[v] /\ buf'[v] = buf[v],
         wpc[w] \notin {"starting", "idle", "dead", "lost"},
         wpc'[w] \notin {"starting", "idle", "dead", "lost"},
         WorkerTypes', WorkerOK(w)', RamOK'
  PROVE  IInv'
<1>1. \A v \in Workers : Working(v)' <=> Working(v)
  BY DEF Working
<1>2. NoneAlive => NoneAlive'
  BY DEF NoneAlive, Alive
<1>3. TypeOK'
  BY DEF IInv, TypeOK, Locals, WorkerTypes, lockVars, clientVars
<1>4. \A v \in Workers : WorkerOK(v)'
  <2>. SUFFICES ASSUME NEW v \in Workers \ {w} PROVE WorkerOK(v)'
    OBVIOUS
  <2>1. WorkerOK(v)
    BY DEF IInv
  <2>. QED  BY <2>1 DEF WorkerOK
<1>. QED  BY <1>1, <1>2, <1>3, <1>4, DeviceAside DEF IInv

(* A worker's step that leaves the tier alone as well.                     *)
LEMMA TierAside ==
  ASSUME IInv, NEW w \in Workers, UNCHANGED <<ram, slab, rslot>>,
         \A v \in Workers \ {w} : wpc'[v] = wpc[v] /\ job'[v] = job[v],
         ~ReadsSlab(w), ~FillsSlab(w), ~ReadsSlab(w)', ~FillsSlab(w)'
  PROVE  RamOK'
<1>1. \A v \in Workers : (ReadsSlab(v)' <=> ReadsSlab(v)) /\ (FillsSlab(v)' <=> FillsSlab(v))
  BY DEF ReadsSlab, FillsSlab
<1>2. \A s : SlabUsers(s)' = SlabUsers(s)
  BY <1>1 DEF SlabUsers
<1>3. RamOK
  BY DEF IInv
<1>4. RamP!MapsPoint(ram)' /\ \A s \in Ram!Slots : SlabOK(s)'
  BY <1>2, <1>3 DEF RamOK, SlabOK, RamP!MapsPoint
<1>5. ASSUME NEW v \in Workers
      PROVE  UserOK(v)'
  <2>1. UserOK(v)
    BY <1>3 DEF RamOK
  <2>2. CASE v = w
    BY <1>1, <2>2 DEF UserOK, FillsSlab
  <2>3. CASE v # w
    <3>1. wpc'[v] = wpc[v] /\ job'[v] = job[v] /\ rslot'[v] = rslot[v]
      BY <2>3
    <3>. QED  BY <1>1, <1>2, <2>1, <3>1 DEF UserOK
  <2>. QED  BY <2>2, <2>3
<1>. QED  BY <1>4, <1>5 DEF RamOK

(* The other users of slabs when one slab changes hands or contents: those *)
(* of that slab, if any, find it as it was and not being filled.           *)
LEMMA UserAside ==
  ASSUME IInv, NEW w \in Workers, NEW v \in Workers, v # w, NEW s,
         \A x \in Workers \ {w} : wpc'[x] = wpc[x] /\ rslot'[x] = rslot[x],
         job'[v] = job[v],
         \A t \in Ram!Slots \ {s} :
           /\ ram'.ready[t] <=> ram.ready[t]
           /\ ram'.id[t] = ram.id[t] /\ slab'[t] = slab[t]
           /\ w \in SlabUsers(t)' => w \in SlabUsers(t),
         v \in SlabUsers(s) =>
           /\ ~FillsSlab(v) \/ w \notin SlabUsers(s)'
           /\ ram'.ready[s] <=> ram.ready[s]
           /\ ram'.id[s] = ram.id[s] /\ slab'[s] = slab[s]
  PROVE  UserOK(v)'
<1>1. PICK r \in Ram!Slots : r = rslot[v] /\ r = rslot'[v]
  BY DEF IInv, TypeOK, Locals
<1>2. UserOK(v)
  BY DEF IInv, RamOK
<1>3. /\ (ReadsSlab(v)' <=> ReadsSlab(v)) /\ (FillsSlab(v)' <=> FillsSlab(v))
      /\ wpc'[v] = wpc[v] /\ (wpc[v] = "ramPublish" => FillsSlab(v))
  BY DEF ReadsSlab, FillsSlab
<1>4. CASE ~ReadsSlab(v) /\ ~FillsSlab(v)
  BY <1>3, <1>4 DEF UserOK
<1>5. CASE ReadsSlab(v) \/ FillsSlab(v)
  <2>1. v \in SlabUsers(r)
    BY <1>1, <1>5 DEF SlabUsers
  <2>2. /\ ram'.ready[r] <=> ram.ready[r]
        /\ ram'.id[r] = ram.id[r] /\ slab'[r] = slab[r]
        /\ FillsSlab(v) => (w \in SlabUsers(r)' => w \in SlabUsers(r))
    BY <1>1, <2>1
  <2>3. FillsSlab(v) => \A x \in Workers \ {v} : x \notin SlabUsers(r)
    BY <1>1, <1>2 DEF UserOK
  <2>4. \A x \in Workers \ {w} : x \in SlabUsers(r)' <=> x \in SlabUsers(r)
    BY DEF SlabUsers, ReadsSlab, FillsSlab
  <2>5. FillsSlab(v) => \A x \in Workers \ {v} : x \notin SlabUsers(r)'
    BY <2>2, <2>3, <2>4
  <2>. QED  BY <1>1, <1>2, <1>3, <2>2, <2>5 DEF UserOK
<1>. QED  BY <1>4, <1>5

(* get: the worker becomes a reader of a published slab, or goes to read.  *)
LEMMA RamGetKeeps ==
  ASSUME IInv, NEW w \in Workers, RamGet(w)
  PROVE  IInv'
<1>1. /\ wpc[w] = "ramGet" /\ ram \in Ram!CacheType /\ RamP!MapsPoint(ram)
      /\ job[w].id \in Ids /\ WorkerOK(w)
      /\ UNCHANGED <<lockVars, slab, dev, queue, clientVars, job, buf>>
  BY DEF RamGet, IInv, TypeOK, Locals, RamOK, Jobs
<1>2. CASE Ram!ReadyHit(ram, job[w].id)
  <2>1. PICK s \in Ram!Slots :
           /\ s = Ram!SlotFor(ram, job[w].id) /\ ram.id[s] = job[w].id /\ ram.ready[s]
           /\ Ram!Pin(ram, s) \in Ram!CacheType /\ RamP!MapsPoint(Ram!Pin(ram, s))
           /\ Ram!Pin(ram, s).id = ram.id /\ Ram!Pin(ram, s).ready = ram.ready
           /\ \A u \in Ram!Slots :
                Ram!Pin(ram, s).pins[u] = IF u = s THEN ram.pins[u] + 1 ELSE ram.pins[u]
    BY <1>1, <1>2, SlabFound
  <2>2. /\ ram' = Ram!Pin(ram, s)
        /\ rslot' = [rslot EXCEPT ![w] = s]
        /\ wpc' = [wpc EXCEPT ![w] = "ramCopy"]
    BY <1>2, <2>1 DEF RamGet
  <2>3. /\ wpc'[w] = "ramCopy" /\ rslot'[w] = s
        /\ \A v \in Workers \ {w} : wpc'[v] = wpc[v] /\ rslot'[v] = rslot[v]
    BY <2>2 DEF IInv, TypeOK, Locals
  <2>4. WorkerTypes'
    BY <1>1, <2>1, <2>2 DEF WorkerTypes, IInv, TypeOK, Locals
  <2>5. w \notin SlabUsers(s) /\ w \in SlabUsers(s)'
        /\ \A t \in Ram!Slots \ {s} : w \notin SlabUsers(t) /\ w \notin SlabUsers(t)'
    BY <1>1, <2>3 DEF SlabUsers, ReadsSlab, FillsSlab
  <2>6. RamP!MapsPoint(ram)'
    BY <2>1, <2>2 DEF RamP!MapsPoint
  <2>7. ASSUME NEW t \in Ram!Slots
        PROVE  SlabOK(t)'
    <3>1. SlabOK(t)
      BY DEF IInv, RamOK
    <3>2. ram'.pins[t] = Cardinality(SlabUsers(t)')
      BY <2>1, <2>2, <2>3, <2>5, <3>1, UsersCount DEF SlabOK
    <3>. QED  BY <1>1, <2>1, <2>2, <3>1, <3>2 DEF SlabOK
  <2>8. ASSUME NEW v \in Workers
        PROVE  UserOK(v)'
    <3>1. UserOK(v)
      BY DEF IInv, RamOK
    <3>2. CASE v = w
      BY <1>1, <2>1, <2>2, <2>3, <3>2 DEF UserOK, ReadsSlab, FillsSlab
    <3>3. CASE v # w
      <4>1. v \in SlabUsers(s) => ~FillsSlab(v)
        BY <2>1, <3>1 DEF UserOK, SlabUsers
      <4>2. \A t \in Ram!Slots :
              /\ ram'.ready[t] <=> ram.ready[t]
              /\ ram'.id[t] = ram.id[t] /\ slab'[t] = slab[t]
        BY <1>1, <2>1, <2>2
      <4>. QED  BY <1>1, <2>3, <2>5, <3>3, <4>1, <4>2, UserAside
    <3>. QED  BY <3>2, <3>3
  <2>9. RamOK'
    BY <2>6, <2>7, <2>8 DEF RamOK
  <2>10. WorkerOK(w)'
    BY <1>1, <2>3 DEF WorkerOK
  <2>11. \A v \in Workers \ {w} : wpc'[v] = wpc[v] /\ buf'[v] = buf[v]
    BY <1>1, <2>3
  <2>. QED  BY <1>1, <2>3, <2>4, <2>9, <2>10, <2>11, TierStep
<1>3. CASE ~Ram!ReadyHit(ram, job[w].id)
  <2>1. wpc' = [wpc EXCEPT ![w] = "read"] /\ UNCHANGED <<ram, rslot>>
    BY <1>3 DEF RamGet
  <2>2. /\ wpc'[w] = "read"
        /\ \A v \in Workers \ {w} : wpc'[v] = wpc[v] /\ buf'[v] = buf[v] /\ job'[v] = job[v]
    BY <1>1, <2>1 DEF IInv, TypeOK, Locals
  <2>3. WorkerTypes'
    BY <1>1, <2>1 DEF WorkerTypes, IInv, TypeOK, Locals
  <2>4. RamOK'
    BY <1>1, <2>1, <2>2, TierAside DEF ReadsSlab, FillsSlab
  <2>5. WorkerOK(w)'
    BY <1>1, <2>2 DEF WorkerOK
  <2>. QED  BY <1>1, <2>2, <2>3, <2>4, <2>5, TierStep
<1>. QED  BY <1>2, <1>3

(* The copy of a pinned slab, which is published.                          *)
LEMMA RamCopyKeeps ==
  ASSUME IInv, NEW w \in Workers, RamCopy(w)
  PROVE  IInv'
<1>1. /\ wpc[w] = "ramCopy" /\ WorkerOK(w) /\ UserOK(w)
      /\ buf' = [buf EXCEPT ![w] = slab[rslot[w]]]
      /\ wpc' = [wpc EXCEPT ![w] = "ramRelease"]
      /\ UNCHANGED <<lockVars, ramVars, dev, queue, clientVars, job, rslot>>
  BY DEF RamCopy, IInv, RamOK
<1>2. PICK r \in Ram!Slots : r = rslot[w] /\ r = rslot'[w]
  BY <1>1 DEF IInv, TypeOK, Locals
<1>3. slab[r] = Whole(job[w].id) /\ slab[r] \in Contents
  <2>1. SlabOK(r)
    BY DEF IInv, RamOK
  <2>. QED  BY <1>1, <1>2, <2>1 DEF SlabOK, UserOK, ReadsSlab, IInv, TypeOK
<1>4. /\ wpc'[w] = "ramRelease" /\ buf'[w] = slab[r]
      /\ \A v \in Workers \ {w} : wpc'[v] = wpc[v] /\ buf'[v] = buf[v]
  BY <1>1, <1>2 DEF IInv, TypeOK, Locals
<1>5. WorkerTypes'
  BY <1>1, <1>2, <1>3 DEF WorkerTypes, IInv, TypeOK, Locals, ramVars
<1>6. \A v \in Workers : (ReadsSlab(v)' <=> ReadsSlab(v)) /\ (FillsSlab(v)' <=> FillsSlab(v))
  BY <1>1, <1>4 DEF ReadsSlab, FillsSlab
<1>7. \A t : SlabUsers(t)' = SlabUsers(t)
  BY <1>1, <1>6 DEF SlabUsers
<1>8. RamOK'
  <2>1. RamOK /\ \A v \in Workers : wpc'[v] = "ramPublish" => wpc[v] = "ramPublish"
    BY <1>1, <1>4 DEF IInv
  <2>2. RamP!MapsPoint(ram)' /\ \A s \in Ram!Slots : SlabOK(s)'
    BY <1>1, <1>7, <2>1 DEF RamOK, SlabOK, RamP!MapsPoint, ramVars
  <2>3. \A v \in Workers : UserOK(v)'
    BY <1>1, <1>6, <1>7, <2>1 DEF RamOK, UserOK, ramVars
  <2>. QED  BY <2>2, <2>3 DEF RamOK
<1>9. WorkerOK(w)'
  BY <1>1, <1>3, <1>4 DEF WorkerOK
<1>. QED  BY <1>1, <1>4, <1>5, <1>8, <1>9, TierStep

(* A worker gives a slab back, a reader or the writer that publishes it.   *)
LEMMA SlabGivenBack ==
  ASSUME IInv, NEW w \in Workers, NEW s \in Ram!Slots, w \in SlabUsers(s),
         wpc'[w] \in {"copyStored", "copyRaw"},
         \A x \in Workers \ {w} : wpc'[x] = wpc[x] /\ rslot'[x] = rslot[x],
         UNCHANGED <<slab, job>>,
         RamP!MapsPoint(ram'),
         \A t \in Ram!Slots :
           /\ ram'.pins[t] = IF t = s THEN ram.pins[t] - 1 ELSE ram.pins[t]
           /\ ram'.id[t] = ram.id[t]
           /\ \/ ram'.ready[t] <=> ram.ready[t]
              \/ t = s /\ slab[s] = Whole(ram.id[s]) /\ FillsSlab(w)
  PROVE  RamOK'
<1>1. rslot[w] = s /\ \A t \in Ram!Slots \ {s} : w \notin SlabUsers(t)
  BY DEF SlabUsers
<1>2. \A t : w \notin SlabUsers(t)'
  BY DEF SlabUsers, ReadsSlab, FillsSlab
<1>3. ASSUME NEW t \in Ram!Slots
      PROVE  SlabOK(t)'
  <2>1. SlabOK(t)
    BY DEF IInv, RamOK
  <2>2. ram'.pins[t] = Cardinality(SlabUsers(t)')
    BY <1>1, <1>2, <2>1, UsersCount DEF SlabOK
  <2>3. ram'.ready[t] => slab'[t] = Whole(ram'.id[t])
    BY <2>1 DEF SlabOK
  <2>. QED  BY <2>2, <2>3 DEF SlabOK
<1>4. ASSUME NEW v \in Workers
      PROVE  UserOK(v)'
  <2>1. CASE v = w
    BY <2>1 DEF UserOK, ReadsSlab, FillsSlab
  <2>2. CASE v # w
    <3>1. v \in SlabUsers(s) => ~FillsSlab(w)
      <4>1. UserOK(w)
        BY DEF IInv, RamOK
      <4>. QED  BY <1>1, <2>2, <4>1 DEF UserOK
    <3>. QED  BY <1>2, <2>2, <3>1, UserAside
  <2>. QED  BY <2>1, <2>2
<1>5. RamP!MapsPoint(ram)'
  BY DEF RamP!MapsPoint
<1>. QED  BY <1>3, <1>4, <1>5 DEF RamOK

(* The reader's unpin.                                                     *)
LEMMA RamReleaseKeeps ==
  ASSUME IInv, NEW w \in Workers, RamRelease(w)
  PROVE  IInv'
<1>1. /\ wpc[w] = "ramRelease" /\ WorkerOK(w) /\ RamP!MapsPoint(ram) /\ ram \in Ram!CacheType
      /\ rslot' = [rslot EXCEPT ![w] = 0]
      /\ wpc' = [wpc EXCEPT ![w] = "copyStored"]
      /\ UNCHANGED <<lockVars, slab, dev, queue, clientVars, job, buf>>
  BY DEF RamRelease, IInv, RamOK, TypeOK
<1>2. PICK s \in Ram!Slots : s = rslot[w]
  BY DEF IInv, TypeOK, Locals
<1>3. w \in SlabUsers(s)
  BY <1>1, <1>2 DEF SlabUsers, ReadsSlab
<1>4. /\ wpc'[w] = "copyStored"
      /\ \A v \in Workers \ {w} : wpc'[v] = wpc[v] /\ buf'[v] = buf[v] /\ rslot'[v] = rslot[v]
  BY <1>1 DEF IInv, TypeOK, Locals
<1>5. ram.pins[s] > 0
  <2>1. SlabOK(s)
    BY DEF IInv, RamOK
  <2>. QED  BY <1>3, <1>4, <2>1, UsersCount DEF SlabOK
<1>6. PICK n : n = Ram!Release(ram, s) /\ ram' = n
  BY <1>2 DEF RamRelease
<1>7. /\ n \in Ram!CacheType /\ RamP!MapsPoint(n)
      /\ n.id = ram.id /\ n.ready = ram.ready
      /\ \A u \in Ram!Slots : n.pins[u] = IF u = s THEN ram.pins[u] - 1 ELSE ram.pins[u]
  BY <1>1, <1>5, <1>6, SlabReleased
<1>8. 0 \in Ram!Slots
  BY PagerAssumption DEF Ram!Slots
<1>9. WorkerTypes'
  BY <1>1, <1>6, <1>7, <1>8 DEF WorkerTypes, IInv, TypeOK, Locals
<1>10. RamOK'
  BY <1>1, <1>3, <1>6, <1>7, <1>4, SlabGivenBack
<1>11. WorkerOK(w)'
  BY <1>1, <1>4 DEF WorkerOK
<1>. QED  BY <1>1, <1>4, <1>9, <1>10, <1>11, TierStep

(* The read of the pack.                                                   *)
LEMMA ReadBlobKeeps ==
  ASSUME IInv, NEW w \in Workers, ReadBlob(w)
  PROVE  IInv'
<1>1. /\ wpc[w] = "read" /\ WorkerOK(w) /\ job[w].id \in Ids
      /\ buf' = [buf EXCEPT ![w] = Whole(job[w].id)]
      /\ wpc' = [wpc EXCEPT ![w] = IF HasRam THEN "ramPut" ELSE "copyRaw"]
      /\ UNCHANGED <<lockVars, ramVars, dev, queue, clientVars, job, rslot>>
  BY DEF ReadBlob, IInv, TypeOK, Locals, Jobs
<1>2. /\ wpc'[w] \in {"ramPut", "copyRaw"} /\ buf'[w] = Whole(job[w].id)
      /\ \A v \in Workers \ {w} : wpc'[v] = wpc[v] /\ buf'[v] = buf[v] /\ job'[v] = job[v]
  BY <1>1 DEF IInv, TypeOK, Locals
<1>3. WorkerTypes'
  BY <1>1 DEF WorkerTypes, IInv, TypeOK, Locals, ramVars, Contents, Whole
<1>4. RamOK'
  BY <1>1, <1>2, TierAside DEF ReadsSlab, FillsSlab, ramVars
<1>5. WorkerOK(w)'
  BY <1>1, <1>2 DEF WorkerOK
<1>. QED  BY <1>1, <1>2, <1>3, <1>4, <1>5, TierStep

(* put: the worker becomes the only user of a slab that had none, or skips *)
(* an expert that another worker has put or is putting, or a full tier.    *)
LEMMA RamPutKeeps ==
  ASSUME IInv, NEW w \in Workers, RamPut(w)
  PROVE  IInv'
<1>1. /\ wpc[w] = "ramPut" /\ WorkerOK(w) /\ RamP!MapsPoint(ram) /\ ram \in Ram!CacheType
      /\ UNCHANGED <<lockVars, slab, dev, queue, clientVars, job, buf>>
      /\ ~ReadsSlab(w) /\ ~FillsSlab(w)
  BY DEF RamPut, IInv, RamOK, TypeOK, ReadsSlab, FillsSlab
<1>2. PICK id \in Ids : id = job[w].id
  BY DEF IInv, TypeOK, Locals, Jobs
<1>3. CASE Ram!Misses(ram, id) /\ ram' = Ram!Acquire(ram, id)
           /\ rslot' = [rslot EXCEPT ![w] = Ram!AcquireSlot(ram, id)]
           /\ wpc' = [wpc EXCEPT ![w] = "ramWrite"]
  <2>1. PICK s \in Ram!Slots :
           /\ s = Ram!AcquireSlot(ram, id) /\ ram.pins[s] = 0
           /\ Ram!Acquire(ram, id) \in Ram!CacheType /\ RamP!MapsPoint(Ram!Acquire(ram, id))
           /\ \A u \in Ram!Slots :
                /\ Ram!Acquire(ram, id).pins[u] = IF u = s THEN 1 ELSE ram.pins[u]
                /\ Ram!Acquire(ram, id).id[u] = IF u = s THEN id ELSE ram.id[u]
                /\ Ram!Acquire(ram, id).ready[u] <=> u # s /\ ram.ready[u]
    BY <1>1, <1>3, SlabClaimed
  <2>2. /\ wpc'[w] = "ramWrite" /\ rslot'[w] = s
        /\ \A v \in Workers \ {w} : wpc'[v] = wpc[v] /\ rslot'[v] = rslot[v] /\ buf'[v] = buf[v]
    BY <1>1, <1>3, <2>1 DEF IInv, TypeOK, Locals
  <2>3. WorkerTypes'
    BY <1>1, <1>3, <2>1 DEF WorkerTypes, IInv, TypeOK, Locals
  <2>4. w \notin SlabUsers(s) /\ w \in SlabUsers(s)'
        /\ \A t \in Ram!Slots \ {s} : w \notin SlabUsers(t) /\ w \notin SlabUsers(t)'
    BY <1>1, <2>2 DEF SlabUsers, ReadsSlab, FillsSlab
  <2>5. Cardinality(SlabUsers(s)) = 0
    BY <2>1 DEF IInv, RamOK, SlabOK
  <2>6. \A v \in Workers : v \notin SlabUsers(s)
    BY <2>2, <2>5, UsersCount
  <2>7. Cardinality(SlabUsers(s)') = 1
    BY <2>2, <2>4, <2>5, UsersCount
  <2>8. ASSUME NEW t \in Ram!Slots
        PROVE  SlabOK(t)'
    <3>1. SlabOK(t)
      BY DEF IInv, RamOK
    <3>2. ram'.pins[t] = Cardinality(SlabUsers(t)')
      <4>1. CASE t = s
        BY <1>3, <2>1, <2>7, <4>1
      <4>2. CASE t # s
        BY <1>3, <2>1, <2>2, <2>4, <3>1, <4>2, UsersCount DEF SlabOK
      <4>. QED  BY <4>1, <4>2
    <3>. QED  BY <1>1, <1>3, <2>1, <3>1, <3>2 DEF SlabOK
  <2>9. ASSUME NEW v \in Workers
        PROVE  UserOK(v)'
    <3>1. CASE v = w
      <4>1. \A x \in Workers \ {w} : x \notin SlabUsers(s)'
        BY <2>2, <2>6, UsersCount
      <4>. QED  BY <1>1, <1>2, <1>3, <2>1, <2>2, <3>1, <4>1 DEF UserOK, ReadsSlab, FillsSlab
    <3>2. CASE v # w
      <4>1. \A t \in Ram!Slots \ {s} :
              /\ ram'.ready[t] <=> ram.ready[t]
              /\ ram'.id[t] = ram.id[t] /\ slab'[t] = slab[t]
        BY <1>1, <1>3, <2>1
      <4>. QED  BY <1>1, <2>2, <2>4, <2>6, <3>2, <4>1, UserAside
    <3>. QED  BY <3>1, <3>2
  <2>10. RamOK'
    BY <1>3, <2>1, <2>8, <2>9 DEF RamOK, RamP!MapsPoint
  <2>11. WorkerOK(w)'
    BY <1>1, <2>2 DEF WorkerOK
  <2>. QED  BY <1>1, <2>2, <2>3, <2>10, <2>11, TierStep
<1>4. ASSUME wpc' = [wpc EXCEPT ![w] = "copyRaw"], UNCHANGED rslot,
             ram' \in Ram!CacheType, RamP!MapsPoint(ram'),
             ram'.id = ram.id, ram'.ready = ram.ready,
             \A u \in Ram!Slots : ram'.pins[u] = ram.pins[u]
      PROVE  IInv'
  <2>1. /\ wpc'[w] = "copyRaw"
        /\ \A v \in Workers \ {w} : wpc'[v] = wpc[v] /\ buf'[v] = buf[v] /\ job'[v] = job[v]
    BY <1>1, <1>4 DEF IInv, TypeOK, Locals
  <2>2. WorkerTypes'
    BY <1>1, <1>4 DEF WorkerTypes, IInv, TypeOK, Locals
  <2>3. \A v \in Workers : (ReadsSlab(v)' <=> ReadsSlab(v)) /\ (FillsSlab(v)' <=> FillsSlab(v))
    BY <1>1, <2>1 DEF ReadsSlab, FillsSlab
  <2>4. \A t : SlabUsers(t)' = SlabUsers(t)
    BY <1>4, <2>3 DEF SlabUsers
  <2>5. RamOK'
    <3>1. RamOK
      BY DEF IInv
    <3>2. RamP!MapsPoint(ram)'
      BY <1>4 DEF RamP!MapsPoint
    <3>3. \A s \in Ram!Slots : SlabOK(s)'
      BY <1>1, <1>4, <2>4, <3>1 DEF RamOK, SlabOK
    <3>4. ASSUME NEW v \in Workers
          PROVE  UserOK(v)'
      <4>1. UserOK(v)
        BY <3>1 DEF RamOK
      <4>2. wpc'[v] = "ramPublish" => wpc[v] = "ramPublish"
        BY <2>1
      <4>. QED  BY <1>1, <1>4, <2>3, <2>4, <4>1, <4>2 DEF UserOK
    <3>. QED  BY <3>2, <3>3, <3>4 DEF RamOK
  <2>6. WorkerOK(w)'
    BY <1>1, <2>1 DEF WorkerOK
  <2>. QED  BY <1>1, <2>1, <2>2, <2>5, <2>6, TierStep
<1>5. CASE Ram!Hits(ram, id) /\ wpc' = [wpc EXCEPT ![w] = "copyRaw"] /\ UNCHANGED rslot
           /\ ram' = Ram!Release(Ram!Acquire(ram, id), Ram!AcquireSlot(ram, id))
  <2>1. PICK n : n = Ram!Release(Ram!Acquire(ram, id), Ram!AcquireSlot(ram, id))
    OBVIOUS
  <2>2. /\ n \in Ram!CacheType /\ RamP!MapsPoint(n)
        /\ n.id = ram.id /\ n.ready = ram.ready
        /\ \A u \in Ram!Slots : n.pins[u] = ram.pins[u]
    BY <1>1, <1>5, <2>1, SlabTouched
  <2>. QED  BY <1>4, <1>5, <2>1, <2>2
<1>6. CASE wpc' = [wpc EXCEPT ![w] = "copyRaw"] /\ UNCHANGED <<ram, rslot>>
  BY <1>1, <1>4, <1>6
<1>. QED  BY <1>2, <1>3, <1>5, <1>6 DEF RamPut

(* The copy into a claimed slab, which nobody else uses.                   *)
LEMMA RamWriteKeeps ==
  ASSUME IInv, NEW w \in Workers, RamWrite(w)
  PROVE  IInv'
<1>1. /\ wpc[w] = "ramWrite" /\ WorkerOK(w) /\ UserOK(w)
      /\ slab' = [slab EXCEPT ![rslot[w]] = buf[w]]
      /\ wpc' = [wpc EXCEPT ![w] = "ramPublish"]
      /\ UNCHANGED <<lockVars, ram, dev, queue, clientVars, job, buf, rslot>>
  BY DEF RamWrite, IInv, RamOK
<1>2. PICK s \in Ram!Slots : s = rslot[w] /\ s = rslot'[w]
  BY <1>1 DEF IInv, TypeOK, Locals
<1>3. /\ wpc'[w] = "ramPublish"
      /\ \A v \in Workers \ {w} : wpc'[v] = wpc[v] /\ buf'[v] = buf[v] /\ rslot'[v] = rslot[v]
      /\ slab'[s] = Whole(job[w].id) /\ \A t \in Ram!Slots \ {s} : slab'[t] = slab[t]
      /\ job' = job
  BY <1>1, <1>2 DEF IInv, TypeOK, Locals, WorkerOK
<1>4. WorkerTypes'
  BY <1>1, <1>2 DEF WorkerTypes, IInv, TypeOK, Locals
<1>5. \A v \in Workers : (ReadsSlab(v)' <=> ReadsSlab(v)) /\ (FillsSlab(v)' <=> FillsSlab(v))
  BY <1>1, <1>3 DEF ReadsSlab, FillsSlab
<1>6. \A t : SlabUsers(t)' = SlabUsers(t)
  BY <1>1, <1>5 DEF SlabUsers
<1>7. /\ ~ram.ready[s] /\ ram.id[s] = job[w].id
      /\ \A v \in Workers \ {w} : v \notin SlabUsers(s)
  BY <1>1, <1>2 DEF UserOK, FillsSlab
<1>8. RamOK'
  <2>1. RamP!MapsPoint(ram)'
    BY <1>1 DEF IInv, RamOK, RamP!MapsPoint
  <2>2. \A t \in Ram!Slots : SlabOK(t)'
    BY <1>1, <1>3, <1>6, <1>7 DEF IInv, RamOK, SlabOK
  <2>3. ASSUME NEW v \in Workers
        PROVE  UserOK(v)'
    <3>1. CASE v = w
      BY <1>1, <1>2, <1>3, <1>6, <1>7, <3>1 DEF UserOK, ReadsSlab
    <3>2. CASE v # w
      BY <1>1, <1>3, <1>6, <1>7, <3>2, UserAside
    <3>. QED  BY <3>1, <3>2
  <2>. QED  BY <2>1, <2>2, <2>3 DEF RamOK
<1>9. WorkerOK(w)'
  BY <1>1, <1>3 DEF WorkerOK
<1>. QED  BY <1>1, <1>3, <1>4, <1>8, <1>9, TierStep

(* The writer publishes its slab and unpins it.                            *)
LEMMA RamPublishKeeps ==
  ASSUME IInv, NEW w \in Workers, RamPublish(w)
  PROVE  IInv'
<1>1. /\ wpc[w] = "ramPublish" /\ WorkerOK(w) /\ UserOK(w)
      /\ RamP!MapsPoint(ram) /\ ram \in Ram!CacheType
      /\ rslot' = [rslot EXCEPT ![w] = 0]
      /\ wpc' = [wpc EXCEPT ![w] = "copyRaw"]
      /\ UNCHANGED <<lockVars, slab, dev, queue, clientVars, job, buf>>
  BY DEF RamPublish, IInv, RamOK, TypeOK
<1>2. PICK s \in Ram!Slots : s = rslot[w]
  BY DEF IInv, TypeOK, Locals
<1>3. w \in SlabUsers(s) /\ FillsSlab(w)
  BY <1>1, <1>2 DEF SlabUsers, FillsSlab
<1>4. /\ wpc'[w] = "copyRaw"
      /\ \A v \in Workers \ {w} : wpc'[v] = wpc[v] /\ buf'[v] = buf[v] /\ rslot'[v] = rslot[v]
  BY <1>1 DEF IInv, TypeOK, Locals
<1>5. ram.pins[s] > 0
  <2>1. SlabOK(s)
    BY DEF IInv, RamOK
  <2>. QED  BY <1>3, <1>4, <2>1, UsersCount DEF SlabOK
<1>6. slab[s] = Whole(ram.id[s])
  BY <1>1, <1>2, <1>3 DEF UserOK
<1>7. PICK p : p = Ram!Publish(ram, s)
  OBVIOUS
<1>8. PICK n : n = Ram!Release(p, s) /\ ram' = n
  BY <1>2, <1>7 DEF RamPublish
<1>9. /\ p \in Ram!CacheType /\ RamP!MapsPoint(p)
      /\ p.id = ram.id /\ p.pins = ram.pins
      /\ \A u \in Ram!Slots : p.ready[u] <=> u = s \/ ram.ready[u]
  BY <1>1, <1>7, SlabPublished
<1>10. /\ n \in Ram!CacheType /\ RamP!MapsPoint(n)
       /\ n.id = p.id /\ n.ready = p.ready
       /\ \A u \in Ram!Slots : n.pins[u] = IF u = s THEN p.pins[u] - 1 ELSE p.pins[u]
  BY <1>5, <1>8, <1>9, SlabReleased
<1>11. 0 \in Ram!Slots
  BY PagerAssumption DEF Ram!Slots
<1>12. WorkerTypes'
  BY <1>1, <1>8, <1>10, <1>11 DEF WorkerTypes, IInv, TypeOK, Locals
<1>13. RamOK'
  <2>1. \A t \in Ram!Slots :
          /\ ram'.pins[t] = IF t = s THEN ram.pins[t] - 1 ELSE ram.pins[t]
          /\ ram'.id[t] = ram.id[t]
          /\ \/ ram'.ready[t] <=> ram.ready[t]
             \/ t = s /\ slab[s] = Whole(ram.id[s]) /\ FillsSlab(w)
    BY <1>3, <1>6, <1>8, <1>9, <1>10
  <2>. QED  BY <1>1, <1>3, <1>4, <1>8, <1>10, <2>1, SlabGivenBack
<1>14. WorkerOK(w)'
  BY <1>1, <1>4 DEF WorkerOK
<1>. QED  BY <1>1, <1>4, <1>12, <1>13, <1>14, TierStep

-----------------------------------------------------------------------------
(* Workers: start, the channel, the device and the end of a fill.          *)

(* A worker has opened its reader and its stream.                          *)
LEMMA StartKeeps ==
  ASSUME IInv, NEW w \in Workers, Start(w)
  PROVE  IInv'
<1>1. /\ wpc[w] = "starting" /\ wpc' = [wpc EXCEPT ![w] = "idle"] /\ WorkerOK(w)
      /\ UNCHANGED <<lockVars, ramVars, dev, queue, clientVars, job, buf, rslot>>
  BY DEF Start, IInv
<1>2. wpc'[w] = "idle" /\ \A v \in Workers \ {w} : wpc'[v] = wpc[v]
  BY <1>1 DEF IInv, TypeOK, Locals
<1>3. TypeOK'
  BY <1>1 DEF IInv, TypeOK, Locals, lockVars, ramVars, clientVars
<1>4. \A v \in Workers : Working(v)' <=> Working(v)
  BY <1>1, <1>2 DEF Working
<1>5. ~NoneAlive
  BY <1>1 DEF NoneAlive, Alive
<1>6. RamOK'
  BY <1>1, <1>2, TierAside DEF ReadsSlab, FillsSlab, ramVars
<1>7. \A v \in Workers : WorkerOK(v)'
  BY <1>1, <1>2 DEF IInv, WorkerOK
<1>. QED  BY <1>1, <1>3, <1>4, <1>5, <1>6, <1>7, DeviceAside DEF IInv

(* The job at the front of the channel goes to a worker, and the jobs      *)
(* behind it move up: every slot has as many jobs as before, and the same. *)
LEMMA JobReceived ==
  ASSUME IInv, NEW w \in Workers, wpc[w] = "idle", queue # <<>>,
         queue' = Tail(queue), job' = [job EXCEPT ![w] = Head(queue)],
         Working(w)', \A v \in Workers \ {w} : wpc'[v] = wpc[v],
         UNCHANGED <<pc, sending>>, NEW s
  PROVE  /\ CarriersOf(s) = {} => CarriersOf(s)' = {}
         /\ \A k : CarriersOf(s) = {k} =>
              \E l : CarriersOf(s)' = {l} /\ l[3] = k[3] /\ (IsUnsent(l) <=> IsUnsent(k))
<1>. DEFINE Moves(k, l) ==
       \/ l = k /\ k[1] = "client"
       \/ l = k /\ k[1] = "worker"
       \/ l = <<"worker", w, queue[1]>> /\ k = <<"channel", 1, queue[1]>>
       \/ \E i \in DOMAIN Tail(queue) :
            l = <<"channel", i, queue[i + 1]>> /\ k = <<"channel", i + 1, queue[i + 1]>>
<1>1. queue \in Seq(Jobs) /\ job \in [Workers -> Jobs]
  BY DEF IInv, TypeOK, Locals
<1>2. /\ Head(queue) = queue[1] /\ 1 \in DOMAIN queue
      /\ \A i \in DOMAIN Tail(queue) :
           i + 1 \in DOMAIN queue /\ i + 1 # 1 /\ Tail(queue)[i] = queue[i + 1]
      /\ \A i, j \in DOMAIN Tail(queue) : i + 1 = j + 1 => i = j
  BY <1>1, TailOf
<1>3. \A i \in DOMAIN queue : i # 1 => \E j \in DOMAIN Tail(queue) : i = j + 1
  <2>1. Len(queue) \in Nat \ {0} /\ DOMAIN queue = 1 .. Len(queue)
        /\ DOMAIN Tail(queue) = 1 .. Len(queue) - 1
    BY <1>1
  <2>. SUFFICES ASSUME NEW i \in DOMAIN queue, i # 1
                PROVE  \E j \in DOMAIN Tail(queue) : i = j + 1
    OBVIOUS
  <2>2. i - 1 \in DOMAIN Tail(queue) /\ i = (i - 1) + 1
    BY <2>1
  <2>. QED  BY <2>2
<1>4. /\ job'[w] = queue[1] /\ \A v \in Workers \ {w} : job'[v] = job[v]
      /\ ~Working(w) /\ \A v \in Workers \ {w} : Working(v)' <=> Working(v)
  BY <1>1, <1>2 DEF Working
<1>5. \A c \in Clients : Sending(c)' <=> Sending(c)
  BY DEF Sending
<1>6. ASSUME NEW l \in CarriersOf(s)'
      PROVE  \E k \in CarriersOf(s) : Moves(k, l)
  <2>1. CASE \E c \in Clients : /\ Sending(c)' /\ l = <<"client", c, sending'[c]>>
                                /\ sending'[c].slot = s
    BY <1>5, <2>1, CarrierIs
  <2>2. CASE \E i \in DOMAIN queue' : l = <<"channel", i, queue'[i]>> /\ queue'[i].slot = s
    <3>1. PICK i \in DOMAIN Tail(queue) :
             l = <<"channel", i, queue[i + 1]>> /\ queue[i + 1].slot = s
      BY <1>2, <2>2
    <3>2. <<"channel", i + 1, queue[i + 1]>> \in CarriersOf(s)
      BY <1>2, <3>1, CarrierIs
    <3>. QED  BY <3>1, <3>2
  <2>3. CASE \E v \in Workers : Working(v)' /\ l = <<"worker", v, job'[v]>> /\ job'[v].slot = s
    <3>1. PICK v \in Workers : Working(v)' /\ l = <<"worker", v, job'[v]>> /\ job'[v].slot = s
      BY <2>3
    <3>2. CASE v = w
      <4>1. <<"channel", 1, queue[1]>> \in CarriersOf(s)
        BY <1>2, <1>4, <3>1, <3>2, CarrierIs
      <4>. QED  BY <1>4, <3>1, <3>2, <4>1
    <3>3. CASE v # w
      <4>1. l \in CarriersOf(s)
        BY <1>4, <3>1, <3>3, CarrierIs
      <4>. QED  BY <3>1, <4>1
    <3>. QED  BY <3>2, <3>3
  <2>. QED  BY <2>1, <2>2, <2>3, CarrierWillBe
<1>7. ASSUME NEW k \in CarriersOf(s)
      PROVE  \E l \in CarriersOf(s)' : Moves(k, l)
  <2>1. CASE \E c \in Clients : Sending(c) /\ k = <<"client", c, sending[c]>> /\ sending[c].slot = s
    <3>1. k \in CarriersOf(s)' /\ k[1] = "client"
      BY <1>5, <2>1, CarrierWillBe
    <3>. QED  BY <3>1
  <2>2. CASE \E i \in DOMAIN queue : k = <<"channel", i, queue[i]>> /\ queue[i].slot = s
    <3>1. PICK i \in DOMAIN queue : k = <<"channel", i, queue[i]>> /\ queue[i].slot = s
      BY <2>2
    <3>2. CASE i = 1
      <4>1. <<"worker", w, queue[1]>> \in CarriersOf(s)'
        BY <1>4, <3>1, <3>2, CarrierWillBe
      <4>. QED  BY <3>1, <3>2, <4>1
    <3>3. CASE i # 1
      <4>1. PICK j \in DOMAIN Tail(queue) : i = j + 1
        BY <1>3, <3>3
      <4>2. <<"channel", j, queue[j + 1]>> \in CarriersOf(s)'
        BY <1>2, <3>1, <4>1, CarrierWillBe
      <4>. QED  BY <3>1, <4>1, <4>2
    <3>. QED  BY <3>2, <3>3
  <2>3. CASE \E v \in Workers : Working(v) /\ k = <<"worker", v, job[v]>> /\ job[v].slot = s
    <3>1. k \in CarriersOf(s)' /\ k[1] = "worker"
      BY <1>4, <2>3, CarrierWillBe
    <3>. QED  BY <3>1
  <2>. QED  BY <2>1, <2>2, <2>3, CarrierIs
<1>8. ASSUME NEW k, NEW l, Moves(k, l)
      PROVE  /\ l[3] = k[3] /\ (IsUnsent(l) <=> IsUnsent(k))
             /\ \A m : Moves(k, m) => m = l
  <2>1. l[3] = k[3] /\ (IsUnsent(l) <=> IsUnsent(k))
    BY <1>8 DEF IsUnsent
  <2>2. ASSUME NEW m, Moves(k, m)
        PROVE  m = l
    <3>1. CASE k[1] \in {"client", "worker"}
      BY <1>8, <2>2, <3>1
    <3>2. CASE k[1] \notin {"client", "worker"} /\ k[2] = 1
      <4>1. \A i \in DOMAIN Tail(queue) : i + 1 # 1
        BY <1>2
      <4>2. ASSUME NEW x, Moves(k, x)
            PROVE  x = <<"worker", w, queue[1]>>
        BY <3>2, <4>1, <4>2
      <4>. QED  BY <1>8, <2>2, <4>2
    <3>3. CASE k[1] \notin {"client", "worker"} /\ k[2] # 1
      <4>1. PICK i \in DOMAIN Tail(queue) :
               l = <<"channel", i, queue[i + 1]>> /\ k = <<"channel", i + 1, queue[i + 1]>>
        BY <1>8, <3>3
      <4>2. PICK j \in DOMAIN Tail(queue) :
               m = <<"channel", j, queue[j + 1]>> /\ k = <<"channel", j + 1, queue[j + 1]>>
        BY <2>2, <3>3
      <4>3. i + 1 = j + 1
        BY <4>1, <4>2
      <4>4. i = j
        BY <1>2, <4>3
      <4>. QED  BY <4>1, <4>2, <4>4
    <3>. QED  BY <3>1, <3>2, <3>3
  <2>. QED  BY <2>1, <2>2
<1>. HIDE DEF Moves
<1>9. CarriersOf(s) = {} => CarriersOf(s)' = {}
  BY <1>6
<1>10. ASSUME NEW k, CarriersOf(s) = {k}
       PROVE  \E l : CarriersOf(s)' = {l} /\ l[3] = k[3] /\ (IsUnsent(l) <=> IsUnsent(k))
  <2>1. PICK l \in CarriersOf(s)' : Moves(k, l)
    BY <1>7, <1>10
  <2>2. \A m \in CarriersOf(s)' : Moves(k, m)
    BY <1>6, <1>10
  <2>3. \A m \in CarriersOf(s)' : m = l
    BY <1>8, <2>1, <2>2
  <2>4. CarriersOf(s)' = {l}
    BY <2>1, <2>3
  <2>5. l[3] = k[3] /\ (IsUnsent(l) <=> IsUnsent(k))
    BY <1>8, <2>1
  <2>. QED  BY <2>4, <2>5
<1>. QED  BY <1>9, <1>10

(* A worker takes a job off the channel.                                   *)
LEMMA RecvKeeps ==
  ASSUME IInv, NEW w \in Workers, Recv(w)
  PROVE  IInv'
<1>1. /\ wpc[w] = "idle" /\ queue # <<>> /\ queue \in Seq(Jobs)
      /\ job' = [job EXCEPT ![w] = Head(queue)] /\ queue' = Tail(queue)
      /\ wpc' = [wpc EXCEPT ![w] = IF HasRam THEN "ramGet" ELSE "read"]
      /\ UNCHANGED <<lockVars, ramVars, dev, clientVars, buf, rslot>>
  BY DEF Recv, IInv, TypeOK
<1>2. /\ wpc'[w] = (IF HasRam THEN "ramGet" ELSE "read")
      /\ \A v \in Workers \ {w} : wpc'[v] = wpc[v] /\ job'[v] = job[v]
  BY <1>1 DEF IInv, TypeOK, Locals
<1>3. Head(queue) \in Jobs /\ Tail(queue) \in Seq(Jobs)
  BY <1>1, TailOf
<1>4. TypeOK'
  BY <1>1, <1>3 DEF IInv, TypeOK, Locals, lockVars, ramVars, clientVars
<1>5. Working(w)' /\ ~NoneAlive
  BY <1>1, <1>2 DEF Working, NoneAlive, Alive
<1>6. RamOK'
  BY <1>1, <1>2, TierAside DEF ReadsSlab, FillsSlab, ramVars
<1>7. \A v \in Workers : WorkerOK(v)'
  <2>1. ASSUME NEW v \in Workers
        PROVE  WorkerOK(v)'
    <3>1. WorkerOK(v)
      BY DEF IInv
    <3>2. CASE v = w
      BY <1>1, <1>2, <3>2 DEF WorkerOK
    <3>3. CASE v # w
      BY <1>1, <1>2, <3>1, <3>3 DEF WorkerOK
    <3>. QED  BY <3>2, <3>3
  <2>. QED  BY <2>1
<1>8. ASSUME NEW s \in Slots
      PROVE  SlotOK(s)' /\ DevOK(s)'
  <2>1. SlotOK(s) /\ DevOK(s)
    BY DEF IInv
  <2>2. /\ CarriersOf(s) = {} => CarriersOf(s)' = {}
        /\ \A k : CarriersOf(s) = {k} =>
             \E l : CarriersOf(s)' = {l} /\ l[3] = k[3] /\ (IsUnsent(l) <=> IsUnsent(k))
    BY <1>1, <1>2, <1>5, JobReceived DEF clientVars
  <2>3. CarriersOf(s) = {} \/ \E k : CarriersOf(s) = {k}
    BY <1>5, <2>1 DEF SlotOK, OneJob
  <2>4. Unsent(s)' = Unsent(s)
    <3>1. CASE CarriersOf(s) = {}
      BY <2>2, <3>1, UnsentIs
    <3>2. CASE \E k : CarriersOf(s) = {k}
      <4>1. PICK k : CarriersOf(s) = {k}
        BY <3>2
      <4>2. PICK l : CarriersOf(s)' = {l} /\ (IsUnsent(l) <=> IsUnsent(k))
        BY <2>2, <4>1
      <4>. QED  BY <4>1, <4>2, UnsentIs
    <3>. QED  BY <2>3, <3>1, <3>2
  <2>5. Owners(s)' = Owners(s) /\ UNCHANGED <<cache, fill, dev>>
    BY <1>1, SameOwners DEF clientVars, lockVars
  <2>6. OneJob(s)'
    BY <1>5, <2>1, <2>2, <2>5 DEF SlotOK, OneJob
  <2>7. PinsOwned(s)'
    BY <1>5, <2>1, <2>4, <2>5 DEF SlotOK, PinsOwned
  <2>. QED  BY <2>1, <2>5, <2>6, <2>7 DEF SlotOK, DevOK
<1>9. \A c \in Clients : ClientOK(c)' /\ HandlesOK(c)'
  BY <1>1, ClientAside, HandlesAside DEF lockVars, clientVars
<1>10. MapsPoint(cache)'
  BY <1>1 DEF IInv, MapsPoint, lockVars
<1>. QED  BY <1>4, <1>6, <1>7, <1>8, <1>9, <1>10 DEF IInv

(* A working worker's job is the one job of its slot.                      *)
LEMMA WorkerOwns ==
  ASSUME IInv, NEW w \in Workers, Working(w), NEW j \in Jobs, j = job[w]
  PROVE  /\ j.slot \in Slots /\ j.id \in Ids
         /\ fill[j.slot] = "InFlight" /\ cache.id[j.slot] = j.id
         /\ CarriersOf(j.slot) = {<<"worker", w, j>>}
         /\ cache.pins[j.slot] = Owners(j.slot) + IF j.prefetch THEN 1 ELSE 0
         /\ \A v \in Workers \ {w} : Working(v) => job[v].slot # j.slot
<1>. DEFINE k == <<"worker", w, j>>
<1>1. j.slot \in Slots /\ j.id \in Ids
  BY DEF Jobs
<1>2. k \in CarriersOf(j.slot) /\ k[3] = j /\ k[1] = "worker"
  BY CarrierIs
<1>3. /\ fill[j.slot] = "InFlight" /\ CarriersOf(j.slot) = {k} /\ cache.id[j.slot] = j.id
      /\ cache.pins[j.slot] = Owners(j.slot) + Unsent(j.slot)
  BY <1>1, <1>2, CarrierOwns
<1>4. Unsent(j.slot) = IF j.prefetch THEN 1 ELSE 0
  BY <1>2, <1>3, UnsentIs DEF IsUnsent
<1>5. ASSUME NEW v \in Workers \ {w}, Working(v), job[v].slot = j.slot
      PROVE  FALSE
  <2>1. <<"worker", v, job[v]>> \in CarriersOf(j.slot)
    BY <1>5, CarrierIs
  <2>2. <<"worker", v, job[v]>> = k
    BY <1>3, <2>1
  <2>. QED  BY <2>2
<1>. QED  BY <1>1, <1>3, <1>4, <1>5

(* The copy to the device, into a slot that is in flight.                  *)
LEMMA CopyToDeviceKeeps ==
  ASSUME IInv, NEW w \in Workers, CopyToDevice(w)
  PROVE  IInv'
<1>1. PICK j \in Jobs : j = job[w]
  BY DEF IInv, TypeOK, Locals
<1>2. /\ wpc[w] \in {"copyRaw", "copyStored"} /\ WorkerOK(w)
      /\ dev' = [dev EXCEPT ![j.slot] = IF wpc[w] = "copyStored" /\ Compressed
                                        THEN [@ EXCEPT !.head = buf[w].head]
                                        ELSE buf[w]]
      /\ wpc' = [wpc EXCEPT ![w] = "publish"]
      /\ UNCHANGED <<lockVars, ramVars, queue, clientVars, job, buf, rslot>>
  BY <1>1 DEF CopyToDevice, IInv
<1>3. /\ wpc'[w] = "publish" /\ Working(w)
      /\ \A v \in Workers \ {w} : wpc'[v] = wpc[v] /\ job'[v] = job[v]
  BY <1>2 DEF IInv, TypeOK, Locals, Working
<1>4. /\ j.slot \in Slots /\ fill[j.slot] = "InFlight"
      /\ \A v \in Workers \ {w} : Working(v) => job[v].slot # j.slot
  BY <1>1, <1>3, WorkerOwns
<1>5. dev' \in [Slots -> Contents]
  <2>1. buf[w] \in Contents /\ buf[w].head \in Ids \union {NoId}
    BY DEF IInv, TypeOK, Locals, Contents
  <2>2. [dev[j.slot] EXCEPT !.head = buf[w].head] \in Contents
    BY <1>4, <2>1 DEF IInv, TypeOK, Contents
  <2>. QED  BY <1>2, <1>4, <2>1, <2>2 DEF IInv, TypeOK
<1>6. TypeOK'
  BY <1>2, <1>5 DEF IInv, TypeOK, Locals, lockVars, ramVars, clientVars
<1>7. Raw => dev'[j.slot] = Whole(j.id)
  <2>1. buf[w] = Whole(j.id)
    BY <1>1, <1>2 DEF WorkerOK
  <2>2. Raw => ~(wpc[w] = "copyStored" /\ Compressed)
    BY <1>2 DEF WorkerOK, Raw
  <2>. QED  BY <1>2, <1>4, <2>1, <2>2 DEF IInv, TypeOK
<1>8. \A t \in Slots \ {j.slot} : dev'[t] = dev[t]
  BY <1>2 DEF IInv, TypeOK
<1>9. ASSUME NEW v \in Workers
      PROVE  WorkerOK(v)'
  <2>1. WorkerOK(v)
    BY DEF IInv
  <2>2. CASE v = w
    BY <1>1, <1>2, <1>3, <1>7, <2>2 DEF WorkerOK
  <2>3. CASE v # w
    <3>1. wpc[v] = "publish" => job[v].slot \in Slots \ {j.slot}
      BY <1>4, <2>3 DEF Working, IInv, TypeOK, Locals, Jobs
    <3>. QED  BY <1>2, <1>3, <1>8, <2>1, <2>3, <3>1 DEF WorkerOK
  <2>. QED  BY <2>2, <2>3
<1>10. /\ \A v \in Workers : Working(v)' <=> Working(v)
       /\ ~NoneAlive
  BY <1>2, <1>3 DEF Working, NoneAlive, Alive
<1>11. RamOK'
  BY <1>2, <1>3, TierAside DEF ReadsSlab, FillsSlab, ramVars
<1>12. \A c \in Clients : Sending(c)' <=> Sending(c)
  BY <1>2 DEF Sending, clientVars
<1>13. \A s : CarriersOf(s)' = CarriersOf(s) /\ Owners(s)' = Owners(s)
  BY <1>2, <1>10, <1>12, SameCarriers, SameOwners DEF clientVars
<1>14. ASSUME NEW s \in Slots
       PROVE  SlotOK(s)' /\ DevOK(s)'
  <2>1. SlotOK(s) /\ DevOK(s)
    BY DEF IInv
  <2>2. SlotOK(s)'
    BY <1>2, <1>10, <1>13, <2>1, SlotKept DEF lockVars
  <2>3. DevOK(s)'
    <3>1. CASE s = j.slot
      BY <1>2, <1>4, <3>1 DEF DevOK, lockVars
    <3>2. CASE s # j.slot
      BY <1>2, <1>8, <2>1, <3>2 DEF DevOK, lockVars
    <3>. QED  BY <3>1, <3>2
  <2>. QED  BY <2>2, <2>3
<1>15. \A c \in Clients : ClientOK(c)' /\ HandlesOK(c)'
  BY <1>2, ClientAside, HandlesAside DEF lockVars, clientVars
<1>16. MapsPoint(cache)'
  BY <1>2 DEF IInv, MapsPoint, lockVars
<1>. QED  BY <1>6, <1>9, <1>11, <1>14, <1>15, <1>16 DEF IInv

(* The end of a fill: the slot's two records become ready together, and a  *)
(* prefetch's pin goes back.                                               *)
LEMMA PublishFillKeeps ==
  ASSUME IInv, NEW w \in Workers, PublishFill(w)
  PROVE  IInv'
<1>1. PICK j \in Jobs : j = job[w]
  BY DEF IInv, TypeOK, Locals
<1>2. PICK s \in Slots : s = j.slot
  BY DEF Jobs
<1>3. PICK p : p = Publish(cache, s)
  OBVIOUS
<1>4. /\ wpc[w] = "publish" /\ WorkerOK(w)
      /\ fill' = [fill EXCEPT ![s] = "Ready"]
      /\ cache' = IF j.prefetch THEN Release(p, s) ELSE p
      /\ pc' = Notified(pc)
      /\ wpc' = [wpc EXCEPT ![w] = "idle"]
      /\ job' = [job EXCEPT ![w] = NoJob]
      /\ buf' = [buf EXCEPT ![w] = Whole(NoId)]
      /\ UNCHANGED <<ram, slab, dev, queue, todo, sending, out, held, target, usable, leaked, rslot>>
  BY <1>1, <1>2, <1>3 DEF PublishFill, ramVars, IInv
<1>5. /\ wpc'[w] = "idle"
      /\ \A v \in Workers \ {w} : wpc'[v] = wpc[v] /\ job'[v] = job[v] /\ buf'[v] = buf[v]
  BY <1>4 DEF IInv, TypeOK, Locals
<1>6. Working(w) /\ ~Working(w)' /\ \A v \in Workers \ {w} : Working(v)' <=> Working(v)
  BY <1>4, <1>5 DEF Working
<1>7. /\ fill[s] = "InFlight" /\ cache.id[s] = j.id
      /\ CarriersOf(s) = {<<"worker", w, j>>}
      /\ cache.pins[s] = Owners(s) + IF j.prefetch THEN 1 ELSE 0
      /\ Owners(s) \in Nat
  BY <1>1, <1>2, <1>6, WorkerOwns, OwnersFinite
<1>8. /\ p \in CacheType /\ MapsPoint(p) /\ p.id = cache.id /\ p.pins = cache.pins
      /\ \A t \in Slots : p.ready[t] <=> t = s \/ cache.ready[t]
  BY <1>3, Published DEF IInv, TypeOK
<1>9. /\ cache' \in CacheType /\ MapsPoint(cache') /\ cache'.id = cache.id
      /\ \A t \in Slots : cache'.ready[t] <=> t = s \/ cache.ready[t]
      /\ cache'.pins[s] = Owners(s)
      /\ \A t \in Slots \ {s} : cache'.pins[t] = cache.pins[t]
  <2>1. CASE j.prefetch
    <3>1. PICK n : n = Release(p, s) /\ cache' = n
      BY <1>4, <2>1
    <3>2. p.pins[s] > 0
      BY <1>7, <1>8, <2>1
    <3>3. /\ n \in CacheType /\ MapsPoint(n) /\ n.id = p.id /\ n.ready = p.ready
          /\ \A t \in Slots : n.pins[t] = IF t = s THEN p.pins[t] - 1 ELSE p.pins[t]
      BY <1>8, <3>1, <3>2, Released
    <3>4. n.pins[s] = Owners(s)
      BY <1>7, <1>8, <2>1, <3>3
    <3>5. \A t \in Slots \ {s} : n.pins[t] = cache.pins[t]
      BY <1>8, <3>3
    <3>. QED  BY <1>8, <3>1, <3>3, <3>4, <3>5
  <2>2. CASE ~j.prefetch
    <3>1. cache' = p
      BY <1>4, <2>2
    <3>. QED  BY <1>7, <1>8, <2>2, <3>1
  <2>. QED  BY <2>1, <2>2
<1>10. 0 \in Slots /\ 0 \in Ids
  BY CacheAssumption DEF Slots, Ids
<1>11. TypeOK'
  <2>1. NoJob \in Jobs
    BY <1>10 DEF NoJob, Jobs
  <2>2. Whole(NoId) \in Contents
    BY DEF Whole, Contents
  <2>3. wpc' \in [Workers -> {"starting", "idle", "ramGet", "ramCopy", "ramRelease", "read", "ramPut",
                              "ramWrite", "ramPublish", "copyRaw", "copyStored", "publish", "dead",
                              "lost"}]
        /\ job' \in [Workers -> Jobs] /\ buf' \in [Workers -> Contents]
        /\ fill' \in [Slots -> {"Empty", "InFlight", "Ready"}]
    BY <1>4, <2>1, <2>2 DEF IInv, TypeOK, Locals
  <2>. QED  BY <1>4, <1>9, <2>3, NotifiedClients DEF IInv, TypeOK, Locals
<1>12. RamOK'
  BY <1>4, <1>5, TierAside DEF ReadsSlab, FillsSlab
<1>13. ASSUME NEW v \in Workers
       PROVE  WorkerOK(v)'
  <2>1. WorkerOK(v)
    BY DEF IInv
  <2>2. CASE v = w
    BY <1>5, <2>2 DEF WorkerOK
  <2>3. CASE v # w
    BY <1>4, <1>5, <2>1, <2>3 DEF WorkerOK
  <2>. QED  BY <2>2, <2>3
<1>14. ~NoneAlive
  BY <1>4 DEF NoneAlive, Alive
<1>15. /\ CarriersOf(s)' = {}
       /\ \A t \in Slots \ {s} : CarriersOf(t)' = CarriersOf(t)
  <2>1. \A c \in Clients : Sending(c)' <=> Sending(c)
    BY <1>4, NotifiedClients
  <2>2. ASSUME NEW t, NEW l
        PROVE  l \in CarriersOf(t)' <=> l \in CarriersOf(t) /\ l # <<"worker", w, j>>
    <3>1. (\E v \in Workers : Working(v)' /\ l = <<"worker", v, job'[v]>> /\ job'[v].slot = t)
            <=> (\E v \in Workers : Working(v) /\ l = <<"worker", v, job[v]>> /\ job[v].slot = t)
                /\ l # <<"worker", w, j>>
      BY <1>1, <1>5, <1>6
    <3>2. (\E c \in Clients : Sending(c)' /\ l = <<"client", c, sending'[c]>>
                              /\ sending'[c].slot = t)
            <=> (\E c \in Clients : Sending(c) /\ l = <<"client", c, sending[c]>>
                                    /\ sending[c].slot = t)
                /\ l # <<"worker", w, j>>
      BY <1>4, <2>1
    <3>3. (\E i \in DOMAIN queue' : l = <<"channel", i, queue'[i]>> /\ queue'[i].slot = t)
            <=> (\E i \in DOMAIN queue : l = <<"channel", i, queue[i]>> /\ queue[i].slot = t)
                /\ l # <<"worker", w, j>>
      BY <1>4
    <3>. QED  BY <3>1, <3>2, <3>3, CarrierIs, CarrierWillBe
  <2>3. \A t \in Slots \ {s} : <<"worker", w, j>> \notin CarriersOf(t)
    BY <1>2 DEF CarriersOf
  <2>. QED  BY <1>7, <2>2, <2>3
<1>16. \A t : Owners(t)' = Owners(t)
  BY <1>4, SameOwners
<1>17. ASSUME NEW t \in Slots
       PROVE  SlotOK(t)' /\ DevOK(t)'
  <2>1. SlotOK(t) /\ DevOK(t)
    BY DEF IInv
  <2>2. CASE t = s
    <3>1. fill'[s] = "Ready" /\ cache'.ready[s] /\ cache'.id[s] # NoId
      BY <1>4, <1>7, <1>9, <2>1, <2>2 DEF SlotOK, IInv, TypeOK
    <3>2. OneJob(s)'
      BY <1>15, <3>1 DEF OneJob
    <3>3. Unsent(s)' = 0
      BY <1>15, UnsentIs
    <3>4. PinsOwned(s)'
      BY <1>7, <1>9, <1>16, <3>3 DEF PinsOwned
    <3>5. Raw => dev[s] = Whole(j.id)
      BY <1>1, <1>2, <1>4 DEF WorkerOK
    <3>6. DevOK(s)'
      BY <1>4, <1>7, <1>9, <3>5 DEF DevOK
    <3>. QED  BY <2>2, <3>1, <3>2, <3>4, <3>6 DEF SlotOK
  <2>3. CASE t # s
    <3>1. /\ fill'[t] = fill[t] /\ (cache'.ready[t] <=> cache.ready[t])
          /\ cache'.pins[t] = cache.pins[t] /\ cache'.id[t] = cache.id[t]
      BY <1>4, <1>9, <2>3 DEF IInv, TypeOK
    <3>2. SlotOK(t)'
      BY <1>14, <1>15, <1>16, <2>1, <2>3, <3>1, SlotKept
    <3>. QED  BY <1>4, <2>1, <3>1, <3>2 DEF DevOK
  <2>. QED  BY <2>2, <2>3
<1>18. ASSUME NEW c \in Clients
       PROVE  ClientOK(c)' /\ HandlesOK(c)'
  <2>1. HandlesOK(c) /\ \A h \in usable[c] : h.slot \in Slots
    BY DEF IInv, TypeOK, Locals, Handles
  <2>2. \A t \in Slots : fill[t] = "Ready" => fill'[t] = "Ready"
    BY <1>4 DEF IInv, TypeOK
  <2>3. HandlesOK(c)'
    BY <1>4, <1>9, <2>1, <2>2 DEF HandlesOK
  <2>4. ClientOK(c)'
    BY <1>4, NotifiedClients, ClientAside
  <2>. QED  BY <2>3, <2>4
<1>19. MapsPoint(cache)'
  BY <1>9 DEF MapsPoint
<1>. QED  BY <1>11, <1>12, <1>13, <1>17, <1>18, <1>19 DEF IInv

(* A worker fails; with the last of them the channel goes, and the jobs in *)
(* it.                                                                     *)
LEMMA DieKeeps ==
  ASSUME IInv, NEW w \in Workers, Die(w)
  PROVE  IInv'
<1>1. /\ wpc[w] \in {"starting", "read", "copyRaw", "copyStored"}
      /\ wpc' = [wpc EXCEPT ![w] = IF @ = "starting" THEN "dead" ELSE "lost"]
      /\ queue' = IF \E v \in Workers \ {w} : Alive(v) THEN queue ELSE <<>>
      /\ UNCHANGED <<lockVars, ramVars, dev, clientVars, job, buf, rslot>>
  BY DEF Die
<1>2. /\ wpc'[w] = (IF wpc[w] = "starting" THEN "dead" ELSE "lost")
      /\ \A v \in Workers \ {w} : wpc'[v] = wpc[v]
  BY <1>1 DEF IInv, TypeOK, Locals
<1>3. \A v \in Workers : Working(v)' <=> Working(v)
  BY <1>1, <1>2 DEF Working
<1>4. ~NoneAlive
  BY <1>1 DEF NoneAlive, Alive
<1>5. TypeOK'
  <2>1. queue \in Seq(Jobs) /\ <<>> \in Seq(Jobs)
    BY DEF IInv, TypeOK
  <2>2. queue' \in Seq(Jobs)
    BY <1>1, <2>1
  <2>. QED  BY <1>1, <2>2 DEF IInv, TypeOK, Locals, lockVars, ramVars, clientVars
<1>6. RamOK'
  BY <1>1, <1>2, TierAside DEF ReadsSlab, FillsSlab, ramVars
<1>7. ASSUME NEW v \in Workers
      PROVE  WorkerOK(v)'
  <2>1. WorkerOK(v)
    BY DEF IInv
  <2>2. CASE v = w
    BY <1>2, <2>2 DEF WorkerOK
  <2>3. CASE v # w
    BY <1>1, <1>2, <2>1, <2>3 DEF WorkerOK
  <2>. QED  BY <2>2, <2>3
<1>8. \A c \in Clients : Sending(c)' <=> Sending(c)
  BY <1>1 DEF Sending, clientVars
<1>9. \A s : Owners(s)' = Owners(s)
  BY <1>1, SameOwners DEF clientVars
<1>10. ASSUME NEW s \in Slots
       PROVE  SlotOK(s)' /\ DevOK(s)'
  <2>1. SlotOK(s) /\ DevOK(s)
    BY DEF IInv
  <2>2. DevOK(s)'
    BY <1>1, <2>1 DEF DevOK, lockVars
  <2>3. CASE CarriersOf(s)' = CarriersOf(s)
    BY <1>1, <1>4, <1>9, <2>1, <2>2, <2>3, SlotKept DEF lockVars
  <2>4. CASE CarriersOf(s)' # CarriersOf(s)
    <3>1. queue' = <<>> /\ NoneAlive'
      <4>1. queue' # queue
        BY <1>1, <1>3, <1>8, <2>4, SameCarriers DEF clientVars
      <4>2. \A v \in Workers \ {w} : ~Alive(v)
        BY <1>1, <4>1
      <4>. QED  BY <1>1, <1>2, <4>1, <4>2 DEF NoneAlive, Alive
    <3>2. ASSUME NEW l \in CarriersOf(s)'
          PROVE  l \in CarriersOf(s)
      <4>1. ~ \E i \in DOMAIN queue' : TRUE
        BY <3>1
      <4>2. CASE \E c \in Clients : /\ Sending(c)' /\ l = <<"client", c, sending'[c]>>
                                    /\ sending'[c].slot = s
        BY <1>1, <1>8, <4>2, CarrierIs DEF clientVars
      <4>3. CASE \E v \in Workers : Working(v)' /\ l = <<"worker", v, job'[v]>> /\ job'[v].slot = s
        BY <1>1, <1>3, <4>3, CarrierIs
      <4>. QED  BY <4>1, <4>2, <4>3, CarrierWillBe
    <3>3. PICK k : k \in CarriersOf(s) /\ k \notin CarriersOf(s)'
      BY <2>4, <3>2
    <3>4. /\ fill[s] = "InFlight" /\ CarriersOf(s) = {k}
          /\ cache.pins[s] = Owners(s) + Unsent(s)
      BY <3>3, CarrierOwns
    <3>5. CarriersOf(s)' = {}
      BY <3>2, <3>3, <3>4
    <3>6. Unsent(s)' = 0 /\ Unsent(s) \in {0, 1} /\ Owners(s) \in Nat
      BY <3>5, UnsentIs, OwnersFinite
    <3>7. PinsOwned(s)'
      BY <1>1, <1>9, <3>1, <3>4, <3>5, <3>6 DEF PinsOwned, lockVars
    <3>8. OneJob(s)'
      BY <3>1, <3>5 DEF OneJob
    <3>. QED  BY <1>1, <2>1, <2>2, <3>7, <3>8 DEF SlotOK, lockVars
  <2>. QED  BY <2>3, <2>4
<1>11. \A c \in Clients : ClientOK(c)' /\ HandlesOK(c)'
  BY <1>1, ClientAside, HandlesAside DEF lockVars, clientVars
<1>12. MapsPoint(cache)'
  BY <1>1 DEF IInv, MapsPoint, lockVars
<1>. QED  BY <1>5, <1>6, <1>7, <1>10, <1>11, <1>12 DEF IInv

-----------------------------------------------------------------------------
(* prewarm, a fold over the experts it loads.                              *)

(* A tier that nobody uses: whatever is published is in its slab.          *)
IdleTier(t) ==
  /\ t.ram \in Ram!CacheType /\ RamP!MapsPoint(t.ram)
  /\ t.slab \in [Ram!Slots -> Contents]
  /\ \A s \in Ram!Slots :
       t.ram.pins[s] = 0 /\ (t.ram.ready[s] => t.slab[s] = Whole(t.ram.id[s]))

(* A put into such a tier leaves such a tier.                              *)
LEMMA PutAloneKeeps ==
  ASSUME NEW t, IdleTier(t), NEW id \in Ids
  PROVE  IdleTier(PutAlone(t, id))
<1>1. PICK r : r = t.ram
  OBVIOUS
<1>2. r \in RamP!CacheType /\ RamP!MapsPoint(r) /\ id \in RamP!Ids
      /\ \A u \in RamP!Slots : r.pins[u] = 0
  BY <1>1, RamNames DEF IdleTier
<1>3. PICK a : a = RamP!Acquire(r, id)
  OBVIOUS
<1>4. \E s \in RamP!Slots :
        /\ s = RamP!AcquireSlot(r, id) /\ a.id[s] = id
        /\ a \in RamP!CacheType /\ RamP!MapsPoint(a)
        /\ \A u \in RamP!Slots :
             /\ a.pins[u] = IF u = s THEN 1 ELSE 0
             /\ u # s => a.id[u] = r.id[u] /\ (a.ready[u] <=> r.ready[u])
  <2>1. CASE RamP!Hits(r, id)
    <3>1. PICK s \in RamP!Slots :
            /\ s = RamP!AcquireSlot(r, id) /\ r.id[s] = id
            /\ a \in RamP!CacheType /\ RamP!MapsPoint(a)
            /\ a.id = r.id /\ a.ready = r.ready
            /\ \A u \in RamP!Slots : a.pins[u] = IF u = s THEN r.pins[u] + 1 ELSE r.pins[u]
      BY <1>2, <1>3, <2>1, RamParameters, RamP!HitEffect
    <3>. QED  BY <1>2, <3>1
  <2>2. CASE RamP!Misses(r, id)
    <3>1. PICK s \in RamP!Slots :
            /\ s = RamP!AcquireSlot(r, id) /\ r.pins[s] = 0
            /\ a \in RamP!CacheType /\ RamP!MapsPoint(a)
            /\ \A u \in RamP!Slots :
                 /\ a.pins[u] = IF u = s THEN 1 ELSE r.pins[u]
                 /\ a.id[u] = IF u = s THEN id ELSE r.id[u]
                 /\ a.ready[u] <=> u # s /\ r.ready[u]
      BY <1>2, <1>3, <2>2, RamParameters, RamP!MissClaims
    <3>. QED  BY <1>2, <3>1
  <2>3. RamP!Hits(r, id) \/ RamP!Misses(r, id)
    <3>1. 0 \in RamP!SlotsOf(RamP!PartOf(id)) /\ 0 \in RamP!Slots
      BY RamParameters DEF RamP!SlotsOf, RamP!PartOf, RamP!Slots, RamP!LayerOf, RamP!Ids, Ids
    <3>. QED  BY <1>2, <3>1 DEF RamP!Hits, RamP!Misses, RamP!Unpinned
  <2>. QED  BY <2>1, <2>2, <2>3
<1>5. PICK s \in RamP!Slots :
        /\ s = RamP!AcquireSlot(r, id) /\ a.id[s] = id
        /\ a \in RamP!CacheType /\ RamP!MapsPoint(a)
        /\ \A u \in RamP!Slots :
             /\ a.pins[u] = IF u = s THEN 1 ELSE 0
             /\ u # s => a.id[u] = r.id[u] /\ (a.ready[u] <=> r.ready[u])
  BY <1>4
<1>6. PICK p : p = RamP!Publish(a, s)
  OBVIOUS
<1>7. /\ p \in RamP!CacheType /\ RamP!MapsPoint(p) /\ p.id = a.id /\ p.pins = a.pins
      /\ \A u \in RamP!Slots : p.ready[u] <=> u = s \/ a.ready[u]
  BY <1>5, <1>6, RamParameters, RamP!Published
<1>8. p.pins[s] > 0
  BY <1>5, <1>7
<1>9. PICK n : n = RamP!Release(p, s)
  OBVIOUS
<1>10. /\ n \in RamP!CacheType /\ RamP!MapsPoint(n) /\ n.id = p.id /\ n.ready = p.ready
       /\ \A u \in RamP!Slots : n.pins[u] = IF u = s THEN p.pins[u] - 1 ELSE p.pins[u]
  BY <1>7, <1>8, <1>9, RamParameters, RamP!Released
<1>11. /\ PutAlone(t, id).ram = n
       /\ PutAlone(t, id).slab = [t.slab EXCEPT ![s] = Whole(id)]
  BY <1>1, <1>3, <1>5, <1>6, <1>9, RamNames DEF PutAlone
<1>12. s \in Ram!Slots /\ Whole(id) \in Contents
  BY RamNames DEF Whole, Contents
<1>13. PICK b : b = PutAlone(t, id).slab
  OBVIOUS
<1>14. /\ b \in [Ram!Slots -> Contents]
       /\ b[s] = Whole(id) /\ \A u \in Ram!Slots \ {s} : b[u] = t.slab[u]
  BY <1>11, <1>12, <1>13 DEF IdleTier
<1>15. ASSUME NEW u \in Ram!Slots
       PROVE  n.pins[u] = 0 /\ (n.ready[u] => b[u] = Whole(n.id[u]))
  <2>1. u \in RamP!Slots
    BY RamNames
  <2>2. CASE u = s
    BY <1>5, <1>7, <1>10, <1>14, <2>1, <2>2
  <2>3. CASE u # s
    <3>1. t.ram.ready[u] => t.slab[u] = Whole(t.ram.id[u])
      BY DEF IdleTier
    <3>. QED  BY <1>1, <1>5, <1>7, <1>10, <1>14, <2>1, <2>3, <3>1
  <2>. QED  BY <2>2, <2>3
<1>. QED  BY <1>10, <1>11, <1>13, <1>14, <1>15, RamNames DEF IdleTier

(* The order of the pack: the last expert of a set of them.                *)
Last(S) == CHOOSE i \in S : \A j \in S : j <= i

(* A set of experts that is not empty has a last one.                      *)
LEMMA LastIn ==
  ASSUME NEW S \in SUBSET Ids, S # {}
  PROVE  Last(S) \in S
<1>. DEFINE T == {NumIds - i : i \in S}
<1>1. \A i \in S : i \in Nat /\ i < NumIds /\ NumIds \in Nat
  BY CacheAssumption DEF Ids
<1>2. T \subseteq Nat /\ T # {}
  BY <1>1
<1>3. PICK m \in T : \A n \in T : m <= n
  BY <1>2, LeastNatural
<1>4. PICK i \in S : m = NumIds - i
  BY <1>3
<1>5. \A j \in S : j <= i
  <2>1. ASSUME NEW j \in S
        PROVE  j <= i
    <3>1. NumIds - j \in T
      OBVIOUS
    <3>2. m <= NumIds - j
      BY <1>3, <3>1
    <3>. QED  BY <1>1, <1>4, <3>2
  <2>. QED  BY <2>1
<1>6. \E x \in S : \A j \in S : j <= x
  BY <1>5
<1>. QED  BY <1>6, Zenon DEF Last

(* The fold behind prewarm: g gives the tier with any subset of T loaded.  *)
LoadStep(base, g, s) == IF s = {} THEN base ELSE PutAlone(g[s \ {Last(s)}], Last(s))
LoadOf(base, T, g)   == g = [s \in SUBSET T |-> LoadStep(base, g, s)]

(* A set of experts, and the set without its last one.                     *)
LEMMA OneLess ==
  ASSUME NEW T \in SUBSET Ids, NEW s \in SUBSET T
  PROVE  /\ Cardinality(s) \in Nat /\ Cardinality(s) <= Cardinality(T)
         /\ Cardinality(s) = 0 <=> s = {}
         /\ s # {} => /\ Last(s) \in s /\ Last(s) \in Ids /\ s \ {Last(s)} \in SUBSET T
                      /\ Cardinality(s \ {Last(s)}) = Cardinality(s) - 1
<1>1. IsFiniteSet(T)
  <2>1. 0 \in Int /\ NumIds - 1 \in Int
    BY CacheAssumption
  <2>2. IsFiniteSet(Ids)
    BY <2>1, FS_Interval DEF Ids
  <2>. QED  BY <2>2, FS_Subset
<1>2. /\ Cardinality(s) \in Nat /\ Cardinality(s) <= Cardinality(T)
      /\ Cardinality(s) = 0 <=> s = {}
      /\ \A x \in s : s \ {x} \in SUBSET T /\ Cardinality(s \ {x}) = Cardinality(s) - 1
  BY <1>1, Smaller
<1>3. s # {} => Last(s) \in s
  BY LastIn
<1>. QED  BY <1>2, <1>3

(* There is such a fold: it is built up by the size of the subsets.        *)
LEMMA LoadExists ==
  ASSUME NEW base, NEW T \in SUBSET Ids
  PROVE  \E g : LoadOf(base, T, g)
<1>. DEFINE Sub(n) == {s \in SUBSET T : Cardinality(s) <= n}
            Good(n) == \E g : g = [s \in Sub(n) |-> LoadStep(base, g, s)]
            Bad == {n \in Nat : ~Good(n)}
<1>1. Good(0)
  <2>. DEFINE g == [s \in Sub(0) |-> base]
  <2>1. \A s \in Sub(0) : LoadStep(base, g, s) = base
    BY OneLess DEF LoadStep
  <2>2. g = [s \in Sub(0) |-> LoadStep(base, g, s)]
    BY <2>1
  <2>. QED  BY <2>2
<1>2. ASSUME NEW m \in Nat \ {0}, Good(m - 1)
      PROVE  Good(m)
  <2>1. PICK g : g = [s \in Sub(m - 1) |-> LoadStep(base, g, s)]
    BY <1>2
  <2>. DEFINE h == [s \in Sub(m) |-> LoadStep(base, g, s)]
  <2>2. ASSUME NEW s \in Sub(m), s # {}
        PROVE  h[s \ {Last(s)}] = g[s \ {Last(s)}]
    <3>1. s \ {Last(s)} \in Sub(m - 1) /\ s \ {Last(s)} \in Sub(m)
      BY <2>2, OneLess
    <3>. QED  BY <2>1, <3>1
  <2>3. \A s \in Sub(m) : LoadStep(base, g, s) = LoadStep(base, h, s)
    BY <2>2 DEF LoadStep
  <2>4. h = [s \in Sub(m) |-> LoadStep(base, h, s)]
    BY <2>3
  <2>. QED  BY <2>4
<1>3. Good(Cardinality(T))
  <2>1. Cardinality(T) \in Nat
    BY OneLess
  <2>2. SUFFICES ASSUME Bad # {}
                 PROVE  FALSE
    BY <2>1
  <2>. HIDE DEF Good
  <2>3. PICK m \in Bad : \A n \in Bad : m <= n
    BY <2>2, LeastNatural
  <2>4. CASE m = 0
    BY <1>1, <2>4
  <2>5. CASE m # 0
    <3>1. m - 1 \in Nat /\ m - 1 \notin Bad
      BY <2>3, <2>5
    <3>. QED  BY <1>2, <2>5, <3>1
  <2>. QED  BY <2>4, <2>5
<1>4. Sub(Cardinality(T)) = SUBSET T
  BY OneLess
<1>. QED  BY <1>3, <1>4 DEF LoadOf

(* What prewarm leaves is the fold at the set it loads.                    *)
LEMMA LoadIsFold ==
  ASSUME NEW base, NEW T \in SUBSET Ids
  PROVE  \E g : /\ LoadOf(base, T, g)
                /\ g[T] = PutAll(base, T)
<1>. DEFINE g == CHOOSE h : h = [s \in SUBSET T |->
                    IF s = {} THEN base ELSE PutAlone(h[s \ {Last(s)}], Last(s))]
<1>1. LoadOf(base, T, g)
  <2>. DEFINE IsFold(h) == h = [s \in SUBSET T |->
                    IF s = {} THEN base ELSE PutAlone(h[s \ {Last(s)}], Last(s))]
  <2>1. \E h : IsFold(h)
    <3>1. PICK h : LoadOf(base, T, h)
      BY LoadExists
    <3>2. IsFold(h)
      BY <3>1 DEF LoadOf, LoadStep
    <3>. QED  BY <3>2
  <2>2. g = CHOOSE h : IsFold(h)
    OBVIOUS
  <2>. HIDE DEF IsFold, g
  <2>3. IsFold(g)
    BY <2>1, <2>2
  <2>. QED  BY <2>3 DEF IsFold, LoadOf, LoadStep
<1>2. g[T] = PutAll(base, T)
  BY DEF PutAll, MapThenFoldSet, Last
<1>. QED  BY <1>1, <1>2

(* Loading any experts into an idle tier leaves an idle tier.              *)
LEMMA LoadedIdle ==
  ASSUME NEW base, IdleTier(base), NEW T \in SUBSET Ids, NEW g, LoadOf(base, T, g)
  PROVE  IdleTier(g[T])
<1>. DEFINE Bad == {n \in Nat : \E r \in SUBSET T : Cardinality(r) = n /\ ~IdleTier(g[r])}
<1>1. SUFFICES ASSUME ~IdleTier(g[T])
               PROVE  FALSE
  OBVIOUS
<1>2. Cardinality(T) \in Bad
  BY <1>1, OneLess
<1>3. PICK n \in Bad : \A m \in Bad : n <= m
  BY <1>2, LeastNatural
<1>4. PICK r \in SUBSET T : Cardinality(r) = n /\ ~IdleTier(g[r])
  BY <1>3
<1>5. g[r] = LoadStep(base, g, r)
  BY DEF LoadOf
<1>6. CASE r = {}
  BY <1>4, <1>5, <1>6 DEF LoadStep
<1>7. CASE r # {}
  <2>. DEFINE q == r \ {Last(r)}
  <2>1. Last(r) \in Ids /\ Cardinality(q) = n - 1 /\ n - 1 \in Nat /\ q \in SUBSET T
    BY <1>4, <1>7, OneLess
  <2>2. n - 1 \notin Bad
    BY <1>3, <2>1
  <2>3. IdleTier(g[q])
    BY <2>1, <2>2
  <2>4. IdleTier(PutAlone(g[q], Last(r)))
    BY <2>1, <2>3, PutAloneKeeps
  <2>. QED  BY <1>4, <1>5, <1>7, <2>4 DEF LoadStep
<1>. QED  BY <1>6, <1>7

(* prewarm fills the tier before anybody uses it.                          *)
LEMMA PrewarmKeeps ==
  ASSUME IInv, NEW top \in Profiles, Prewarm(top)
  PROVE  IInv'
<1>1. PICK base : base = [ram |-> ram, slab |-> slab]
  OBVIOUS
<1>2. IdleTier(base)
  <2>1. ram = RamP!EmptyCache
    BY RamNames DEF Prewarm
  <2>2. \A s \in Ram!Slots : ram.pins[s] = 0 /\ ~ram.ready[s]
    BY <2>1, RamNames DEF RamP!EmptyCache
  <2>3. base.ram = ram /\ base.slab = slab
    BY <1>1
  <2>. QED  BY <2>2, <2>3 DEF IdleTier, IInv, TypeOK, RamOK
<1>3. PICK T, tier :
         /\ T \in SUBSET Ids
         /\ tier = PutAll(base, T)
         /\ ram' = tier.ram /\ slab' = tier.slab
  <2>1. PICK n \in 1 .. Cardinality(top) :
          LET loaded == {i \in top : Cardinality({j \in top : j <= i}) <= n}
              all    == PutAll([ram |-> ram, slab |-> slab], loaded)
          IN  ram' = all.ram /\ slab' = all.slab
    BY DEF Prewarm
  <2>2. {i \in top : Cardinality({j \in top : j <= i}) <= n} \in SUBSET Ids
    BY PagerAssumption
  <2>. QED  BY <1>1, <2>1, <2>2
<1>4. IdleTier(tier)
  <2>1. PICK g : LoadOf(base, T, g) /\ g[T] = tier
    BY <1>3, LoadIsFold
  <2>2. IdleTier(g[T])
    BY <1>2, <1>3, <2>1, LoadedIdle
  <2>. QED  BY <2>1, <2>2
<1>5. UNCHANGED <<lockVars, dev, queue, clientVars, workerVars>>
  BY DEF Prewarm
<1>6. \A s \in Ram!Slots : SlabUsers(s) = {}
  <2>1. ASSUME NEW s \in Ram!Slots
        PROVE  SlabUsers(s) = {}
    <3>1. IsFiniteSet(SlabUsers(s))
      BY PagerAssumption, FS_Subset DEF SlabUsers
    <3>2. ram.pins[s] = 0
      BY <1>1, <1>2 DEF IdleTier
    <3>3. Cardinality(SlabUsers(s)) = 0
      BY <3>2 DEF IInv, RamOK, SlabOK
    <3>. QED  BY <3>1, <3>3, FS_EmptySet
  <2>. QED  BY <2>1
<1>7. \A w \in Workers : ~ReadsSlab(w) /\ ~FillsSlab(w)
  <2>1. ASSUME NEW w \in Workers
        PROVE  ~ReadsSlab(w) /\ ~FillsSlab(w)
    <3>1. rslot[w] \in Ram!Slots
      BY DEF IInv, TypeOK, Locals
    <3>2. w \notin SlabUsers(rslot[w])
      BY <1>6, <3>1
    <3>. QED  BY <3>2 DEF SlabUsers
  <2>. QED  BY <2>1
<1>8. \A s : SlabUsers(s)' = SlabUsers(s)
  BY <1>5 DEF SlabUsers, ReadsSlab, FillsSlab, workerVars
<1>9. RamOK'
  <2>1. RamP!MapsPoint(ram)'
    BY <1>3, <1>4 DEF IdleTier, RamP!MapsPoint
  <2>2. ASSUME NEW s \in Ram!Slots
        PROVE  SlabOK(s)'
    <3>1. Cardinality(SlabUsers(s)) = 0
      BY <1>6, FS_EmptySet
    <3>. QED  BY <1>3, <1>4, <1>8, <2>2, <3>1 DEF SlabOK, IdleTier
  <2>3. ASSUME NEW w \in Workers
        PROVE  UserOK(w)'
    <3>1. ~ReadsSlab(w)' /\ ~FillsSlab(w)'
      BY <1>5, <1>7 DEF ReadsSlab, FillsSlab, workerVars
    <3>. QED  BY <3>1 DEF UserOK, FillsSlab
  <2>. QED  BY <2>1, <2>2, <2>3 DEF RamOK
<1>10. TypeOK'
  BY <1>3, <1>4, <1>5 DEF IdleTier, IInv, TypeOK, Locals, lockVars, clientVars, workerVars
<1>11. /\ \A w \in Workers : Working(w)' <=> Working(w)
       /\ NoneAlive => NoneAlive'
       /\ \A w \in Workers : WorkerOK(w)'
  BY <1>5 DEF IInv, Working, NoneAlive, Alive, WorkerOK, workerVars
<1>. QED  BY <1>5, <1>9, <1>10, <1>11, DeviceAside DEF IInv, workerVars

-----------------------------------------------------------------------------
(* The invariant holds of every state.                                     *)

(* A pager that has just been made.                                        *)
LEMMA InitKeeps ==
  ASSUME Init
  PROVE  IInv
<1>1. 0 \in Slots /\ 0 \in Ids /\ 0 \in Ram!Slots
  <2>1. 0 \in Slots /\ 0 \in Ids
    BY CacheAssumption DEF Slots, Ids
  <2>2. 0 \in Ram!Slots
    BY PagerAssumption DEF Ram!Slots
  <2>. QED  BY <2>1, <2>2
<1>. USE DEF Init
<1>2. cache \in CacheType /\ MapsPoint(cache)
  BY EmptyEffect
<1>3. ram \in Ram!CacheType /\ RamP!MapsPoint(ram)
  BY RamParameters, RamNames, RamP!EmptyEffect
<1>4. TypeOK
  <2>1. NoJob \in Jobs /\ NoHandle \in Handles /\ Whole(NoId) \in Contents /\ <<>> \in Seq(Ids)
        /\ <<>> \in Seq(Jobs)
    BY <1>1 DEF NoJob, Jobs, NoHandle, Handles, Whole, Contents
  <2>2. Locals
    BY <1>1, <2>1 DEF Locals
  <2>. QED  BY <1>2, <1>3, <2>1, <2>2 DEF TypeOK
<1>5. \A c \in Clients : ~Sending(c)
  BY DEF Sending
<1>6. \A w \in Workers : ~Working(w) /\ ~ReadsSlab(w) /\ ~FillsSlab(w)
  BY DEF Working, ReadsSlab, FillsSlab
<1>7. ASSUME NEW s \in Slots
      PROVE  SlotOK(s) /\ DevOK(s)
  <2>1. CarriersOf(s) = {}
    <3>1. DOMAIN queue = {}
      OBVIOUS
    <3>2. \A k : k \notin CarriersOf(s)
      BY <1>5, <1>6, <3>1, CarrierIs
    <3>. QED  BY <3>2
  <2>2. Unsent(s) = 0
    BY <2>1, UnsentIs
  <2>3. Pinners(s) = {} /\ Leaks(s) = {}
    BY DEF Pinners, Leaks
  <2>4. Owners(s) = 0
    BY <2>3, FS_EmptySet DEF Owners
  <2>5. fill[s] = "Empty" /\ cache.pins[s] = 0 /\ ~cache.ready[s] /\ cache.id[s] = NoId
    BY DEF EmptyCache
  <2>6. OneJob(s) /\ PinsOwned(s)
    BY <2>1, <2>2, <2>4, <2>5 DEF OneJob, PinsOwned
  <2>. QED  BY <2>5, <2>6 DEF SlotOK, DevOK
<1>8. ASSUME NEW c \in Clients
      PROVE  ClientOK(c) /\ HandlesOK(c)
  BY DEF ClientOK, HandlesOK, HandleIds
<1>9. \A w \in Workers : WorkerOK(w)
  BY DEF WorkerOK
<1>10. RamOK
  <2>1. ASSUME NEW s \in Ram!Slots
        PROVE  SlabOK(s)
    <3>1. SlabUsers(s) = {}
      BY <1>6 DEF SlabUsers
    <3>2. ram.pins[s] = 0 /\ ~ram.ready[s]
      BY DEF Ram!EmptyCache
    <3>. QED  BY <3>1, <3>2, FS_EmptySet DEF SlabOK
  <2>2. \A w \in Workers : UserOK(w)
    BY <1>6 DEF UserOK, FillsSlab
  <2>. QED  BY <1>3, <2>1, <2>2 DEF RamOK
<1>. QED  BY <1>2, <1>4, <1>7, <1>8, <1>9, <1>10 DEF IInv

(* Every step of a worker keeps the invariant.                             *)
LEMMA WorkerStepKeeps ==
  ASSUME IInv, NEW w \in Workers, Fetch(w) \/ Die(w)
  PROVE  IInv'
<1>1. CASE Start(w)
  BY <1>1, StartKeeps
<1>2. CASE Recv(w)
  BY <1>2, RecvKeeps
<1>3. CASE RamGet(w)
  BY <1>3, RamGetKeeps
<1>4. CASE RamCopy(w)
  BY <1>4, RamCopyKeeps
<1>5. CASE RamRelease(w)
  BY <1>5, RamReleaseKeeps
<1>6. CASE ReadBlob(w)
  BY <1>6, ReadBlobKeeps
<1>7. CASE RamPut(w)
  BY <1>7, RamPutKeeps
<1>8. CASE RamWrite(w)
  BY <1>8, RamWriteKeeps
<1>9. CASE RamPublish(w)
  BY <1>9, RamPublishKeeps
<1>10. CASE CopyToDevice(w)
  BY <1>10, CopyToDeviceKeeps
<1>11. CASE PublishFill(w)
  BY <1>11, PublishFillKeeps
<1>12. CASE Die(w)
  BY <1>12, DieKeeps
<1>. QED  BY <1>1, <1>2, <1>3, <1>4, <1>5, <1>6, <1>7, <1>8, <1>9, <1>10, <1>11, <1>12 DEF Fetch

(* So does a step of the pager, and a step of something else.              *)
LEMMA StepKeeps ==
  ASSUME IInv, [Next]_vars
  PROVE  IInv'
<1>1. CASE Next
  BY <1>1, ClientStepKeeps, WorkerStepKeeps, PrewarmKeeps DEF Next
<1>2. CASE UNCHANGED vars
  <2>. USE <1>2 DEF vars, lockVars, ramVars, clientVars, workerVars
  <2>1. TypeOK'
    BY DEF IInv, TypeOK, Locals
  <2>2. /\ \A w \in Workers : WorkerOK(w)'
        /\ RamOK' /\ (NoneAlive => NoneAlive')
        /\ \A w \in Workers : Working(w)' <=> Working(w)
    BY WorkersAside
  <2>. QED  BY <2>1, <2>2, DeviceAside DEF IInv
<1>. QED  BY <1>1, <1>2

(* The pager's threads keep the invariant, whatever they are asked for and *)
(* however they interleave.                                                *)
THEOREM PagerInOrder == Spec => []IInv
<1>1. Init => IInv
  BY InitKeeps
<1>2. IInv /\ [Next]_vars => IInv'
  BY StepKeeps
<1>. QED  BY <1>1, <1>2, PTL DEF Spec

(* The pager's state and its threads' locals keep their types.             *)
THEOREM PagerTyped == Spec => []TypeOK
<1>1. IInv => TypeOK
  BY DEF IInv
<1>. QED  BY <1>1, PagerInOrder, PTL

(* Unless a zstd pack is used with a RAM tier, a handle that has been      *)
(* waited for points at the whole of its expert's weights until it is      *)
(* released: wait returns once fill is Ready, and the pin keeps the slot   *)
(* from every other expert.                                                *)
THEOREM HandlesHoldWeights ==
  ASSUME ~(Compressed /\ HasRam)
  PROVE  Spec => []UsableHandlesHoldWeights
<1>1. ASSUME IInv, NEW c \in Clients, NEW h \in usable[c]
      PROVE  dev[h.slot] = Whole(h.id)
  <2>1. h \in Handles /\ h.slot \in Slots
    BY <1>1, HandlePins
  <2>2. cache.id[h.slot] = h.id /\ fill[h.slot] = "Ready"
    BY <1>1 DEF IInv, HandlesOK
  <2>. QED  BY <1>1, <2>1, <2>2 DEF IInv, DevOK, Raw
<1>2. IInv => UsableHandlesHoldWeights
  BY <1>1 DEF UsableHandlesHoldWeights
<1>. QED  BY <1>2, PagerInOrder, PTL

(* What wait sleeps on and what acquire and is_wedged look at agree.       *)
THEOREM RecordsAgree == Spec => []FillMatchesCache
<1>1. IInv => FillMatchesCache
  BY DEF IInv, SlotOK, FillMatchesCache
<1>. QED  BY <1>1, PagerInOrder, PTL

(* No expert is fetched twice at a time and no copy is late: a slot has    *)
(* one job while it is in flight, and none otherwise.                      *)
THEOREM FillsHaveOneJob == Spec => []OneJobPerFill
<1>1. IInv => OneJobPerFill
  BY DEF IInv, SlotOK, OneJob, OneJobPerFill
<1>. QED  BY <1>1, PagerInOrder, PTL

(* Every pin has an owner, or went with a failed request.                  *)
THEOREM PinsHaveOwners == Spec => []PinsAccounted
<1>1. ASSUME IInv, NEW s \in Slots
      PROVE  Cardinality(UnsentPins(s)) = Unsent(s)
  <2>1. SlotOK(s)
    BY <1>1 DEF IInv
  <2>2. UnsentPins(s) = {k \in CarriersOf(s) : IsUnsent(k)}
    BY DEF UnsentPins, IsUnsent
  <2>3. CASE CarriersOf(s) = {}
    <3>1. UnsentPins(s) = {}
      BY <2>2, <2>3
    <3>. QED  BY <2>3, <3>1, FS_EmptySet, UnsentIs
  <2>4. CASE \E k : CarriersOf(s) = {k}
    <3>1. PICK k : CarriersOf(s) = {k}
      BY <2>4
    <3>2. UnsentPins(s) = IF IsUnsent(k) THEN {k} ELSE {}
      BY <2>2, <3>1
    <3>3. Cardinality({k}) = 1 /\ Cardinality({}) = 0
      BY FS_Singleton, FS_EmptySet
    <3>4. Unsent(s) = IF IsUnsent(k) THEN 1 ELSE 0
      BY <3>1, UnsentIs
    <3>. QED  BY <3>2, <3>3, <3>4
  <2>. QED  BY <2>1, <2>3, <2>4 DEF SlotOK, OneJob
<1>2. IInv => PinsAccounted
  <2>1. SUFFICES ASSUME IInv, NEW s \in Slots
                 PROVE  cache.pins[s] \in {Owners(s) + Unsent(s)}
                          \union IF NoneAlive /\ CarriersOf(s) = {} /\ fill[s] = "InFlight"
                                 THEN {Owners(s) + Unsent(s) + 1} ELSE {}
    BY <1>1 DEF PinsAccounted, Owners
  <2>2. PinsOwned(s) /\ Owners(s) \in Nat
    BY <2>1, OwnersFinite DEF IInv, SlotOK
  <2>3. CarriersOf(s) = {} => Unsent(s) = 0
    BY UnsentIs
  <2>. QED  BY <2>2, <2>3 DEF PinsOwned
<1>. QED  BY <1>2, PagerInOrder, PTL

(* A slab that get hands out holds its expert, and nobody copies from or   *)
(* into a slab while it is written: both happen without the tier's lock.   *)
THEOREM SlabsInOrder == Spec => []SlabsCoherent
<1>1. ASSUME IInv
      PROVE  SlabsCoherent
  <2>1. \A s \in Ram!Slots : ram.ready[s] => slab[s] = Whole(ram.id[s])
    BY <1>1 DEF IInv, RamOK, SlabOK
  <2>2. ASSUME NEW v \in Workers, NEW w \in Workers, v # w, wpc[v] = "ramWrite",
               wpc[w] \in {"ramCopy", "ramWrite"}
        PROVE  rslot[v] # rslot[w]
    <3>1. w \notin SlabUsers(rslot[v])
      BY <1>1, <2>2 DEF IInv, RamOK, UserOK, FillsSlab
    <3>. QED  BY <2>2, <3>1 DEF SlabUsers, ReadsSlab, FillsSlab
  <2>. QED  BY <2>1, <2>2 DEF SlabsCoherent
<1>. QED  BY <1>1, PagerInOrder, PTL
=============================================================================
