---------------------------- MODULE DecoderProofs ----------------------------
(***************************************************************************)
(* Proofs about Decoder, for any number of layers, slots and experts, any  *)
(* depth of the ring and any number of failures: the ring of deferred      *)
(* releases never fills, every pin has an owner, kernels read the experts  *)
(* they were launched for, and a decoder of several layers is wedged only  *)
(* by calls that failed.                                                   *)
(***************************************************************************)
EXTENDS Decoder, SharedProofs, SequenceTheorems

-----------------------------------------------------------------------------
(* The inductive invariant.                                                *)

Deferred == UNION {ring[i].handles : i \in DOMAIN ring}
Prefetching == {j \in jobs : j.drop}
Reads == UNION {stream[i].reads : i \in DOMAIN stream}

(* One pin when the slot is among those of hs.                             *)
On(hs, s) == IF \E h \in hs : h.slot = s THEN 1 ELSE 0

Loaded(h) == cache.id[h.slot] = h.id /\ cache.ready[h.slot]

(* The expert of a handle of this layer.                                   *)
Placed(h) == h.slot \in SlotsOf(PartOf(h.id)) /\ h.id \in IdsOf(layer)

Typed ==
  /\ kind \in {"qwen", "kimi"} /\ pc \in Calls /\ call \in {"step", "multi"}
  /\ cache \in CacheType /\ dev \in [Slots -> Ids \cup {NoId}]
  /\ jobs \subseteq [slot : Slots, id : Ids, drop : BOOLEAN]
  /\ layer \in Layers /\ handles \subseteq Handle /\ IsFiniteSet(handles)
  /\ todo \in Seq(Ids) /\ union \in Seq(Ids)
  /\ next_event \in 0 .. RingSize - 1
  /\ leaked \in [Slots -> Nat] /\ faults \in Nat

(* At most the handles of one layer are deferred, and only in step.        *)
RingForm ==
  /\ ring # <<>> => /\ ring = <<ring[1]>>
                    /\ ring[1].event \in 0 .. RingSize - 1
                    /\ ring[1].handles \subseteq Handle
  /\ kind = "kimi" \/ call = "multi" => ring = <<>>

(* What can be queued: nothing while a layer requests its experts, then    *)
(* its kernels, and between two routers the deferred layer's event, or     *)
(* the kernels of a call that failed.                                      *)
StreamForm ==
  /\ pc \in {"acquire", "prefetch", "launch"} => stream = <<>>
  /\ pc \in {"defer", "sync"} => stream = <<>> \/ stream = <<Kernels(handles)>>
  /\ pc \in {"idle", "route"} =>
       \/ stream = <<>>
       \/ /\ ring # <<>>
          /\ \/ stream = <<Event(ring[1].event)>>
             \/ stream = <<Kernels(ring[1].handles), Event(ring[1].event)>>
       \/ /\ stream = <<Kernels(Reads)>>
          /\ \A h \in Reads : h \in Handle /\ leaked[h.slot] > 0

(* Where a layer is: only step prefetches and defers.                      *)
Modes ==
  /\ pc \in {"idle", "route"} => handles = {}
  /\ pc \in {"prefetch", "defer"} => Defers
  /\ pc = "sync" => ~Defers
  /\ pc = "idle" => layer = 0

(* The experts a layer has still to request are distinct, and with those   *)
(* it has they fit into its slots.                                         *)
Requests ==
  /\ pc = "acquire" =>
       /\ \A i \in 1 .. Len(todo) : todo[i] \in IdsOf(layer) /\ \A h \in handles : h.id # todo[i]
       /\ \A i, j \in 1 .. Len(todo) : todo[i] = todo[j] => i = j
       /\ Cardinality(handles) + Len(todo) <= SlotsPerPart
  /\ pc \in {"acquire", "prefetch", "launch", "sync"} =>
       /\ \A i \in 1 .. Len(union) : union[i] \in IdsOf(layer)
       /\ \A i, j \in 1 .. Len(union) : union[i] = union[j] => i = j

(* A handle's slot keeps its expert, and has it once kernels may read it.  *)
HandlesKept ==
  /\ \A h \in handles : Placed(h) /\ cache.id[h.slot] = h.id
  /\ pc \in {"defer", "sync"} => \A h \in handles : Loaded(h)
  /\ \A h \in Deferred : Loaded(h)
  /\ \A h \in Reads : h \in Handle /\ Loaded(h)

(* A slot has the expert it is published for, or one fetch that will       *)
(* bring it, and somebody holds the slot meanwhile.                        *)
FetchesHeld ==
  /\ \A s \in Slots : cache.ready[s] => dev[s] = cache.id[s]
  /\ \A j, k \in jobs : j.slot = k.slot => j = k
  /\ \A j \in jobs : /\ cache.id[j.slot] = j.id /\ ~cache.ready[j.slot]
                     /\ \/ j.drop
                        \/ leaked[j.slot] > 0
                        \/ \E h \in handles : h.slot = j.slot

PinsCounted ==
  \A s \in Slots :
    cache.pins[s] = On(handles, s) + On(Deferred, s) + On(Prefetching, s) + leaked[s]

IInv ==
  /\ Typed /\ MapsPoint(cache)
  /\ RingForm /\ StreamForm /\ Modes /\ Requests
  /\ HandlesKept /\ FetchesHeld /\ PinsCounted

(* Without a failure nothing has leaked, and what is deferred belongs to   *)
(* the layer before this one, or to the last.                              *)
Before(l) == IF l = 0 THEN Parts - 1 ELSE l - 1

Unfailed ==
  faults = 0 =>
    /\ \A s \in Slots : leaked[s] = 0
    /\ Defers => \A h \in Deferred : /\ h.slot \in SlotsOf(PartOf(h.id))
                                     /\ h.id \in IdsOf(Before(layer))

-----------------------------------------------------------------------------
(* Layers, sequences and sets.                                             *)

(* A layer's experts have a partition of their own, and the same experts   *)
(* of the next layer are one layer's ids further.                          *)
LEMMA IdsInLayer ==
  ASSUME NEW l \in Layers, NEW id \in IdsOf(l)
  PROVE  /\ id \in Ids /\ PartOf(id) = l
         /\ l + 1 \in Layers => id + IdsPerPart \in IdsOf(l + 1)
<1>1. l \in Nat /\ l < Parts /\ IdsPerPart \in Nat \ {0} /\ Parts \in Nat \ {0}
  BY CacheAssumption DEF Layers, PartIds
<1>2. PICK e \in 0 .. IdsPerPart - 1 : id = l * IdsPerPart + e
  BY DEF IdsOf, Fold
<1>3. ASSUME NEW a \in Int, NEW b \in Int, a < b
      PROVE  a * IdsPerPart + IdsPerPart <= b * IdsPerPart
  <2>. DEFINE d == b - (a + 1)
  <2>1. d \in Nat /\ b = a + 1 + d
    BY <1>3
  <2>. HIDE DEF d
  <2>2. b * IdsPerPart = a * IdsPerPart + IdsPerPart + d * IdsPerPart
    BY <1>1, <2>1
  <2>3. d * IdsPerPart \in Nat
    BY <1>1, <2>1
  <2>4. a * IdsPerPart \in Int
    BY <1>1
  <2>. QED  BY <1>1, <2>2, <2>3, <2>4
<1>4. l * IdsPerPart \in Nat
  BY <1>1
<1>5. l * IdsPerPart + IdsPerPart <= Parts * IdsPerPart /\ Parts * IdsPerPart \in Nat
  BY <1>1, <1>3
<1>6. id \in Ids
  BY <1>1, <1>2, <1>4, <1>5, DecoderAssumption DEF Ids
<1>7. PICK q \in Int : q = id \div IdsPerPart
  BY <1>1, <1>2, <1>4
<1>8. q * IdsPerPart <= id /\ id < q * IdsPerPart + IdsPerPart
  <2>1. id \in Int /\ IdsPerPart > 0
    BY <1>1, <1>2, <1>4
  <2>. QED  BY <1>1, <1>7, <2>1
<1>9. q = l
  <2>1. q * IdsPerPart \in Int
    BY <1>1
  <2>2. ~(q < l)
    BY <1>1, <1>2, <1>3, <1>4, <1>8, <2>1
  <2>3. ~(l < q)
    BY <1>1, <1>2, <1>3, <1>4, <1>8, <2>1
  <2>. QED  BY <1>1, <2>2, <2>3
<1>10. PartOf(id) = l
  BY <1>1, <1>7, <1>9 DEF PartOf, LayerOf
<1>11. (l + 1) * IdsPerPart = l * IdsPerPart + IdsPerPart
  BY <1>1
<1>12. id + IdsPerPart = (l + 1) * IdsPerPart + e
  BY <1>1, <1>2, <1>4, <1>11
<1>. QED  BY <1>6, <1>10, <1>12 DEF IdsOf, Fold

(* The smaller of two.                                                     *)
LEMMA MinOfTwo ==
  ASSUME NEW a \in Nat, NEW b \in Nat
  PROVE  Min({a, b}) \in Nat /\ Min({a, b}) <= a /\ Min({a, b}) <= b
<1>. DEFINE P(x) == x \in {a, b} /\ \A y \in {a, b} : x =< y
<1>1. P(a) \/ P(b)
  OBVIOUS
<1>2. P(Min({a, b}))
  BY <1>1, Zenon DEF Min
<1>. QED  BY <1>2

(* A wave is the front of a sequence, what follows it the rest.            *)
LEMMA WaveOf ==
  ASSUME NEW q \in Seq(Ids)
  PROVE  /\ Wave(q) \in Seq(Ids) /\ Len(Wave(q)) <= SlotsPerPart
         /\ Len(Wave(q)) <= Len(q)
         /\ \A i \in 1 .. Len(Wave(q)) : Wave(q)[i] = q[i]
         /\ AfterWave(q) \in Seq(Ids)
         /\ \A i \in 1 .. Len(AfterWave(q)) :
              AfterWave(q)[i] = q[SlotsPerPart + i] /\ SlotsPerPart + i \in 1 .. Len(q)
<1>1. SlotsPerPart \in Nat /\ Len(q) \in Nat
  BY CacheAssumption
<1>2. PICK n \in Nat : n = Min({SlotsPerPart, Len(q)}) /\ n <= SlotsPerPart /\ n <= Len(q)
  BY <1>1, MinOfTwo
<1>3. \A i \in 1 .. n : q[i] \in Ids
  BY <1>1, <1>2
<1>4. /\ SubSeq(q, 1, n) \in Seq(Ids) /\ Len(SubSeq(q, 1, n)) = n
      /\ \A i \in 1 .. n : SubSeq(q, 1, n)[i] = q[i]
  <2>1. 1 \in Int /\ n \in Int
    BY <1>2
  <2>2. /\ SubSeq(q, 1, n) \in Seq(Ids)
        /\ Len(SubSeq(q, 1, n)) = IF 1 <= n THEN n - 1 + 1 ELSE 0
        /\ \A i \in 1 .. n - 1 + 1 : SubSeq(q, 1, n)[i] = q[1 + i - 1]
    BY <1>3, <2>1, SubSeqProperties
  <2>3. ASSUME NEW i \in 1 .. n
        PROVE  SubSeq(q, 1, n)[i] = q[i]
    <3>1. i \in 1 .. n - 1 + 1 /\ 1 + i - 1 = i
      BY <1>2, <2>3
    <3>. QED  BY <2>2, <3>1
  <2>4. Len(SubSeq(q, 1, n)) = n
    BY <1>2, <2>2
  <2>. QED  BY <2>2, <2>3, <2>4
<1>5. Wave(q) = SubSeq(q, 1, n)
  BY <1>2 DEF Wave
<1>6. \A i \in SlotsPerPart + 1 .. Len(q) : q[i] \in Ids
  BY <1>1
<1>7. /\ SubSeq(q, SlotsPerPart + 1, Len(q)) \in Seq(Ids)
      /\ Len(SubSeq(q, SlotsPerPart + 1, Len(q))) =
           IF SlotsPerPart + 1 <= Len(q) THEN Len(q) - (SlotsPerPart + 1) + 1 ELSE 0
      /\ \A i \in 1 .. Len(q) - (SlotsPerPart + 1) + 1 :
           SubSeq(q, SlotsPerPart + 1, Len(q))[i] = q[SlotsPerPart + 1 + i - 1]
  BY <1>1, <1>6, SubSeqProperties
<1>8. \A i \in 1 .. Len(AfterWave(q)) :
        AfterWave(q)[i] = q[SlotsPerPart + i] /\ SlotsPerPart + i \in 1 .. Len(q)
  BY <1>1, <1>7 DEF AfterWave
<1>. QED  BY <1>1, <1>2, <1>4, <1>5, <1>7, <1>8 DEF AfterWave

(* What is left of one or two elements.                                    *)
LEMMA ShortTails ==
  ASSUME NEW a, NEW b
  PROVE  Tail(<<a>>) = <<>> /\ Tail(<<a, b>>) = <<b>>
<1>1. <<a>> \in Seq({a, b}) /\ <<a, b>> \in Seq({a, b}) /\ <<b>> \in Seq({a, b})
  OBVIOUS
<1>2. Tail(<<a>>) \in Seq({a, b}) /\ Len(Tail(<<a>>)) = 0
  <2>1. <<a>> # <<>> /\ Len(<<a>>) - 1 = 0
    OBVIOUS
  <2>. QED  BY <1>1, <2>1, HeadTailProperties
<1>3. /\ Tail(<<a, b>>) \in Seq({a, b}) /\ Len(Tail(<<a, b>>)) = 1
      /\ Tail(<<a, b>>)[1] = b
  <2>1. <<a, b>> # <<>> /\ Len(<<a, b>>) - 1 = 1 /\ <<a, b>>[1 + 1] = b
    OBVIOUS
  <2>2. /\ Tail(<<a, b>>) \in Seq({a, b})
        /\ Len(Tail(<<a, b>>)) = Len(<<a, b>>) - 1
        /\ \A i \in 1 .. Len(Tail(<<a, b>>)) : Tail(<<a, b>>)[i] = <<a, b>>[i + 1]
    BY <1>1, <2>1, HeadTailProperties
  <2>. QED  BY <2>1, <2>2
<1>4. \A s \in Seq({a, b}) : Len(s) = 0 => s = <<>>
  OBVIOUS
<1>5. \A s \in Seq({a, b}) : Len(s) = 1 /\ s[1] = b => s = <<b>>
  OBVIOUS
<1>. QED  BY <1>2, <1>3, <1>4, <1>5

(* What one element is appended to.                                        *)
LEMMA ShortAppends ==
  ASSUME NEW x, NEW y
  PROVE  Append(<<>>, y) = <<y>> /\ Append(<<x>>, y) = <<x, y>>
<1>1. <<>> \in Seq({x, y}) /\ <<x>> \in Seq({x, y}) /\ <<y>> \in Seq({x, y}) /\ <<x, y>> \in Seq({x, y})
  OBVIOUS
<1>2. Append(<<>>, y) = <<y>>
  OBVIOUS
<1>3. Append(<<x>>, y) = <<x, y>>
  <2>1. /\ Append(<<x>>, y) \in Seq({x, y}) /\ Len(Append(<<x>>, y)) = 2
        /\ Append(<<x>>, y)[1] = x /\ Append(<<x>>, y)[2] = y
    BY <1>1
  <2>2. \A s \in Seq({x, y}) : Len(s) = 2 /\ s[1] = x /\ s[2] = y => s = <<x, y>>
    OBVIOUS
  <2>. QED  BY <2>1, <2>2
<1>. QED  BY <1>2, <1>3

(* Handles of distinct slots pin a slot at most once.                      *)
LEMMA OnCounts ==
  ASSUME NEW hs, NEW s, \A h, g \in hs : h.slot = g.slot => h = g
  PROVE  Cardinality({h \in hs : h.slot = s}) = On(hs, s) /\ On(hs, s) \in {0, 1}
<1>1. CASE \E h \in hs : h.slot = s
  <2>1. PICK h \in hs : h.slot = s
    BY <1>1
  <2>2. {g \in hs : g.slot = s} = {h}
    BY <2>1
  <2>. QED  BY <1>1, <2>2, FS_Singleton DEF On
<1>2. CASE ~\E h \in hs : h.slot = s
  <2>1. {g \in hs : g.slot = s} = {}
    BY <1>2
  <2>. QED  BY <1>2, <2>1, FS_EmptySet DEF On
<1>. QED  BY <1>1, <1>2

(* A partition has as many slots as it should.                             *)
LEMMA PartitionSize ==
  ASSUME NEW p \in PartIds
  PROVE  IsFiniteSet(SlotsOf(p)) /\ Cardinality(SlotsOf(p)) = SlotsPerPart
<1>1. p \in Nat /\ p < Parts /\ SlotsPerPart \in Nat \ {0} /\ Parts \in Nat \ {0}
  BY CacheAssumption DEF PartIds
<1>2. PICK a \in Nat : a = p * SlotsPerPart
  BY <1>1
<1>3. (p + 1) * SlotsPerPart = a + SlotsPerPart
  BY <1>1, <1>2
<1>4. PICK d \in Nat : Parts = p + 1 + d
  <2>1. Parts - (p + 1) \in Nat /\ Parts = p + 1 + (Parts - (p + 1))
    BY <1>1
  <2>. QED  BY <2>1
<1>5. Parts * SlotsPerPart = a + SlotsPerPart + d * SlotsPerPart /\ d * SlotsPerPart \in Nat
  BY <1>1, <1>2, <1>4
<1>6. PICK t \in Nat : t = Parts * SlotsPerPart /\ a + SlotsPerPart <= t
  BY <1>1, <1>2, <1>5
<1>7. SlotsOf(p) = a .. a + SlotsPerPart - 1
  <2>1. SlotsOf(p) = {s \in 0 .. t - 1 : a <= s /\ s < a + SlotsPerPart}
    BY <1>2, <1>3, <1>6 DEF SlotsOf, Slots
  <2>. QED  BY <1>1, <1>2, <1>6, <2>1
<1>. QED  BY <1>1, <1>2, <1>7, FS_Interval

(* Handles that hold every slot of a partition are as many as its slots.   *)
LEMMA HandlesFill ==
  ASSUME NEW hs, IsFiniteSet(hs), NEW p \in PartIds,
         \A s \in SlotsOf(p) : \E h \in hs : h.slot = s
  PROVE  SlotsPerPart <= Cardinality(hs)
<1>. DEFINE T == {h.slot : h \in hs}
            f == [h \in hs |-> h.slot]
<1>1. f \in Surjection(hs, T)
  BY DEF Surjection
<1>2. IsFiniteSet(T) /\ Cardinality(T) <= Cardinality(hs)
  BY <1>1, FS_Surjection
<1>3. SlotsOf(p) \in SUBSET T
  OBVIOUS
<1>4. Cardinality(SlotsOf(p)) <= Cardinality(T)
  BY <1>2, <1>3, FS_Subset
<1>5. Cardinality(hs) \in Nat /\ Cardinality(T) \in Nat /\ SlotsPerPart \in Nat
  BY <1>2, FS_CardinalityType, CacheAssumption
<1>. QED  BY <1>2, <1>4, <1>5, PartitionSize

-----------------------------------------------------------------------------
(* What the inductive invariant says of pins.                              *)

(* The deferred handles are those of the ring's one entry.                 *)
LEMMA DeferredIs ==
  ASSUME NEW e
  PROVE  /\ ring = <<>> => Deferred = {}
         /\ ring = <<e>> => Deferred = e.handles
         /\ ring' = <<>> => Deferred' = {}
         /\ ring' = <<e>> => Deferred' = e.handles
BY DEF Deferred

(* The reads of what can be queued.                                        *)
LEMMA ReadsAre ==
  ASSUME NEW hs, NEW ev
  PROVE  /\ stream = <<>> => Reads = {}
         /\ stream = <<Event(ev)>> => Reads = {}
         /\ stream = <<Kernels(hs)>> => Reads = hs
         /\ stream = <<Kernels(hs), Event(ev)>> => Reads = hs
         /\ stream' = <<>> => Reads' = {}
         /\ stream' = <<Event(ev)>> => Reads' = {}
         /\ stream' = <<Kernels(hs)>> => Reads' = hs
         /\ stream' = <<Kernels(hs), Event(ev)>> => Reads' = hs
BY DEF Reads, Kernels, Event

(* Slots and experts of handles, deferred or not, and of fetches.          *)
LEMMA HandleTypes ==
  ASSUME IInv
  PROVE  /\ \A h \in Handle : h.slot \in Slots /\ h.id \in Ids
         /\ Deferred \subseteq Handle /\ handles \subseteq Handle /\ Reads \subseteq Handle
         /\ \A j \in jobs : j.slot \in Slots /\ j.id \in Ids /\ j.drop \in BOOLEAN
<1>1. Deferred \subseteq Handle
  BY DeferredIs DEF IInv, RingForm
<1>2. Reads \subseteq Handle
  BY DEF IInv, HandlesKept
<1>. QED  BY <1>1, <1>2 DEF IInv, Typed, Handle

(* Handles with the same slot are the same handle.                         *)
LEMMA HandlesApart ==
  ASSUME IInv
  PROVE  /\ \A h, g \in handles : h.slot = g.slot => h = g
         /\ \A h, g \in Deferred : h.slot = g.slot => h = g
         /\ \A j, k \in Prefetching : j.slot = k.slot => j = k
<1>1. \A h, g \in handles : h.slot = g.slot => h.id = g.id
  BY DEF IInv, HandlesKept
<1>2. \A h, g \in Deferred : h.slot = g.slot => h.id = g.id
  BY DEF IInv, HandlesKept, Loaded
<1>3. \A h, g \in Handle : h.slot = g.slot /\ h.id = g.id => h = g
  BY DEF Handle
<1>4. handles \subseteq Handle /\ Deferred \subseteq Handle
  BY HandleTypes
<1>5. \A j, k \in Prefetching : j.slot = k.slot => j = k
  BY DEF IInv, FetchesHeld, Prefetching
<1>. QED  BY <1>1, <1>2, <1>3, <1>4, <1>5

(* The pins of a slot are naturals and split by owner.                     *)
LEMMA PinParts ==
  ASSUME IInv, NEW s \in Slots
  PROVE  /\ cache.pins[s] \in Nat /\ leaked[s] \in Nat
         /\ cache.pins[s] = On(handles, s) + On(Deferred, s) + On(Prefetching, s) + leaked[s]
         /\ On(handles, s) \in {0, 1} /\ On(Deferred, s) \in {0, 1}
         /\ On(Prefetching, s) \in {0, 1}
<1>1. \A hs : On(hs, s) \in {0, 1}
  BY DEF On
<1>. QED  BY <1>1 DEF IInv, Typed, CacheType, PinsCounted

(* What is queued reads slots that a handle or a leaked pin holds.         *)
LEMMA ReadsHeld ==
  ASSUME IInv, NEW h \in Reads
  PROVE  h \in handles \/ h \in Deferred \/ leaked[h.slot] > 0
<1>1. pc \in {"acquire", "prefetch", "launch"} \/ pc \in {"defer", "sync"} \/ pc \in {"idle", "route"}
  BY DEF IInv, Typed, Calls
<1>2. stream # <<>>
  BY ReadsAre
<1>3. CASE pc \in {"acquire", "prefetch", "launch"}
  BY <1>2, <1>3 DEF IInv, StreamForm
<1>4. CASE pc \in {"defer", "sync"}
  <2>1. stream = <<Kernels(handles)>>
    BY <1>2, <1>4 DEF IInv, StreamForm
  <2>. QED  BY <2>1, ReadsAre
<1>5. CASE pc \in {"idle", "route"}
  <2>1. CASE ring # <<>> /\ stream = <<Event(ring[1].event)>>
    BY <2>1, ReadsAre
  <2>2. CASE ring # <<>> /\ stream = <<Kernels(ring[1].handles), Event(ring[1].event)>>
    <3>1. Reads = ring[1].handles
      BY <2>2, ReadsAre
    <3>2. Deferred = ring[1].handles
      BY <2>2, DeferredIs DEF IInv, RingForm
    <3>. QED  BY <3>1, <3>2
  <2>3. CASE \A g \in Reads : g \in Handle /\ leaked[g.slot] > 0
    BY <2>3
  <2>. QED  BY <1>2, <1>5, <2>1, <2>2, <2>3 DEF IInv, StreamForm
<1>. QED  BY <1>1, <1>3, <1>4, <1>5

(* Whatever has an owner is pinned: an unpinned slot is nobody's.          *)
LEMMA OwnedPinned ==
  ASSUME IInv
  PROVE  /\ \A h \in handles : cache.pins[h.slot] > 0
         /\ \A h \in Deferred : cache.pins[h.slot] > 0
         /\ \A h \in Reads : cache.pins[h.slot] > 0
         /\ \A j \in jobs : cache.pins[j.slot] > 0
         /\ \A s \in Slots : leaked[s] > 0 => cache.pins[s] > 0
<1>1. \A s \in Slots : leaked[s] > 0 => cache.pins[s] > 0
  BY PinParts
<1>2. ASSUME NEW s \in Slots, NEW hs \in {handles, Deferred, Prefetching},
             \E h \in hs : h.slot = s
      PROVE  cache.pins[s] > 0
  <2>1. On(hs, s) = 1
    BY <1>2 DEF On
  <2>. QED  BY <1>2, <2>1, PinParts
<1>3. ASSUME NEW h \in Reads
      PROVE  cache.pins[h.slot] > 0
  BY <1>1, <1>2, ReadsHeld, HandleTypes
<1>4. ASSUME NEW j \in jobs
      PROVE  cache.pins[j.slot] > 0
  <2>1. j.slot \in Slots
    BY HandleTypes
  <2>2. j.drop \/ leaked[j.slot] > 0 \/ \E h \in handles : h.slot = j.slot
    BY DEF IInv, FetchesHeld
  <2>3. CASE j.drop
    <3>1. j \in Prefetching
      BY <2>3 DEF Prefetching
    <3>. QED  BY <1>2, <2>1, <3>1
  <2>. QED  BY <1>1, <1>2, <2>1, <2>2, <2>3
<1>. QED  BY <1>1, <1>2, <1>3, <1>4, HandleTypes

(* The pins that the ring holds are those of the deferred handles.         *)
LEMMA RingPinsOn ==
  ASSUME IInv, NEW s \in Slots
  PROVE  RingPins(ring, s) = On(Deferred, s)
<1>1. CASE ring = <<>>
  <2>1. {i \in DOMAIN ring : \E h \in ring[i].handles : h.slot = s} = {}
    BY <1>1
  <2>. QED  BY <1>1, <2>1, FS_EmptySet, DeferredIs DEF RingPins, On
<1>2. CASE ring # <<>>
  <2>1. PICK e : ring = <<e>> /\ Deferred = e.handles
    BY <1>2, DeferredIs DEF IInv, RingForm
  <2>2. CASE \E h \in e.handles : h.slot = s
    <3>1. {i \in DOMAIN ring : \E h \in ring[i].handles : h.slot = s} = {1}
      BY <2>1, <2>2
    <3>. QED  BY <2>1, <2>2, <3>1, FS_Singleton DEF RingPins, On
  <2>3. CASE ~\E h \in e.handles : h.slot = s
    <3>1. {i \in DOMAIN ring : \E h \in ring[i].handles : h.slot = s} = {}
      BY <2>1, <2>3
    <3>. QED  BY <2>1, <2>3, <3>1, FS_EmptySet DEF RingPins, On
  <2>. QED  BY <2>2, <2>3
<1>. QED  BY <1>1, <1>2

-----------------------------------------------------------------------------
(* What the inductive invariant implies.                                   *)

(* The types, with at most one layer deferred.                             *)
LEMMA InvTypeOK == IInv => TypeOK
<1>1. SUFFICES ASSUME IInv
               PROVE  TypeOK
  OBVIOUS
<1>2. Len(ring) <= 1 /\ \A i \in DOMAIN ring :
        ring[i].event \in 0 .. RingSize - 1 /\ ring[i].handles \subseteq Handle
  <2>1. CASE ring = <<>>
    BY <2>1
  <2>2. CASE ring # <<>>
    <3>1. PICK e : ring = <<e>> /\ ring[1].event \in 0 .. RingSize - 1 /\ ring[1].handles \subseteq Handle
      BY <1>1, <2>2 DEF IInv, RingForm
    <3>. QED  BY <3>1
  <2>. QED  BY <2>1, <2>2
<1>. QED  BY <1>1, <1>2 DEF IInv, Typed, TypeOK

(* A read slot is published, so the device has the expert it is read for.  *)
LEMMA InvKernels == IInv => KernelsReadTheirExperts
<1>1. SUFFICES ASSUME IInv, NEW i \in DOMAIN stream, NEW h \in stream[i].reads
               PROVE  dev[h.slot] = h.id
  BY DEF KernelsReadTheirExperts
<1>2. h \in Reads
  BY DEF Reads
<1>3. cache.id[h.slot] = h.id /\ cache.ready[h.slot]
  BY <1>1, <1>2 DEF IInv, HandlesKept, Loaded
<1>4. h.slot \in Slots
  BY <1>1, <1>2, HandleTypes
<1>. QED  BY <1>1, <1>3, <1>4 DEF IInv, FetchesHeld

(* The pins, counted.                                                      *)
LEMMA InvPins == IInv => PinsOwned
<1>1. SUFFICES ASSUME IInv, NEW s \in Slots
               PROVE  cache.pins[s] = Cardinality({h \in handles : h.slot = s})
                                        + RingPins(ring, s)
                                        + Cardinality({j \in jobs : j.slot = s /\ j.drop})
                                        + leaked[s]
  BY DEF PinsOwned
<1>2. Cardinality({h \in handles : h.slot = s}) = On(handles, s)
  BY <1>1, HandlesApart, OnCounts
<1>3. Cardinality({j \in jobs : j.slot = s /\ j.drop}) = On(Prefetching, s)
  <2>1. Cardinality({j \in Prefetching : j.slot = s}) = On(Prefetching, s)
    BY <1>1, HandlesApart, OnCounts
  <2>2. {j \in jobs : j.slot = s /\ j.drop} = {j \in Prefetching : j.slot = s}
    BY DEF Prefetching
  <2>. QED  BY <2>1, <2>2
<1>4. RingPins(ring, s) = On(Deferred, s)
  BY <1>1, RingPinsOn
<1>. QED  BY <1>1, <1>2, <1>3, <1>4, PinParts

(* A wedged request finds, on some slot of its layer, a deferred pin or    *)
(* one that a failed call has lost: its own handles do not fill the layer. *)
LEMMA WedgedBy ==
  ASSUME IInv, pc = "acquire", todo # <<>>, IsWedged(cache, Head(todo))
  PROVE  /\ Head(todo) \in IdsOf(layer) /\ PartOf(Head(todo)) = layer
         /\ \E s \in SlotsOf(layer) : leaked[s] > 0 \/ \E h \in Deferred : h.slot = s
<1>1. /\ Head(todo) = todo[1] /\ Len(todo) > 0 /\ Len(todo) \in Nat
      /\ IsFiniteSet(handles) /\ layer \in Layers
  BY DEF IInv, Typed
<1>2. Head(todo) \in IdsOf(layer)
  BY <1>1 DEF IInv, Requests
<1>3. PartOf(Head(todo)) = layer /\ layer \in PartIds
  BY <1>1, <1>2, IdsInLayer DEF Layers
<1>4. SUFFICES ASSUME \A s \in SlotsOf(layer) : ~(leaked[s] > 0) /\ ~\E h \in Deferred : h.slot = s
               PROVE  FALSE
  BY <1>2, <1>3
<1>5. ASSUME NEW s \in SlotsOf(layer)
      PROVE  \E h \in handles : h.slot = s
  <2>1. s \in Slots
    BY DEF SlotsOf
  <2>2. cache.pins[s] > 0 /\ cache.ready[s]
    BY <1>3 DEF IsWedged
  <2>3. On(Deferred, s) = 0 /\ leaked[s] = 0
    <3>1. leaked[s] \in Nat
      BY <2>1, PinParts
    <3>. QED  BY <1>4, <3>1 DEF On
  <2>4. On(Prefetching, s) = 0
    BY <2>2 DEF On, Prefetching, IInv, FetchesHeld
  <2>5. On(handles, s) # 0
    <3>1. cache.pins[s] = On(handles, s) + On(Deferred, s) + On(Prefetching, s) + leaked[s]
      BY <2>1, PinParts
    <3>2. cache.pins[s] = On(handles, s) + 0 + 0 + 0
      BY <2>3, <2>4, <3>1
    <3>3. 0 + 0 + 0 + 0 = 0 /\ ~(0 > 0)
      OBVIOUS
    <3>. QED  BY <2>2, <3>2, <3>3
  <2>. QED  BY <2>5 DEF On
<1>6. SlotsPerPart <= Cardinality(handles)
  BY <1>1, <1>3, <1>5, HandlesFill
<1>7. Cardinality(handles) + Len(todo) <= SlotsPerPart
  BY DEF IInv, Requests
<1>. QED  BY <1>1, <1>6, <1>7, FS_CardinalityType, CacheAssumption

(* Without deferred handles a wedge is made of lost pins alone.            *)
LEMMA WedgedByLost ==
  ASSUME IInv, pc = "acquire", todo # <<>>, IsWedged(cache, Head(todo)), ~Defers
  PROVE  \E s \in SlotsOf(layer) : leaked[s] > 0
<1>1. ring = <<>>
  BY DEF IInv, Typed, RingForm, Defers
<1>2. Deferred = {}
  BY <1>1, DeferredIs
<1>. QED  BY <1>2, WedgedBy

(* With several layers, what is deferred pins another layer's slots.       *)
LEMMA WedgeTakesFailure ==
  ASSUME IInv, Unfailed, Parts > 1,
         pc = "acquire", todo # <<>>, IsWedged(cache, Head(todo))
  PROVE  faults > 0
<1>1. SUFFICES ASSUME faults = 0
               PROVE  FALSE
  BY DEF IInv, Typed
<1>2. PICK s \in SlotsOf(layer) : leaked[s] > 0 \/ \E h \in Deferred : h.slot = s
  BY WedgedBy
<1>3. s \in Slots /\ leaked[s] = 0
  BY <1>1 DEF Unfailed, SlotsOf
<1>4. PICK h \in Deferred : h.slot = s
  BY <1>2, <1>3
<1>5. Defers
  BY <1>4, DeferredIs DEF IInv, Typed, RingForm, Defers
<1>6. h.slot \in SlotsOf(PartOf(h.id)) /\ h.id \in IdsOf(Before(layer))
  BY <1>1, <1>4, <1>5 DEF Unfailed
<1>7. layer \in Nat /\ layer < Parts /\ Parts \in Nat
  BY CacheAssumption DEF IInv, Typed, Layers, PartIds
<1>8. Before(layer) \in Layers /\ Before(layer) # layer
  BY <1>7 DEF Before, Layers, PartIds
<1>9. PartOf(h.id) = Before(layer)
  BY <1>6, <1>8, IdsInLayer
<1>10. Before(layer) \in PartIds /\ layer \in PartIds
  BY <1>8 DEF IInv, Typed, Layers
<1>. QED  BY <1>4, <1>6, <1>8, <1>9, <1>10, PartitionsDisjoint

(* Both halves of the property.                                            *)
LEMMA InvWedge == Parts > 1 /\ IInv /\ Unfailed => WedgeOnlyAfterFailure
<1>1. SUFFICES ASSUME Parts > 1, IInv, Unfailed, pc = "acquire", todo # <<>>,
                      IsWedged(cache, Head(todo))
               PROVE  /\ faults > 0
                      /\ ~Defers => \E s \in SlotsOf(PartOf(Head(todo))) : leaked[s] > 0
  BY DEF WedgeOnlyAfterFailure
<1>2. faults > 0
  BY <1>1, WedgeTakesFailure
<1>3. PartOf(Head(todo)) = layer
  BY <1>1, WedgedBy
<1>. QED  BY <1>1, <1>2, <1>3, WedgedByLost

-----------------------------------------------------------------------------
(* What a step does to the cache.                                          *)

(* A release of entries takes their pins off and nothing else.             *)
LEMMA EntriesReleased ==
  ASSUME NEW c \in CacheType, MapsPoint(c), NEW entries,
         \A s \in Slots : RingPins(entries, s) \in Nat /\ RingPins(entries, s) <= c.pins[s]
  PROVE  /\ ReleaseEntries(c, entries) \in CacheType /\ MapsPoint(ReleaseEntries(c, entries))
         /\ ReleaseEntries(c, entries).id = c.id /\ ReleaseEntries(c, entries).ready = c.ready
         /\ \A s \in Slots :
              ReleaseEntries(c, entries).pins[s] = c.pins[s] - RingPins(entries, s)
<1>1. PICK pins : pins = [s \in Slots |-> c.pins[s] - RingPins(entries, s)]
  OBVIOUS
<1>2. \A s \in Slots : c.pins[s] \in Nat
  BY DEF CacheType
<1>3. pins \in [Slots -> Nat]
  BY <1>1, <1>2
<1>4. PICK n : n = [c EXCEPT !.pins = pins]
  OBVIOUS
<1>5. n = ReleaseEntries(c, entries)
  BY <1>1, <1>4 DEF ReleaseEntries
<1>6. n \in CacheType /\ n.id = c.id /\ n.ready = c.ready /\ n.map = c.map /\ n.pins = pins
  BY <1>3, <1>4 DEF CacheType
<1>7. MapsPoint(n)
  BY <1>6 DEF MapsPoint
<1>. QED  BY <1>1, <1>5, <1>6, <1>7

(* The slot an expert gets is one of its layer's.                          *)
LEMMA SlotInLayer ==
  ASSUME NEW c \in CacheType, MapsPoint(c), NEW id \in Ids, Hits(c, id) \/ Misses(c, id)
  PROVE  AcquireSlot(c, id) \in SlotsOf(PartOf(id)) /\ AcquireSlot(c, id) \in Slots
<1>1. PartOf(id) \in PartIds
  BY PartOfType
<1>2. CASE Hits(c, id)
  <2>1. SlotFor(c, id) \in SlotsOf(PartOf(id))
    BY <1>1, <1>2 DEF MapsPoint, Hits, Resident, SlotFor
  <2>. QED  BY <1>2, <2>1 DEF AcquireSlot, Hits, SlotsOf
<1>3. CASE Misses(c, id)
  <2>1. Victim(c, PartOf(id)) \in Unpinned(c, PartOf(id))
    BY <1>1, <1>3, VictimUnpinned DEF Misses
  <2>. QED  BY <1>3, <2>1, UnpinnedSlots DEF AcquireSlot, Misses
<1>. QED  BY <1>2, <1>3

(* A claimed slot was nobody's. Its fetch is one more and keeps fetches    *)
(* apart, and every slot that somebody holds stays as it was.              *)
LEMMA Claimed ==
  ASSUME IInv, NEW id \in Ids, NEW drop \in BOOLEAN, Claim(id, drop)
  PROVE  \E s \in Slots, j \in [slot : Slots, id : Ids, drop : BOOLEAN] :
           /\ s = AcquireSlot(cache, id) /\ s \in SlotsOf(PartOf(id)) /\ cache.pins[s] = 0
           /\ cache' \in CacheType /\ MapsPoint(cache')
           /\ \A t \in Slots : /\ cache'.pins[t] = IF t = s THEN cache.pins[t] + 1 ELSE cache.pins[t]
                               /\ cache'.id[t] = IF t = s THEN id ELSE cache.id[t]
           /\ j.slot = s /\ j.id = id /\ j.drop = drop /\ jobs' = jobs \cup {j}
           /\ dev' \in [Slots -> Ids \cup {NoId}]
           /\ jobs' \subseteq [slot : Slots, id : Ids, drop : BOOLEAN]
           /\ \A h \in handles \cup Deferred \cup Reads \cup jobs :
                /\ h.slot # s /\ cache'.id[h.slot] = cache.id[h.slot]
                /\ cache'.ready[h.slot] <=> cache.ready[h.slot]
           /\ \A t \in Slots : cache'.ready[t] => dev'[t] = cache'.id[t]
           /\ \A k, i \in jobs' : k.slot = i.slot => k = i
           /\ \A k \in jobs' : cache'.id[k.slot] = k.id /\ ~cache'.ready[k.slot]
<1>1. cache \in CacheType /\ MapsPoint(cache)
  BY DEF IInv, Typed
<1>2. Misses(cache, id) /\ cache' = Acquire(cache, id)
  BY DEF Claim
<1>3. PICK s \in Slots :
        /\ s = AcquireSlot(cache, id) /\ cache.pins[s] = 0
        /\ cache' \in CacheType /\ MapsPoint(cache')
        /\ \A t \in Slots : /\ cache'.pins[t] = IF t = s THEN 1 ELSE cache.pins[t]
                            /\ cache'.id[t] = IF t = s THEN id ELSE cache.id[t]
                            /\ cache'.ready[t] <=> t # s /\ cache.ready[t]
  BY <1>1, <1>2, MissClaims
<1>4. s \in SlotsOf(PartOf(id))
  BY <1>1, <1>2, <1>3, SlotInLayer
<1>5. \A h \in handles \cup Deferred \cup Reads \cup jobs :
        /\ h.slot \in Slots /\ h.slot # s
        /\ cache'.id[h.slot] = cache.id[h.slot]
        /\ cache'.ready[h.slot] <=> cache.ready[h.slot]
  <2>1. \A h \in handles \cup Deferred \cup Reads \cup jobs : h.slot \in Slots
    BY HandleTypes
  <2>2. \A h \in handles \cup Deferred \cup Reads \cup jobs : h.slot # s
    BY <1>3, OwnedPinned
  <2>. QED  BY <1>3, <2>1, <2>2
<1>6. PICK j \in [slot : Slots, id : Ids, drop : BOOLEAN] :
        j.slot = s /\ j.id = id /\ j.drop = drop /\ jobs' = jobs \cup {j}
  <2>1. [slot |-> s, id |-> id, drop |-> drop] \in [slot : Slots, id : Ids, drop : BOOLEAN]
    OBVIOUS
  <2>. QED  BY <1>3, <2>1 DEF Claim
<1>7. dev \in [Slots -> Ids \cup {NoId}] /\ jobs \subseteq [slot : Slots, id : Ids, drop : BOOLEAN]
  BY DEF IInv, Typed
<1>8. dev' \in [Slots -> Ids \cup {NoId}] /\ \A t \in Slots : dev'[t] = IF t = s THEN NoId ELSE dev[t]
  <2>1. dev' = [dev EXCEPT ![s] = NoId]
    BY <1>3 DEF Claim
  <2>. QED  BY <1>7, <2>1
<1>9. jobs' \subseteq [slot : Slots, id : Ids, drop : BOOLEAN]
  BY <1>6, <1>7
<1>10. \A t \in Slots : cache'.pins[t] = IF t = s THEN cache.pins[t] + 1 ELSE cache.pins[t]
  BY <1>3
<1>11. \A t \in Slots : cache'.ready[t] => dev'[t] = cache'.id[t]
  BY <1>3, <1>8 DEF IInv, FetchesHeld
<1>12. ASSUME NEW k \in jobs', NEW i \in jobs', k.slot = i.slot
       PROVE  k = i
  <2>1. k \in jobs \/ k = j
    BY <1>6
  <2>2. i \in jobs \/ i = j
    BY <1>6
  <2>3. \A x \in jobs : x.slot # s
    BY <1>5
  <2>. QED  BY <1>6, <1>12, <2>1, <2>2, <2>3 DEF IInv, FetchesHeld
<1>13. ASSUME NEW k \in jobs'
       PROVE  cache'.id[k.slot] = k.id /\ ~cache'.ready[k.slot]
  <2>1. CASE k = j
    BY <1>3, <1>6, <2>1
  <2>2. CASE k # j
    <3>1. k \in jobs
      BY <1>6, <2>2
    <3>2. cache.id[k.slot] = k.id /\ ~cache.ready[k.slot]
      BY <3>1 DEF IInv, FetchesHeld
    <3>. QED  BY <1>5, <3>1, <3>2
  <2>. QED  BY <2>1, <2>2
<1>. QED  BY <1>3, <1>4, <1>5, <1>6, <1>8, <1>9, <1>10, <1>11, <1>12, <1>13

-----------------------------------------------------------------------------
(* The inductive invariant holds at first and is kept by every action.     *)

(* Nothing is requested, pinned or queued.                                 *)
LEMMA InvInit == Init => IInv /\ Unfailed
<1>1. SUFFICES ASSUME Init
               PROVE  IInv /\ Unfailed
  OBVIOUS
<1>2. cache \in CacheType /\ MapsPoint(cache)
  BY <1>1, EmptyEffect DEF Init
<1>3. Deferred = {} /\ Reads = {} /\ Prefetching = {}
  BY <1>1 DEF Init, Deferred, Reads, Prefetching
<1>4. Typed
  <2>1. 0 \in Layers /\ 0 \in 0 .. RingSize - 1
    BY CacheAssumption, DecoderAssumption DEF Layers, PartIds
  <2>2. <<>> \in Seq(Ids)
    OBVIOUS
  <2>3. dev \in [Slots -> Ids \cup {NoId}] /\ leaked \in [Slots -> Nat] /\ faults \in Nat
    BY <1>1 DEF Init
  <2>4. kind \in {"qwen", "kimi"} /\ pc \in Calls /\ call \in {"step", "multi"}
    BY <1>1 DEF Init, Calls
  <2>. QED  BY <1>1, <1>2, <2>1, <2>2, <2>3, <2>4, FS_EmptySet DEF Init, Typed
<1>5. RingForm /\ StreamForm /\ Modes /\ Requests
  BY <1>1 DEF Init, RingForm, StreamForm, Modes, Requests
<1>6. HandlesKept
  BY <1>1, <1>3 DEF Init, HandlesKept
<1>7. FetchesHeld
  BY <1>1 DEF Init, FetchesHeld, EmptyCache
<1>8. PinsCounted
  <2>1. \A s \in Slots : cache.pins[s] = 0 /\ leaked[s] = 0
    BY <1>1 DEF Init, EmptyCache
  <2>2. \A s \in Slots : On({}, s) = 0
    BY DEF On
  <2>. QED  BY <1>1, <1>3, <2>1, <2>2 DEF Init, PinsCounted
<1>9. Unfailed
  BY <1>1, <1>3 DEF Init, Unfailed
<1>. QED  BY <1>2, <1>4, <1>5, <1>6, <1>7, <1>8, <1>9 DEF IInv

(* The derived sets change with the variables they are made of.            *)
LEMMA SetsFrame ==
  /\ ring' = ring => Deferred' = Deferred
  /\ stream' = stream => Reads' = Reads
  /\ jobs' = jobs => Prefetching' = Prefetching
BY DEF Deferred, Reads, Prefetching

(* A step that changes no variable.                                        *)
LEMMA InvStutter == IInv /\ UNCHANGED vars => IInv'
<1>1. SUFFICES ASSUME IInv, UNCHANGED vars
               PROVE  IInv'
  OBVIOUS
<1>2. /\ UNCHANGED <<kind, cache, jobs, dev, stream, pc, call, layer, todo, union, handles>>
      /\ UNCHANGED <<ring, next_event, leaked, faults>>
  BY <1>1 DEF vars, pagerVars, hostVars, ringVars, errorVars
<1>3. Deferred' = Deferred /\ Reads' = Reads /\ Prefetching' = Prefetching
  BY <1>2, SetsFrame
<1>4. Typed' /\ MapsPoint(cache)' /\ RingForm' /\ Modes' /\ Requests'
  BY <1>1, <1>2 DEF IInv, Typed, RingForm, Modes, Requests, Defers
<1>5. StreamForm' /\ HandlesKept'
  BY <1>1, <1>2, <1>3 DEF IInv, StreamForm, HandlesKept, Loaded, Placed
<1>6. FetchesHeld' /\ PinsCounted'
  BY <1>1, <1>2, <1>3 DEF IInv, FetchesHeld, PinsCounted
<1>. QED  BY <1>4, <1>5, <1>6 DEF IInv

(* A call that starts on the pins as they are.                             *)
LEMMA InvBegin ==
  ASSUME IInv, NEW c \in {"step", "multi"}, Begin(c), UNCHANGED <<cache, ring>>,
         kind = "kimi" \/ c = "step"
  PROVE  IInv'
<1>1. /\ pc = "idle" /\ pc' = "route" /\ call' = c /\ layer' = 0
      /\ UNCHANGED <<kind, stream, jobs, dev, todo, union, handles, next_event, leaked, faults>>
      /\ UNCHANGED <<cache, ring>>
  BY DEF Begin, errorVars
<1>2. Deferred' = Deferred /\ Reads' = Reads /\ Prefetching' = Prefetching
  BY <1>1, SetsFrame
<1>3. handles = {} /\ handles' = {}
  BY <1>1 DEF IInv, Modes
<1>4. Typed' /\ MapsPoint(cache)'
  <2>1. 0 \in Layers
    BY CacheAssumption DEF Layers, PartIds
  <2>. QED  BY <1>1, <2>1 DEF IInv, Typed, Calls
<1>5. RingForm' /\ Modes' /\ Requests'
  BY <1>1, <1>3 DEF IInv, RingForm, Modes, Requests
<1>6. StreamForm'
  BY <1>1, <1>2 DEF IInv, StreamForm
<1>7. HandlesKept'
  BY <1>1, <1>2, <1>3 DEF IInv, HandlesKept, Loaded
<1>8. FetchesHeld' /\ PinsCounted'
  BY <1>1, <1>2 DEF IInv, FetchesHeld, PinsCounted
<1>. QED  BY <1>4, <1>5, <1>6, <1>7, <1>8 DEF IInv

(* step, and kimi's calls, which have no ring.                             *)
LEMMA InvBegins == IInv /\ (BeginStep \/ BeginKimiStep \/ BeginKimiMulti) => IInv'
BY InvBegin DEF BeginStep, BeginKimiStep, BeginKimiMulti

(* step_multi: the ring's pins are dropped, once nothing queued needs them. *)
LEMMA InvBeginMulti == IInv /\ BeginMulti => IInv'
<1>1. SUFFICES ASSUME IInv, BeginMulti
               PROVE  IInv'
  OBVIOUS
<1>2. /\ pc = "idle" /\ pc' = "route" /\ call' = "multi" /\ layer' = 0
      /\ UNCHANGED <<kind, stream, jobs, dev, todo, union, handles, next_event, leaked, faults>>
      /\ cache' = ReleaseEntries(cache, ring) /\ ring' = <<>>
      /\ \A i \in DOMAIN ring : Passed(ring[i].event)
  BY <1>1 DEF BeginMulti, Begin, errorVars
<1>3. Deferred' = {} /\ Reads' = Reads /\ Prefetching' = Prefetching
  BY <1>2, DeferredIs, SetsFrame
<1>4. handles = {} /\ handles' = {}
  BY <1>1, <1>2 DEF IInv, Modes
<1>5. /\ cache' \in CacheType /\ MapsPoint(cache')
      /\ cache'.id = cache.id /\ cache'.ready = cache.ready
      /\ \A s \in Slots : cache'.pins[s] = cache.pins[s] - On(Deferred, s)
  <2>1. \A s \in Slots : RingPins(ring, s) = On(Deferred, s)
    BY <1>1, RingPinsOn
  <2>2. \A s \in Slots : RingPins(ring, s) \in Nat /\ RingPins(ring, s) <= cache.pins[s]
    BY <1>1, <2>1, PinParts
  <2>3. cache \in CacheType /\ MapsPoint(cache)
    BY <1>1 DEF IInv, Typed
  <2>. QED  BY <1>2, <2>1, <2>2, <2>3, EntriesReleased
<1>6. Typed'
  <2>1. 0 \in Layers
    BY CacheAssumption DEF Layers, PartIds
  <2>. QED  BY <1>1, <1>2, <1>5, <2>1 DEF IInv, Typed, Calls
<1>7. RingForm' /\ Modes' /\ Requests'
  BY <1>1, <1>2, <1>4 DEF IInv, RingForm, Modes, Requests
<1>8. StreamForm'
  <2>1. ASSUME ring # <<>>
        PROVE  /\ stream # <<Event(ring[1].event)>>
               /\ stream # <<Kernels(ring[1].handles), Event(ring[1].event)>>
    <3>1. PICK e : ring = <<e>>
      BY <1>1, <2>1 DEF IInv, RingForm
    <3>2. \A i \in DOMAIN stream : stream[i].event # e.event
      BY <1>2, <3>1 DEF Passed
    <3>. QED  BY <3>1, <3>2 DEF Event
  <2>. QED  BY <1>1, <1>2, <1>3, <2>1 DEF IInv, StreamForm
<1>9. HandlesKept'
  BY <1>1, <1>2, <1>3, <1>4, <1>5 DEF IInv, HandlesKept, Loaded
<1>10. FetchesHeld'
  BY <1>1, <1>2, <1>5 DEF IInv, FetchesHeld
<1>11. PinsCounted'
  <2>1. SUFFICES ASSUME NEW s \in Slots
                 PROVE  cache'.pins[s] = On(handles', s) + On(Deferred', s)
                                           + On(Prefetching', s) + leaked'[s]
    BY DEF PinsCounted
  <2>2. On({}, s) = 0
    BY DEF On
  <2>3. On(handles, s) = 0 /\ On(handles', s) = 0 /\ On(Deferred', s) = 0
    BY <1>3, <1>4, <2>2
  <2>4. On(Prefetching', s) = On(Prefetching, s) /\ leaked'[s] = leaked[s]
    BY <1>2, <1>3
  <2>. QED  BY <1>1, <1>5, <2>1, <2>3, <2>4, PinParts
<1>. QED  BY <1>5, <1>6, <1>7, <1>8, <1>9, <1>10, <1>11 DEF IInv

(* A new pager: nothing is pinned, fetched or deferred.                    *)
LEMMA InvResize == IInv /\ Resize => IInv'
<1>1. SUFFICES ASSUME IInv, Resize
               PROVE  IInv'
  OBVIOUS
<1>2. /\ pc = "idle" /\ stream = <<>> /\ ring' = <<>>
      /\ cache' = EmptyCache /\ jobs' = {} /\ dev' = [s \in Slots |-> NoId]
      /\ leaked' = [s \in Slots |-> 0]
      /\ UNCHANGED <<kind, stream, pc, call, layer, todo, union, handles, next_event, faults>>
  BY <1>1 DEF Resize, hostVars
<1>3. Deferred' = {} /\ Reads' = {} /\ Prefetching' = {} /\ handles' = {}
  BY <1>1, <1>2, DeferredIs, ReadsAre DEF IInv, Modes, Prefetching
<1>4. Typed' /\ MapsPoint(cache)'
  BY <1>1, <1>2, EmptyEffect DEF IInv, Typed
<1>5. RingForm' /\ StreamForm' /\ Modes' /\ Requests'
  BY <1>1, <1>2, <1>3 DEF IInv, RingForm, StreamForm, Modes, Requests
<1>6. HandlesKept'
  BY <1>2, <1>3 DEF HandlesKept
<1>7. FetchesHeld'
  BY <1>2 DEF FetchesHeld, EmptyCache
<1>8. PinsCounted'
  <2>1. \A s \in Slots : cache'.pins[s] = 0 /\ leaked'[s] = 0
    BY <1>2 DEF EmptyCache
  <2>2. \A s \in Slots : On({}, s) = 0
    BY DEF On
  <2>. QED  BY <1>3, <2>1, <2>2 DEF PinsCounted
<1>. QED  BY <1>4, <1>5, <1>6, <1>7, <1>8 DEF IInv

(* The GPU takes the front of the stream.                                  *)
LEMMA InvExecute == IInv /\ Execute => IInv'
<1>1. SUFFICES ASSUME IInv, Execute
               PROVE  IInv'
  OBVIOUS
<1>2. /\ stream # <<>> /\ stream' = Tail(stream)
      /\ UNCHANGED <<kind, cache, jobs, dev, pc, call, layer, todo, union, handles>>
      /\ UNCHANGED <<ring, next_event, leaked, faults>>
  BY <1>1 DEF Execute, pagerVars, hostVars, ringVars, errorVars
<1>3. Deferred' = Deferred /\ Prefetching' = Prefetching
  BY <1>2, SetsFrame
<1>4. \A a, b : /\ stream = <<a>> => stream' = <<>>
                /\ stream = <<a, b>> => stream' = <<b>>
  BY <1>2, ShortTails
<1>5. \/ stream' = <<>>
      \/ /\ ring # <<>> /\ stream' = <<Event(ring[1].event)>>
         /\ pc \in {"idle", "route"}
  <2>1. CASE pc \in {"acquire", "prefetch", "launch"}
    BY <1>1, <1>2, <2>1 DEF IInv, StreamForm
  <2>2. CASE pc \in {"defer", "sync"}
    BY <1>1, <1>2, <1>4, <2>2 DEF IInv, StreamForm
  <2>3. CASE pc \in {"idle", "route"}
    BY <1>1, <1>2, <1>4, <2>3 DEF IInv, StreamForm
  <2>. QED  BY <1>1, <2>1, <2>2, <2>3 DEF IInv, Typed, Calls
<1>6. Reads' = {}
  BY <1>5, ReadsAre
<1>7. Typed' /\ MapsPoint(cache)' /\ RingForm' /\ Modes' /\ Requests'
  BY <1>1, <1>2 DEF IInv, Typed, RingForm, Modes, Requests, Defers
<1>8. StreamForm'
  BY <1>2, <1>5 DEF StreamForm
<1>9. HandlesKept'
  BY <1>1, <1>2, <1>3, <1>6 DEF IInv, HandlesKept, Loaded, Placed
<1>10. FetchesHeld' /\ PinsCounted'
  BY <1>1, <1>2, <1>3 DEF IInv, FetchesHeld, PinsCounted
<1>. QED  BY <1>7, <1>8, <1>9, <1>10 DEF IInv

(* A fetch ends: its slot is published, and a prefetch's pin is dropped.   *)
LEMMA InvFill ==
  ASSUME IInv, NEW j \in jobs, FillSlot(j)
  PROVE  IInv'
<1>1. /\ jobs' = jobs \ {j} /\ dev' = [dev EXCEPT ![j.slot] = j.id]
      /\ cache' = IF j.drop THEN Release(Publish(cache, j.slot), j.slot)
                            ELSE Publish(cache, j.slot)
      /\ UNCHANGED <<kind, stream, pc, call, layer, todo, union, handles>>
      /\ UNCHANGED <<ring, next_event, leaked, faults>>
  BY DEF FillSlot, hostVars, ringVars, errorVars
<1>2. Deferred' = Deferred /\ Reads' = Reads
  BY <1>1, SetsFrame
<1>3. PICK s \in Slots : s = j.slot /\ j.id \in Ids /\ cache.id[s] = j.id
  BY HandleTypes DEF IInv, FetchesHeld
<1>4. \A k \in jobs : k.slot = s => k = j
  BY <1>3 DEF IInv, FetchesHeld
<1>5. /\ cache' \in CacheType /\ MapsPoint(cache') /\ cache'.id = cache.id
      /\ \A t \in Slots : cache'.ready[t] <=> t = s \/ cache.ready[t]
      /\ \A t \in Slots : cache'.pins[t] = IF j.drop /\ t = s THEN cache.pins[t] - 1
                                                             ELSE cache.pins[t]
  <2>1. cache \in CacheType /\ MapsPoint(cache)
    BY DEF IInv, Typed
  <2>2. PICK n : n = Publish(cache, s)
    OBVIOUS
  <2>3. /\ n \in CacheType /\ MapsPoint(n) /\ n.id = cache.id /\ n.pins = cache.pins
        /\ \A t \in Slots : n.ready[t] <=> t = s \/ cache.ready[t]
    BY <2>1, <2>2, Published
  <2>4. CASE ~j.drop
    BY <1>1, <1>3, <2>2, <2>3, <2>4
  <2>5. CASE j.drop
    <3>1. n.pins[s] > 0
      BY <1>3, <2>3, OwnedPinned
    <3>2. /\ Release(n, s) \in CacheType /\ MapsPoint(Release(n, s))
          /\ Release(n, s).id = n.id /\ Release(n, s).ready = n.ready
          /\ \A t \in Slots : Release(n, s).pins[t] = IF t = s THEN n.pins[t] - 1 ELSE n.pins[t]
      BY <2>3, <3>1, Released
    <3>3. cache' = Release(n, s)
      BY <1>1, <1>3, <2>2, <2>5
    <3>. QED  BY <2>3, <2>5, <3>2, <3>3
  <2>. QED  BY <2>4, <2>5
<1>6. Typed'
  <2>1. dev' \in [Slots -> Ids \cup {NoId}]
    BY <1>1, <1>3 DEF IInv, Typed
  <2>. QED  BY <1>1, <1>5, <2>1 DEF IInv, Typed
<1>7. RingForm' /\ StreamForm' /\ Modes' /\ Requests'
  BY <1>1, <1>2 DEF IInv, RingForm, StreamForm, Modes, Requests, Defers
<1>8. HandlesKept'
  <2>1. \A h \in Handle : Loaded(h) => Loaded(h)'
    BY <1>5, HandleTypes DEF Loaded
  <2>2. Deferred \subseteq Handle /\ handles \subseteq Handle
    BY HandleTypes
  <2>. QED  BY <1>1, <1>2, <1>5, <2>1, <2>2 DEF IInv, HandlesKept, Placed
<1>9. FetchesHeld'
  <2>1. ASSUME NEW t \in Slots, cache'.ready[t]
        PROVE  dev'[t] = cache'.id[t]
    <3>1. dev \in [Slots -> Ids \cup {NoId}]
      BY DEF IInv, Typed
    <3>2. CASE t = s
      BY <1>1, <1>3, <1>5, <3>1, <3>2
    <3>3. CASE t # s
      <4>1. cache.ready[t] /\ dev'[t] = dev[t]
        BY <1>1, <1>3, <1>5, <2>1, <3>1, <3>3
      <4>. QED  BY <1>5, <4>1 DEF IInv, FetchesHeld
    <3>. QED  BY <3>2, <3>3
  <2>2. \A k, i \in jobs' : k.slot = i.slot => k = i
    BY <1>1 DEF IInv, FetchesHeld
  <2>3. ASSUME NEW k \in jobs'
        PROVE  /\ cache'.id[k.slot] = k.id /\ ~cache'.ready[k.slot]
               /\ k.drop \/ leaked'[k.slot] > 0 \/ \E h \in handles' : h.slot = k.slot
    <3>1. k \in jobs /\ k.slot \in Slots /\ k.slot # s
      BY <1>1, <1>4, HandleTypes
    <3>. QED  BY <1>1, <1>5, <3>1 DEF IInv, FetchesHeld
  <2>. QED  BY <2>1, <2>2, <2>3 DEF FetchesHeld
<1>10. PinsCounted'
  <2>1. SUFFICES ASSUME NEW t \in Slots
                 PROVE  cache'.pins[t] = On(handles', t) + On(Deferred', t)
                                           + On(Prefetching', t) + leaked'[t]
    BY DEF PinsCounted
  <2>2. Prefetching' = Prefetching \ {j}
    BY <1>1 DEF Prefetching
  <2>3. On(Prefetching', t) = IF j.drop /\ t = s THEN On(Prefetching, t) - 1
                                                 ELSE On(Prefetching, t)
    <3>1. CASE t # s
      BY <1>3, <2>2, <3>1 DEF On
    <3>2. CASE t = s /\ ~j.drop
      BY <2>2, <3>2 DEF Prefetching
    <3>3. CASE t = s /\ j.drop
      <4>1. On(Prefetching, t) = 1
        BY <1>3, <3>3 DEF On, Prefetching
      <4>2. On(Prefetching', t) = 0
        BY <1>4, <2>2, <3>3 DEF On, Prefetching
      <4>. QED  BY <3>3, <4>1, <4>2
    <3>. QED  BY <3>1, <3>2, <3>3
  <2>4. /\ On(handles', t) = On(handles, t) /\ On(Deferred', t) = On(Deferred, t)
        /\ leaked'[t] = leaked[t]
    BY <1>1, <1>2
  <2>. QED  BY <1>5, <2>1, <2>3, <2>4, PinParts
<1>. QED  BY <1>5, <1>6, <1>7, <1>8, <1>9, <1>10 DEF IInv

(* A new wave's experts are distinct and fit into the layer; a layer       *)
(* without more experts is done.                                           *)
LEMMA WaveStarts ==
  ASSUME NEW q \in Seq(Ids), Waves(q), layer \in Layers,
         \A i \in 1 .. Len(q) : q[i] \in IdsOf(layer),
         \A i, j \in 1 .. Len(q) : q[i] = q[j] => i = j
  PROVE  /\ handles' = {} /\ todo' \in Seq(Ids) /\ union' \in Seq(Ids)
         /\ \/ pc' = "acquire" /\ UNCHANGED <<layer, call>>
            \/ pc' = "route" /\ UNCHANGED call /\ layer' = layer + 1
            \/ pc' = "idle" /\ call' = "step" /\ layer' = 0
         /\ layer' \in Layers
         /\ Requests'
<1>1. /\ todo' = Wave(q) /\ union' = AfterWave(q) /\ handles' = {}
      /\ \/ pc' = "acquire" /\ UNCHANGED <<layer, call>>
         \/ pc' = "route" /\ UNCHANGED call /\ layer' = layer + 1 /\ layer + 1 \in Layers
         \/ pc' = "idle" /\ call' = "step" /\ layer' = 0
  BY DEF Waves, NextLayer
<1>2. 0 \in Layers
  BY CacheAssumption DEF Layers, PartIds
<1>3. /\ todo' \in Seq(Ids) /\ Len(todo') <= SlotsPerPart /\ Len(todo') <= Len(q)
      /\ \A i \in 1 .. Len(todo') : todo'[i] = q[i]
      /\ union' \in Seq(Ids)
      /\ \A i \in 1 .. Len(union') :
           union'[i] = q[SlotsPerPart + i] /\ SlotsPerPart + i \in 1 .. Len(q)
  BY <1>1, WaveOf
<1>4. SlotsPerPart \in Nat /\ Len(todo') \in Nat /\ Len(union') \in Nat /\ Len(q) \in Nat
  BY <1>3, CacheAssumption
<1>5. \A i \in 1 .. Len(todo') : i \in 1 .. Len(q)
  BY <1>3, <1>4
<1>6. \A i, j \in 1 .. Len(union') : SlotsPerPart + i = SlotsPerPart + j => i = j
  BY <1>4
<1>7. Requests'
  <2>1. ASSUME pc' = "acquire"
        PROVE  /\ \A i \in 1 .. Len(todo') : todo'[i] \in IdsOf(layer') /\ \A h \in handles' : h.id # todo'[i]
               /\ \A i, j \in 1 .. Len(todo') : todo'[i] = todo'[j] => i = j
               /\ Cardinality(handles') + Len(todo') <= SlotsPerPart
    <3>1. layer' = layer
      BY <1>1, <2>1
    <3>2. Cardinality(handles') + Len(todo') <= SlotsPerPart
      BY <1>1, <1>3, <1>4, FS_EmptySet
    <3>3. \A i, j \in 1 .. Len(todo') : todo'[i] = todo'[j] => i = j
      BY <1>3, <1>5
    <3>. QED  BY <1>1, <1>3, <1>5, <3>1, <3>2, <3>3
  <2>2. ASSUME pc' \in {"acquire", "prefetch", "launch", "sync"}
        PROVE  /\ \A i \in 1 .. Len(union') : union'[i] \in IdsOf(layer')
               /\ \A i, j \in 1 .. Len(union') : union'[i] = union'[j] => i = j
    <3>1. layer' = layer
      BY <1>1, <2>2
    <3>2. \A i \in 1 .. Len(union') : union'[i] \in IdsOf(layer')
      BY <1>3, <3>1
    <3>3. \A i, j \in 1 .. Len(union') : union'[i] = union'[j] => i = j
      BY <1>3, <1>6
    <3>. QED  BY <3>2, <3>3
  <2>. QED  BY <2>1, <2>2 DEF Requests
<1>. QED  BY <1>1, <1>2, <1>3, <1>7

(* A new wave keeps the invariant when nothing is queued and the handles   *)
(* that it replaces, all published, have just been released.               *)
LEMMA InvWaves ==
  ASSUME IInv, NEW q \in Seq(Ids), Waves(q), stream = <<>>,
         \A i \in 1 .. Len(q) : q[i] \in IdsOf(layer),
         \A i, j \in 1 .. Len(q) : q[i] = q[j] => i = j,
         UNCHANGED <<kind, jobs, dev, stream, ring, next_event, leaked, faults>>,
         cache' \in CacheType, MapsPoint(cache'),
         cache'.id = cache.id, cache'.ready = cache.ready,
         \A s \in Slots : cache'.pins[s] = cache.pins[s] - On(handles, s),
         \A h \in handles : cache.ready[h.slot]
  PROVE  IInv'
<1>1. layer \in Layers
  BY DEF IInv, Typed
<1>2. /\ handles' = {} /\ todo' \in Seq(Ids) /\ union' \in Seq(Ids)
      /\ \/ pc' = "acquire" /\ UNCHANGED <<layer, call>>
         \/ pc' = "route" /\ UNCHANGED call
         \/ pc' = "idle" /\ call' = "step" /\ layer' = 0
      /\ layer' \in Layers /\ Requests'
  BY <1>1, WaveStarts
<1>3. Deferred' = Deferred /\ Reads' = {} /\ Prefetching' = Prefetching
  BY SetsFrame, ReadsAre
<1>4. Typed'
  BY <1>2, FS_EmptySet DEF IInv, Typed, Calls
<1>5. RingForm' /\ StreamForm' /\ Modes'
  BY <1>2 DEF IInv, RingForm, StreamForm, Modes
<1>6. HandlesKept'
  BY <1>2, <1>3 DEF IInv, HandlesKept, Loaded
<1>7. FetchesHeld'
  BY <1>2 DEF IInv, FetchesHeld
<1>8. PinsCounted'
  <2>1. SUFFICES ASSUME NEW s \in Slots
                 PROVE  cache'.pins[s] = On(handles', s) + On(Deferred', s)
                                           + On(Prefetching', s) + leaked'[s]
    BY DEF PinsCounted
  <2>2. On(handles', s) = 0
    BY <1>2 DEF On
  <2>3. On(Deferred', s) = On(Deferred, s) /\ On(Prefetching', s) = On(Prefetching, s)
    BY <1>3
  <2>. QED  BY <2>1, <2>2, <2>3, PinParts
<1>. QED  BY <1>2, <1>4, <1>5, <1>6, <1>7, <1>8 DEF IInv

(* What a router may choose, by rank or in order.                          *)
LEMMA RouterChoices ==
  ASSUME NEW l \in Layers, NEW n \in Nat, NEW q \in Ranked(l, n) \cup Sorted(l, n)
  PROVE  /\ q \in Seq(Ids)
         /\ \A i \in 1 .. Len(q) : q[i] \in IdsOf(l)
         /\ \A i, j \in 1 .. Len(q) : q[i] = q[j] => i = j
<1>1. IdsOf(l) \subseteq Ids
  BY IdsInLayer
<1>2. \E k \in Nat, u \in SUBSET IdsOf(l) : q \in [1 .. k -> u] /\ IsInjective(q)
  <2>1. CASE q \in Ranked(l, n)
    BY <2>1 DEF Ranked
  <2>2. CASE q \in Sorted(l, n)
    <3>1. PICK u \in SUBSET IdsOf(l) : q \in [1 .. Cardinality(u) -> u] /\ IsInjective(q)
      BY <2>2 DEF Sorted, InOrder, Orders
    <3>2. NumIds - 1 \in Int
      BY CacheAssumption
    <3>3. IsFiniteSet(Ids)
      BY <3>2, FS_Interval DEF Ids
    <3>4. IsFiniteSet(u)
      BY <1>1, <3>3, FS_Subset
    <3>. QED  BY <3>1, <3>4, FS_CardinalityType
  <2>. QED  BY <2>1, <2>2
<1>3. PICK k \in Nat, u \in SUBSET IdsOf(l) : q \in [1 .. k -> u] /\ IsInjective(q)
  BY <1>2
<1>4. q \in Seq(Ids) /\ Len(q) = k
  BY <1>1, <1>3
<1>. QED  BY <1>3, <1>4 DEF IsInjective

(* The router's choice starts a layer.                                     *)
LEMMA InvRoutes == IInv /\ (Route \/ RouteMulti \/ RouteKimi \/ RouteKimiMulti) => IInv'
<1>1. SUFFICES ASSUME IInv, Route \/ RouteMulti \/ RouteKimi \/ RouteKimiMulti
               PROVE  IInv'
  OBVIOUS
<1>2. layer \in Layers /\ TopK \in Nat /\ cache \in CacheType /\ MapsPoint(cache)
  BY <1>1, DecoderAssumption DEF IInv, Typed
<1>3. PICK n \in Nat : \E q \in Ranked(layer, n) \cup Sorted(layer, n) :
        /\ pc = "route" /\ stream = <<>> /\ Waves(q)
        /\ UNCHANGED <<kind, cache, jobs, dev, stream, ring, next_event, leaked, faults>>
  <2>1. CASE Route
    BY <1>2, <2>1 DEF Route, Routed, pagerVars, ringVars, errorVars
  <2>2. CASE RouteMulti
    BY <1>2, <2>2 DEF RouteMulti, Routed, pagerVars, ringVars, errorVars
  <2>3. CASE RouteKimi
    <3>1. \A n \in 0 .. TopK : n \in Nat
      BY <1>2
    <3>. QED  BY <2>3, <3>1 DEF RouteKimi, Routed, pagerVars, ringVars, errorVars
  <2>4. CASE RouteKimiMulti
    BY <2>4 DEF RouteKimiMulti, Routed, pagerVars, ringVars, errorVars
  <2>. QED  BY <1>1, <2>1, <2>2, <2>3, <2>4
<1>. PICK q \in Ranked(layer, n) \cup Sorted(layer, n) :
        /\ pc = "route" /\ stream = <<>> /\ Waves(q)
        /\ UNCHANGED <<kind, cache, jobs, dev, stream, ring, next_event, leaked, faults>>
  BY <1>3
<1>4. /\ q \in Seq(Ids)
      /\ \A i \in 1 .. Len(q) : q[i] \in IdsOf(layer)
      /\ \A i, j \in 1 .. Len(q) : q[i] = q[j] => i = j
  BY <1>2, RouterChoices
<1>5. handles = {}
  BY <1>1, <1>3 DEF IInv, Modes
<1>6. \A s \in Slots : cache'.pins[s] = cache.pins[s] - On(handles, s)
  <2>1. \A s \in Slots : cache.pins[s] \in Nat
    BY <1>2 DEF CacheType
  <2>2. \A s \in Slots : On(handles, s) = 0
    BY <1>5 DEF On
  <2>. QED  BY <1>3, <2>1, <2>2
<1>. QED  BY <1>1, <1>2, <1>3, <1>4, <1>5, <1>6, InvWaves

(* A wave ends: its handles are released and the next one starts.          *)
LEMMA InvEndWave == IInv /\ EndWave => IInv'
<1>1. SUFFICES ASSUME IInv, EndWave
               PROVE  IInv'
  OBVIOUS
<1>2. /\ pc = "sync" /\ stream = <<>> /\ cache' = ReleaseHandles(cache, handles) /\ Waves(union)
      /\ UNCHANGED <<kind, jobs, dev, stream, ring, next_event, leaked, faults>>
  BY <1>1 DEF EndWave, ringVars, errorVars
<1>3. PICK entries : entries = <<[event |-> NoEvent, handles |-> handles]>>
  OBVIOUS
<1>4. ASSUME NEW s \in Slots
      PROVE  RingPins(entries, s) = On(handles, s)
  <2>1. CASE \E h \in handles : h.slot = s
    <3>1. {i \in DOMAIN entries : \E h \in entries[i].handles : h.slot = s} = {1}
      BY <1>3, <2>1
    <3>. QED  BY <2>1, <3>1, FS_Singleton DEF RingPins, On
  <2>2. CASE ~\E h \in handles : h.slot = s
    <3>1. {i \in DOMAIN entries : \E h \in entries[i].handles : h.slot = s} = {}
      BY <1>3, <2>2
    <3>. QED  BY <2>2, <3>1, FS_EmptySet DEF RingPins, On
  <2>. QED  BY <2>1, <2>2
<1>5. /\ cache' \in CacheType /\ MapsPoint(cache')
      /\ cache'.id = cache.id /\ cache'.ready = cache.ready
      /\ \A s \in Slots : cache'.pins[s] = cache.pins[s] - On(handles, s)
  <2>1. \A s \in Slots : RingPins(entries, s) \in Nat /\ RingPins(entries, s) <= cache.pins[s]
    BY <1>1, <1>4, PinParts
  <2>2. cache \in CacheType /\ MapsPoint(cache)
    BY <1>1 DEF IInv, Typed
  <2>3. cache' = ReleaseEntries(cache, entries)
    BY <1>2, <1>3 DEF ReleaseHandles
  <2>. QED  BY <1>4, <2>1, <2>2, <2>3, EntriesReleased
<1>6. \A h \in handles : cache.ready[h.slot]
  BY <1>1, <1>2 DEF IInv, HandlesKept, Loaded
<1>7. /\ union \in Seq(Ids)
      /\ \A i \in 1 .. Len(union) : union[i] \in IdsOf(layer)
      /\ \A i, j \in 1 .. Len(union) : union[i] = union[j] => i = j
  BY <1>1, <1>2 DEF IInv, Typed, Requests
<1>. QED  BY <1>1, <1>2, <1>5, <1>6, <1>7, InvWaves

(* A call fails: its handles' pins are lost, with whatever its kernels are *)
(* still to read.                                                          *)
LEMMA InvAbandon ==
  ASSUME IInv, Abandon, pc # "idle", faults' \in Nat
  PROVE  IInv'
<1>1. /\ pc' = "idle" /\ layer' = 0 /\ call' = "step"
      /\ handles' = {} /\ todo' = <<>> /\ union' = <<>>
      /\ leaked' = [s \in Slots |-> leaked[s] + Cardinality({h \in handles : h.slot = s})]
      /\ UNCHANGED <<kind, cache, jobs, dev, stream, ring, next_event>>
  BY DEF Abandon, pagerVars, ringVars
<1>2. Deferred' = Deferred /\ Reads' = Reads /\ Prefetching' = Prefetching
  BY <1>1, SetsFrame
<1>3. \A s \in Slots : leaked'[s] = leaked[s] + On(handles, s)
  <2>1. \A s \in Slots : Cardinality({h \in handles : h.slot = s}) = On(handles, s)
    BY HandlesApart, OnCounts
  <2>. QED  BY <1>1, <2>1
<1>4. \A s \in Slots : leaked'[s] \in Nat /\ (leaked[s] > 0 \/ (\E h \in handles : h.slot = s) => leaked'[s] > 0)
  <2>1. SUFFICES ASSUME NEW s \in Slots
                 PROVE  leaked'[s] \in Nat /\ (leaked[s] > 0 \/ (\E h \in handles : h.slot = s) => leaked'[s] > 0)
    OBVIOUS
  <2>2. (\E h \in handles : h.slot = s) => On(handles, s) = 1
    BY DEF On
  <2>. QED  BY <1>3, <2>1, <2>2, PinParts
<1>5. Typed'
  <2>1. 0 \in Layers
    BY CacheAssumption DEF Layers, PartIds
  <2>2. leaked' \in [Slots -> Nat]
    <3>1. leaked' = [s \in Slots |-> leaked'[s]]
      BY <1>1
    <3>. QED  BY <1>4, <3>1
  <2>3. todo' \in Seq(Ids) /\ union' \in Seq(Ids)
    BY <1>1
  <2>. QED  BY <1>1, <2>1, <2>2, <2>3, FS_EmptySet DEF IInv, Typed, Calls
<1>6. RingForm' /\ Modes' /\ Requests'
  BY <1>1 DEF IInv, RingForm, Modes, Requests
<1>7. StreamForm'
  <2>1. CASE stream = <<>>
    BY <1>1, <2>1 DEF StreamForm
  <2>2. CASE pc = "route"
    <3>1. \A h \in Reads : h \in Handle /\ leaked[h.slot] > 0 => leaked'[h.slot] > 0
      BY <1>4, HandleTypes
    <3>. QED  BY <1>1, <1>2, <2>2, <3>1 DEF IInv, StreamForm
  <2>3. CASE stream = <<Kernels(handles)>>
    <3>1. Reads = handles
      BY <2>3, ReadsAre
    <3>2. \A h \in handles : h \in Handle /\ leaked'[h.slot] > 0
      BY <1>4, HandleTypes
    <3>. QED  BY <1>1, <1>2, <2>3, <3>1, <3>2 DEF StreamForm
  <2>4. stream = <<>> \/ pc = "route" \/ stream = <<Kernels(handles)>>
    BY DEF IInv, Typed, Calls, StreamForm
  <2>. QED  BY <2>1, <2>2, <2>3, <2>4
<1>8. HandlesKept'
  BY <1>1, <1>2 DEF IInv, HandlesKept, Loaded
<1>9. FetchesHeld'
  <2>1. \A j \in jobs : j.drop \/ leaked'[j.slot] > 0
    BY <1>4, HandleTypes DEF IInv, FetchesHeld
  <2>. QED  BY <1>1, <2>1 DEF IInv, FetchesHeld
<1>10. PinsCounted'
  <2>1. SUFFICES ASSUME NEW s \in Slots
                 PROVE  cache'.pins[s] = On(handles', s) + On(Deferred', s)
                                           + On(Prefetching', s) + leaked'[s]
    BY DEF PinsCounted
  <2>2. On(handles', s) = 0
    BY <1>1 DEF On
  <2>3. On(Deferred', s) = On(Deferred, s) /\ On(Prefetching', s) = On(Prefetching, s)
    BY <1>2
  <2>. QED  BY <1>1, <1>3, <2>1, <2>2, <2>3, PinParts
<1>. QED  BY <1>1, <1>5, <1>6, <1>7, <1>8, <1>9, <1>10 DEF IInv

(* A request that gives up, and a driver call that fails.                  *)
LEMMA InvFailures == IInv /\ (StallTimeout \/ Fault) => IInv'
<1>1. SUFFICES ASSUME IInv, StallTimeout \/ Fault
               PROVE  IInv'
  OBVIOUS
<1>2. faults \in Nat
  BY <1>1 DEF IInv, Typed
<1>3. Abandon /\ pc # "idle" /\ faults' \in Nat
  BY <1>1, <1>2 DEF StallTimeout, Fault
<1>. QED  BY <1>1, <1>3, InvAbandon

(* request takes the next expert of its wave: one more handle, whose slot  *)
(* is in none of the others.                                               *)
LEMMA InvAcquireNext == IInv /\ AcquireNext => IInv'
<1>1. SUFFICES ASSUME IInv, AcquireNext
               PROVE  IInv'
  OBVIOUS
<1>2. PICK id : id = Head(todo)
  OBVIOUS
<1>3. /\ pc = "acquire" /\ todo # <<>> /\ todo' = Tail(todo)
      /\ handles' = handles \cup {[slot |-> AcquireSlot(cache, id), id |-> id]}
      /\ UNCHANGED <<kind, stream, pc, call, layer, union, ring, next_event, leaked, faults>>
      /\ \/ Hits(cache, id) /\ cache' = Acquire(cache, id) /\ UNCHANGED <<jobs, dev>>
         \/ Claim(id, FALSE)
  BY <1>1, <1>2 DEF AcquireNext, ringVars, errorVars
<1>4. cache \in CacheType /\ MapsPoint(cache) /\ todo \in Seq(Ids) /\ layer \in Layers
  BY <1>1 DEF IInv, Typed
<1>5. /\ todo' \in Seq(Ids) /\ Len(todo) \in Nat /\ Len(todo) > 0 /\ Len(todo') = Len(todo) - 1
      /\ \A i \in 1 .. Len(todo') : todo'[i] = todo[i + 1] /\ i + 1 \in 1 .. Len(todo) /\ i + 1 # 1
      /\ id = todo[1] /\ 1 \in 1 .. Len(todo)
  <2>1. /\ Tail(todo) \in Seq(Ids) /\ Len(Tail(todo)) = Len(todo) - 1
        /\ \A i \in 1 .. Len(Tail(todo)) : Tail(todo)[i] = todo[i + 1]
    BY <1>3, <1>4, HeadTailProperties
  <2>2. Len(todo) \in Nat /\ Len(todo) > 0 /\ id = todo[1]
    BY <1>2, <1>3, <1>4
  <2>. QED  BY <1>3, <2>1, <2>2
<1>6. id \in IdsOf(layer) /\ id \in Ids /\ PartOf(id) = layer /\ \A h \in handles : h.id # id
  <2>1. id \in IdsOf(layer) /\ \A h \in handles : h.id # id
    BY <1>1, <1>3, <1>5 DEF IInv, Requests
  <2>. QED  BY <1>4, <2>1, IdsInLayer
<1>7. Deferred' = Deferred /\ Reads' = {} /\ Reads = {}
  <2>1. stream = <<>>
    BY <1>1, <1>3 DEF IInv, StreamForm
  <2>. QED  BY <1>3, <2>1, SetsFrame, ReadsAre
(* Either way the slot has the expert and one more pin.                    *)
<1>8. PICK s \in Slots :
        /\ s = AcquireSlot(cache, id) /\ s \in SlotsOf(PartOf(id))
        /\ cache' \in CacheType /\ MapsPoint(cache')
        /\ \A t \in Slots :
             /\ cache'.pins[t] = IF t = s THEN cache.pins[t] + 1 ELSE cache.pins[t]
             /\ cache'.id[t] = IF t = s THEN id ELSE cache.id[t]
        /\ \A h \in handles : h.slot # s
        /\ \A h \in Deferred : cache'.ready[h.slot] <=> cache.ready[h.slot]
        /\ \A h \in Deferred : cache'.id[h.slot] = cache.id[h.slot]
        /\ FetchesHeld' /\ Prefetching' = Prefetching
        /\ dev' \in [Slots -> Ids \cup {NoId}]
        /\ jobs' \subseteq [slot : Slots, id : Ids, drop : BOOLEAN]
  <2>1. CASE Hits(cache, id) /\ cache' = Acquire(cache, id) /\ UNCHANGED <<jobs, dev>>
    <3>1. PICK s \in Slots :
            /\ s = AcquireSlot(cache, id) /\ cache.id[s] = id
            /\ cache' \in CacheType /\ MapsPoint(cache')
            /\ cache'.id = cache.id /\ cache'.ready = cache.ready
            /\ \A t \in Slots : cache'.pins[t] = IF t = s THEN cache.pins[t] + 1 ELSE cache.pins[t]
      BY <1>4, <1>6, <2>1, HitEffect
    <3>2. s \in SlotsOf(PartOf(id))
      BY <1>4, <1>6, <2>1, <3>1, SlotInLayer
    <3>3. \A h \in handles : h.slot # s
      BY <1>1, <1>6, <3>1 DEF IInv, HandlesKept
    <3>4. FetchesHeld'
      <4>1. handles \subseteq handles'
        BY <1>3
      <4>. QED  BY <1>1, <1>3, <2>1, <3>1, <4>1 DEF IInv, FetchesHeld
    <3>5. Prefetching' = Prefetching /\ dev' \in [Slots -> Ids \cup {NoId}]
          /\ jobs' \subseteq [slot : Slots, id : Ids, drop : BOOLEAN]
      BY <1>1, <2>1, SetsFrame DEF IInv, Typed
    <3>. QED  BY <3>1, <3>2, <3>3, <3>4, <3>5
  <2>2. CASE Claim(id, FALSE)
    <3>1. PICK drop \in BOOLEAN : ~drop /\ Claim(id, drop)
      BY <2>2
    <3>2. PICK s \in Slots, j \in [slot : Slots, id : Ids, drop : BOOLEAN] :
            /\ s = AcquireSlot(cache, id) /\ s \in SlotsOf(PartOf(id)) /\ cache.pins[s] = 0
            /\ cache' \in CacheType /\ MapsPoint(cache')
            /\ \A t \in Slots : /\ cache'.pins[t] = IF t = s THEN cache.pins[t] + 1 ELSE cache.pins[t]
                                /\ cache'.id[t] = IF t = s THEN id ELSE cache.id[t]
            /\ j.slot = s /\ j.id = id /\ j.drop = drop /\ jobs' = jobs \cup {j}
            /\ dev' \in [Slots -> Ids \cup {NoId}]
            /\ jobs' \subseteq [slot : Slots, id : Ids, drop : BOOLEAN]
            /\ \A h \in handles \cup Deferred \cup Reads \cup jobs :
                 /\ h.slot # s /\ cache'.id[h.slot] = cache.id[h.slot]
                 /\ cache'.ready[h.slot] <=> cache.ready[h.slot]
            /\ \A t \in Slots : cache'.ready[t] => dev'[t] = cache'.id[t]
            /\ \A k, i \in jobs' : k.slot = i.slot => k = i
            /\ \A k \in jobs' : cache'.id[k.slot] = k.id /\ ~cache'.ready[k.slot]
      BY <1>1, <1>6, <3>1, Claimed
    <3>3. ~j.drop
      BY <3>1, <3>2
    <3>4. Prefetching' = Prefetching
      BY <3>2, <3>3 DEF Prefetching
    <3>5. ASSUME NEW k \in jobs'
          PROVE  k.drop \/ leaked'[k.slot] > 0 \/ \E h \in handles' : h.slot = k.slot
      <4>1. CASE k = j
        <5>1. [slot |-> s, id |-> id] \in handles' /\ [slot |-> s, id |-> id].slot = s
          BY <1>3, <3>2
        <5>2. k.slot = s
          BY <3>2, <4>1
        <5>. QED  BY <5>1, <5>2
      <4>2. CASE k # j
        BY <1>1, <1>3, <3>2, <4>2 DEF IInv, FetchesHeld
      <4>. QED  BY <4>1, <4>2
    <3>6. FetchesHeld'
      BY <3>2, <3>5 DEF FetchesHeld
    <3>7. \A h \in handles : h.slot # s
      BY <3>2
    <3>. QED  BY <3>2, <3>4, <3>6, <3>7
  <2>. QED  BY <1>3, <2>1, <2>2
<1>9. PICK h0 \in Handle : h0 = [slot |-> s, id |-> id] /\ h0.slot = s /\ h0.id = id
                           /\ handles' = handles \cup {h0}
  <2>1. [slot |-> s, id |-> id] \in Handle
    BY <1>6 DEF Handle
  <2>. QED  BY <1>3, <1>8, <2>1
<1>10. IsFiniteSet(handles') /\ Cardinality(handles') = Cardinality(handles) + 1
       /\ Cardinality(handles) \in Nat
  <2>1. IsFiniteSet(handles) /\ h0 \notin handles
    BY <1>1, <1>8, <1>9 DEF IInv, Typed
  <2>. QED  BY <1>9, <2>1, FS_AddElement, FS_CardinalityType
<1>11. Typed'
  BY <1>1, <1>3, <1>5, <1>8, <1>9, <1>10 DEF IInv, Typed
<1>12. RingForm' /\ StreamForm' /\ Modes'
  BY <1>1, <1>3 DEF IInv, RingForm, StreamForm, Modes
<1>13. Requests'
  <2>1. \A i \in 1 .. Len(todo') : todo'[i] \in IdsOf(layer) /\ todo'[i] # id
                                   /\ \A h \in handles : h.id # todo'[i]
    BY <1>1, <1>3, <1>5 DEF IInv, Requests
  <2>2. ASSUME NEW i \in 1 .. Len(todo'), NEW j \in 1 .. Len(todo'), todo'[i] = todo'[j]
        PROVE  i = j
    <3>1. i + 1 = j + 1
      BY <1>1, <1>3, <1>5, <2>2 DEF IInv, Requests
    <3>. QED  BY <1>5, <3>1
  <2>3. Cardinality(handles') + Len(todo') <= SlotsPerPart
    <3>1. Cardinality(handles) + Len(todo) <= SlotsPerPart
      BY <1>1, <1>3 DEF IInv, Requests
    <3>. QED  BY <1>5, <1>10, <3>1, CacheAssumption
  <2>4. /\ \A i \in 1 .. Len(union') : union'[i] \in IdsOf(layer')
        /\ \A i, j \in 1 .. Len(union') : union'[i] = union'[j] => i = j
    BY <1>1, <1>3 DEF IInv, Requests
  <2>5. \A i \in 1 .. Len(todo') : todo'[i] \in IdsOf(layer') /\ \A h \in handles' : h.id # todo'[i]
    BY <1>3, <1>9, <2>1
  <2>. QED  BY <2>2, <2>3, <2>4, <2>5 DEF Requests
<1>14. HandlesKept'
  <2>1. ASSUME NEW h \in handles'
        PROVE  h.slot \in SlotsOf(PartOf(h.id)) /\ h.id \in IdsOf(layer') /\ cache'.id[h.slot] = h.id
    <3>1. CASE h = h0
      BY <1>3, <1>6, <1>8, <1>9, <3>1
    <3>2. CASE h # h0
      <4>1. h \in handles /\ h.slot # s /\ h.slot \in Slots
        BY <1>1, <1>8, <1>9, <3>2, HandleTypes
      <4>. QED  BY <1>1, <1>3, <1>8, <4>1 DEF IInv, HandlesKept, Placed
    <3>. QED  BY <3>1, <3>2
  <2>2. \A h \in Deferred' : cache'.id[h.slot] = h.id /\ cache'.ready[h.slot]
    BY <1>1, <1>7, <1>8 DEF IInv, HandlesKept, Loaded
  <2>. QED  BY <1>3, <1>7, <2>1, <2>2 DEF HandlesKept, Loaded, Placed
<1>15. PinsCounted'
  <2>1. SUFFICES ASSUME NEW t \in Slots
                 PROVE  cache'.pins[t] = On(handles', t) + On(Deferred', t)
                                           + On(Prefetching', t) + leaked'[t]
    BY DEF PinsCounted
  <2>2. On(handles', t) = IF t = s THEN On(handles, t) + 1 ELSE On(handles, t)
    <3>1. CASE t = s
      BY <1>8, <1>9, <3>1 DEF On
    <3>2. CASE t # s
      BY <1>9, <3>2 DEF On
    <3>. QED  BY <3>1, <3>2
  <2>3. /\ On(Deferred', t) = On(Deferred, t) /\ On(Prefetching', t) = On(Prefetching, t)
        /\ leaked'[t] = leaked[t]
    BY <1>3, <1>7, <1>8
  <2>. QED  BY <1>1, <1>8, <2>1, <2>2, <2>3, PinParts
<1>. QED  BY <1>8, <1>11, <1>12, <1>13, <1>14, <1>15 DEF IInv

(* A layer's experts are requested: the next layer's may be warmed.        *)
LEMMA InvRequested == IInv /\ Requested => IInv'
<1>1. SUFFICES ASSUME IInv, Requested
               PROVE  IInv'
  OBVIOUS
<1>2. /\ pc = "acquire"
      /\ UNCHANGED <<kind, cache, jobs, dev, stream, call, layer, union, handles>>
      /\ UNCHANGED <<ring, next_event, leaked, faults>>
      /\ \/ /\ pc' = "prefetch" /\ Defers /\ layer + 1 \in Layers
            /\ todo' \in Orders({h.id + IdsPerPart : h \in handles})
         \/ pc' = "launch" /\ todo' = <<>>
  BY <1>1 DEF Requested, pagerVars, ringVars, errorVars
<1>3. Deferred' = Deferred /\ Reads' = Reads /\ Prefetching' = Prefetching
  BY <1>2, SetsFrame
<1>4. todo' \in Seq(Ids)
  <2>1. CASE todo' = <<>>
    BY <2>1
  <2>2. CASE layer + 1 \in Layers /\ todo' \in Orders({h.id + IdsPerPart : h \in handles})
    <3>1. PICK u : u = {h.id + IdsPerPart : h \in handles}
      OBVIOUS
    <3>2. layer \in Layers /\ IsFiniteSet(handles)
      BY <1>1 DEF IInv, Typed
    <3>3. \A h \in handles : h.id \in IdsOf(layer)
      BY <1>1 DEF IInv, HandlesKept, Placed
    <3>4. \A h \in handles : h.id + IdsPerPart \in IdsOf(layer + 1)
      BY <2>2, <3>2, <3>3, IdsInLayer
    <3>5. \A h \in handles : h.id + IdsPerPart \in Ids
      BY <2>2, <3>4, IdsInLayer
    <3>6. u \subseteq Ids
      BY <3>1, <3>5
    <3>7. IsFiniteSet(u)
      <4>. DEFINE f == [h \in handles |-> h.id + IdsPerPart]
      <4>1. f \in Surjection(handles, u)
        BY <3>1 DEF Surjection
      <4>. QED  BY <3>2, <4>1, FS_Surjection
    <3>8. Cardinality(u) \in Nat
      BY <3>7, FS_CardinalityType
    <3>9. todo' \in [1 .. Cardinality(u) -> Ids]
      BY <2>2, <3>1, <3>6 DEF Orders
    <3>. QED  BY <3>8, <3>9
  <2>. QED  BY <1>2, <2>1, <2>2
<1>5. Typed' /\ MapsPoint(cache)'
  BY <1>1, <1>2, <1>4 DEF IInv, Typed, Calls
<1>6. RingForm' /\ Modes' /\ Requests'
  BY <1>1, <1>2 DEF IInv, RingForm, Modes, Requests, Defers
<1>7. StreamForm' /\ HandlesKept'
  BY <1>1, <1>2, <1>3 DEF IInv, StreamForm, HandlesKept, Loaded, Placed
<1>8. FetchesHeld' /\ PinsCounted'
  BY <1>1, <1>2, <1>3 DEF IInv, FetchesHeld, PinsCounted
<1>. QED  BY <1>5, <1>6, <1>7, <1>8 DEF IInv

(* prefetch of one expert: resident, claimed, or left out.                 *)
LEMMA InvPrefetch == IInv /\ Prefetch => IInv'
<1>1. SUFFICES ASSUME IInv, Prefetch
               PROVE  IInv'
  OBVIOUS
<1>2. PICK id : id = Head(todo)
  OBVIOUS
<1>3. /\ pc = "prefetch" /\ todo # <<>> /\ todo' = Tail(todo)
      /\ UNCHANGED <<kind, stream, pc, call, layer, union, handles, ring, next_event, leaked, faults>>
      /\ \/ /\ Hits(cache, id)
            /\ cache' = Release(Acquire(cache, id), SlotFor(cache, id)) /\ UNCHANGED <<jobs, dev>>
         \/ Claim(id, TRUE)
         \/ UNCHANGED <<cache, jobs, dev>>
  BY <1>1, <1>2 DEF Prefetch, pagerVars, ringVars, errorVars
<1>4. cache \in CacheType /\ MapsPoint(cache) /\ todo \in Seq(Ids)
  BY <1>1 DEF IInv, Typed
<1>5. todo' \in Seq(Ids) /\ id \in Ids
  BY <1>2, <1>3, <1>4, HeadTailProperties
<1>6. Deferred' = Deferred /\ Reads' = {} /\ Reads = {}
  <2>1. stream = <<>>
    BY <1>1, <1>3 DEF IInv, StreamForm
  <2>. QED  BY <1>3, <2>1, SetsFrame, ReadsAre
<1>7. RingForm' /\ StreamForm' /\ Modes' /\ Requests'
  BY <1>1, <1>3 DEF IInv, RingForm, StreamForm, Modes, Requests, Defers
<1>8. CASE UNCHANGED <<jobs, dev>> /\ cache' \in CacheType /\ MapsPoint(cache')
           /\ cache'.id = cache.id /\ cache'.ready = cache.ready
           /\ \A t \in Slots : cache'.pins[t] = cache.pins[t]
  <2>1. Prefetching' = Prefetching
    BY <1>8, SetsFrame
  <2>2. Typed'
    BY <1>1, <1>3, <1>5, <1>8 DEF IInv, Typed
  <2>3. HandlesKept'
    BY <1>1, <1>3, <1>6, <1>8 DEF IInv, HandlesKept, Loaded, Placed
  <2>4. FetchesHeld'
    BY <1>1, <1>3, <1>8 DEF IInv, FetchesHeld
  <2>5. PinsCounted'
    BY <1>1, <1>3, <1>6, <1>8, <2>1 DEF IInv, PinsCounted
  <2>. QED  BY <1>7, <1>8, <2>2, <2>3, <2>4, <2>5 DEF IInv
<1>9. CASE Hits(cache, id) /\ cache' = Release(Acquire(cache, id), SlotFor(cache, id))
           /\ UNCHANGED <<jobs, dev>>
  <2>1. AcquireSlot(cache, id) = SlotFor(cache, id)
    BY <1>9 DEF AcquireSlot, Hits
  <2>2. LET n == Release(Acquire(cache, id), AcquireSlot(cache, id))
        IN  /\ n \in CacheType /\ MapsPoint(n)
            /\ n.id = cache.id /\ n.ready = cache.ready
            /\ \A t \in Slots : n.pins[t] = cache.pins[t]
    BY <1>4, <1>5, <1>9, HitAndBack
  <2>. QED  BY <1>8, <1>9, <2>1, <2>2
<1>10. CASE UNCHANGED <<cache, jobs, dev>>
  BY <1>4, <1>8, <1>10
<1>11. CASE Claim(id, TRUE)
  <2>1. PICK drop \in BOOLEAN : drop /\ Claim(id, drop)
    BY <1>11
  <2>2. PICK s \in Slots, j \in [slot : Slots, id : Ids, drop : BOOLEAN] :
           /\ s = AcquireSlot(cache, id) /\ s \in SlotsOf(PartOf(id)) /\ cache.pins[s] = 0
           /\ cache' \in CacheType /\ MapsPoint(cache')
           /\ \A t \in Slots : /\ cache'.pins[t] = IF t = s THEN cache.pins[t] + 1 ELSE cache.pins[t]
                               /\ cache'.id[t] = IF t = s THEN id ELSE cache.id[t]
           /\ j.slot = s /\ j.id = id /\ j.drop = drop /\ jobs' = jobs \cup {j}
           /\ dev' \in [Slots -> Ids \cup {NoId}]
           /\ jobs' \subseteq [slot : Slots, id : Ids, drop : BOOLEAN]
           /\ \A h \in handles \cup Deferred \cup Reads \cup jobs :
                /\ h.slot # s /\ cache'.id[h.slot] = cache.id[h.slot]
                /\ cache'.ready[h.slot] <=> cache.ready[h.slot]
           /\ \A t \in Slots : cache'.ready[t] => dev'[t] = cache'.id[t]
           /\ \A k, i \in jobs' : k.slot = i.slot => k = i
           /\ \A k \in jobs' : cache'.id[k.slot] = k.id /\ ~cache'.ready[k.slot]
    <3>1. id \in Ids /\ Claim(id, drop)
      BY <1>5, <2>1
    <3>. QED  BY <1>1, <3>1, Claimed
  <2>3. j.drop
    BY <2>1, <2>2
  <2>4. Prefetching' = Prefetching \cup {j}
    BY <2>2, <2>3 DEF Prefetching
  <2>5. Typed'
    BY <1>1, <1>3, <1>5, <2>2 DEF IInv, Typed
  <2>6. HandlesKept'
    BY <1>1, <1>3, <1>6, <2>2 DEF IInv, HandlesKept, Loaded, Placed
  <2>7. FetchesHeld'
    <3>1. \A k \in jobs' : k.drop \/ leaked'[k.slot] > 0 \/ \E h \in handles' : h.slot = k.slot
      BY <1>1, <1>3, <2>2, <2>3 DEF IInv, FetchesHeld
    <3>. QED  BY <2>2, <3>1 DEF FetchesHeld
  <2>8. PinsCounted'
    <3>1. SUFFICES ASSUME NEW t \in Slots
                   PROVE  cache'.pins[t] = On(handles', t) + On(Deferred', t)
                                             + On(Prefetching', t) + leaked'[t]
      BY DEF PinsCounted
    <3>2. \A k \in Prefetching : k.slot # s
      BY <2>2 DEF Prefetching
    <3>3. On(Prefetching', t) = IF t = s THEN On(Prefetching, t) + 1 ELSE On(Prefetching, t)
      <4>1. CASE t = s
        BY <2>2, <2>4, <3>2, <4>1 DEF On
      <4>2. CASE t # s
        BY <2>2, <2>4, <4>2 DEF On
      <4>. QED  BY <4>1, <4>2
    <3>4. /\ On(handles', t) = On(handles, t) /\ On(Deferred', t) = On(Deferred, t)
          /\ leaked'[t] = leaked[t]
      BY <1>3, <1>6
    <3>. QED  BY <1>1, <2>2, <3>1, <3>3, <3>4, PinParts
  <2>. QED  BY <1>7, <2>2, <2>5, <2>6, <2>7, <2>8 DEF IInv
<1>. QED  BY <1>3, <1>9, <1>10, <1>11

(* The expert kernels are queued, once every handle is published.          *)
LEMMA InvLaunches == IInv /\ (Launch \/ LaunchWave) => IInv'
<1>1. SUFFICES ASSUME IInv, Launch \/ LaunchWave
               PROVE  IInv'
  OBVIOUS
<1>2. /\ pc \in {"prefetch", "launch"} /\ \A h \in handles : cache.ready[h.slot]
      /\ stream' = Append(stream, Kernels(handles))
      /\ UNCHANGED <<kind, cache, jobs, dev, call, layer, todo, union, handles>>
      /\ UNCHANGED <<ring, next_event, leaked, faults>>
      /\ \/ pc' = "defer" /\ Defers
         \/ pc' = "sync" /\ ~Defers
  BY <1>1 DEF Launch, LaunchWave, Enqueue, pagerVars, ringVars, errorVars
<1>3. stream' = <<Kernels(handles)>>
  <2>1. stream = <<>>
    BY <1>1, <1>2 DEF IInv, StreamForm
  <2>. QED  BY <1>2, <2>1
<1>4. Deferred' = Deferred /\ Reads' = handles /\ Prefetching' = Prefetching
  BY <1>2, <1>3, SetsFrame, ReadsAre
<1>5. Typed' /\ MapsPoint(cache)'
  BY <1>1, <1>2 DEF IInv, Typed, Calls
<1>6. RingForm' /\ Modes' /\ Requests'
  BY <1>1, <1>2 DEF IInv, RingForm, Modes, Requests, Defers
<1>7. StreamForm'
  BY <1>2, <1>3 DEF StreamForm
<1>8. HandlesKept'
  <2>1. \A h \in handles : h \in Handle /\ Loaded(h)'
    BY <1>1, <1>2, HandleTypes DEF IInv, HandlesKept, Loaded
  <2>. QED  BY <1>1, <1>2, <1>4, <2>1 DEF IInv, HandlesKept, Loaded, Placed
<1>9. FetchesHeld' /\ PinsCounted'
  BY <1>1, <1>2, <1>4 DEF IInv, FetchesHeld, PinsCounted
<1>. QED  BY <1>5, <1>6, <1>7, <1>8, <1>9 DEF IInv

(* Everything deferred before has been passed when a layer defers.         *)
LEMMA AllDone ==
  ASSUME IInv, pc = "defer"
  PROVE  Done = Len(ring) /\ Len(ring) \in {0, 1}
<1>1. \A i \in DOMAIN ring : Passed(ring[i].event)
  <2>1. CASE ring = <<>>
    BY <2>1
  <2>2. CASE ring # <<>>
    <3>1. PICK e : ring = <<e>> /\ e.event \in Nat
      BY <2>2 DEF IInv, RingForm
    <3>2. stream = <<>> \/ stream = <<Kernels(handles)>>
      BY DEF IInv, StreamForm
    <3>3. \A i \in DOMAIN stream : stream[i].event = NoEvent
      BY <3>2 DEF Kernels
    <3>4. NoEvent \notin Nat
      BY DEF NoEvent
    <3>5. Passed(e.event)
      BY <3>1, <3>3, <3>4 DEF Passed
    <3>. QED  BY <3>1, <3>5
  <2>. QED  BY <2>1, <2>2
<1>2. Len(ring) \in {0, 1} /\ DOMAIN ring = 1 .. Len(ring)
  BY DEF IInv, RingForm
<1>. DEFINE N == {n \in 0 .. Len(ring) : \A i \in 1 .. n : Passed(ring[i].event)}
<1>3. Len(ring) \in N /\ \A n \in N : Len(ring) >= n
  <2>1. Len(ring) \in 0 .. Len(ring) /\ \A n \in 0 .. Len(ring) : Len(ring) >= n
    BY <1>2
  <2>. QED  BY <1>1, <1>2, <2>1
<1>4. ASSUME NEW m \in N, \A n \in N : m >= n
      PROVE  m = Len(ring)
  <2>1. m \in Nat /\ m <= Len(ring) /\ Len(ring) \in Nat
    BY <1>2
  <2>2. m >= Len(ring)
    BY <1>3, <1>4
  <2>. QED  BY <2>1, <2>2
<1>5. Max(N) \in N /\ \A n \in N : Max(N) >= n
  <2>. HIDE DEF N
  <2>. QED  BY <1>3, Zenon DEF Max
<1>. QED  BY <1>2, <1>4, <1>5 DEF Done

(* The ring has then this layer's handles and no others.                   *)
LEMMA RingAfter ==
  ASSUME IInv, DeferRelease
  PROVE  /\ ring' = <<[event |-> next_event, handles |-> handles]>>
         /\ Deferred' = handles
<1>. DEFINE e == [event |-> next_event, handles |-> handles]
<1>2. pc = "defer" /\ ring' = Append(SubSeq(ring, Done + 1, Len(ring)), e)
  BY DEF DeferRelease
<1>3. Done = Len(ring) /\ Len(ring) \in {0, 1}
  BY <1>2, AllDone
<1>5. ring' = <<e>>
  <2>1. SubSeq(ring, Done + 1, Len(ring)) = <<>>
    <3>1. PICK m \in Int, n \in Int : m = Done + 1 /\ n = Len(ring) /\ n < m
      <4>1. Done + 1 \in Int /\ Len(ring) \in Int /\ Len(ring) < Done + 1
        BY <1>3
      <4>. QED  BY <4>1
    <3>2. SubSeq(ring, m, n) = <<>>
      BY <3>1, SubSeqEmpty
    <3>. QED  BY <3>1, <3>2
  <2>2. Append(<<>>, e) = <<e>>
    BY ShortAppends
  <2>. QED  BY <1>2, <2>1, <2>2
<1>6. e.handles = handles
  OBVIOUS
<1>. QED  BY <1>5, <1>6, DeferredIs

(* defer_release: the layer before is released, this one takes its place.  *)
LEMMA InvDefer == IInv /\ DeferRelease => IInv'
<1>1. SUFFICES ASSUME IInv, DeferRelease
               PROVE  IInv'
  OBVIOUS
<1>2. /\ pc = "defer" /\ cache' = ReleaseEntries(cache, SubSeq(ring, 1, Done))
      /\ ring' = Append(SubSeq(ring, Done + 1, Len(ring)),
                        [event |-> next_event, handles |-> handles])
      /\ next_event' = (next_event + 1) % RingSize
      /\ stream' = Append(stream, Event(next_event))
      /\ NextLayer
      /\ UNCHANGED <<kind, jobs, dev, todo, union, leaked, faults>>
  BY <1>1 DEF DeferRelease, errorVars
<1>3. Done = Len(ring) /\ Len(ring) \in {0, 1}
  BY <1>1, <1>2, AllDone
<1>4. /\ [event |-> next_event, handles |-> handles].event = next_event
      /\ [event |-> next_event, handles |-> handles].handles = handles
  OBVIOUS
<1>. DEFINE e == [event |-> next_event, handles |-> handles]
<1>5. ring' = <<e>>
  BY <1>1, RingAfter
<1>6. cache' = ReleaseEntries(cache, ring)
  <2>1. SubSeq(ring, 1, Len(ring)) = ring
    <3>1. CASE ring = <<>>
      <4>1. SubSeq(<<>>, 1, 0) = <<>> /\ Len(<<>>) = 0
        BY SubSeqEmpty
      <4>. QED  BY <3>1, <4>1
    <3>2. CASE ring # <<>>
      <4>1. PICK d : ring = <<d>>
        BY <1>1, <3>2 DEF IInv, RingForm
      <4>2. <<d>> \in Seq({d})
        OBVIOUS
      <4>. QED  BY <4>1, <4>2, SubSeqFull
    <3>. QED  BY <3>1, <3>2
  <2>. QED  BY <1>2, <1>3, <2>1
<1>7. Deferred' = handles /\ Prefetching' = Prefetching
  BY <1>1, <1>2, RingAfter, SetsFrame
<1>8. \/ stream' = <<Event(next_event)>> /\ Reads' = {}
      \/ stream' = <<Kernels(handles), Event(next_event)>> /\ Reads' = handles
  <2>1. stream = <<>> \/ stream = <<Kernels(handles)>>
    BY <1>1, <1>2 DEF IInv, StreamForm
  <2>2. /\ Append(<<>>, Event(next_event)) = <<Event(next_event)>>
        /\ Append(<<Kernels(handles)>>, Event(next_event)) = <<Kernels(handles), Event(next_event)>>
    BY ShortAppends
  <2>3. stream' = <<Event(next_event)>> \/ stream' = <<Kernels(handles), Event(next_event)>>
    BY <1>2, <2>1, <2>2
  <2>. QED  BY <2>3, ReadsAre
<1>9. /\ handles' = {} /\ layer' \in Layers
      /\ \/ pc' = "route" /\ UNCHANGED call
         \/ pc' = "idle" /\ call' = "step" /\ layer' = 0
  <2>1. 0 \in Layers
    BY CacheAssumption DEF Layers, PartIds
  <2>. QED  BY <1>2, <2>1 DEF NextLayer
<1>10. /\ cache' \in CacheType /\ MapsPoint(cache')
       /\ cache'.id = cache.id /\ cache'.ready = cache.ready
       /\ \A s \in Slots : cache'.pins[s] = cache.pins[s] - On(Deferred, s)
  <2>1. \A s \in Slots : RingPins(ring, s) = On(Deferred, s)
    BY <1>1, RingPinsOn
  <2>2. \A s \in Slots : RingPins(ring, s) \in Nat /\ RingPins(ring, s) <= cache.pins[s]
    BY <1>1, <2>1, PinParts
  <2>3. cache \in CacheType /\ MapsPoint(cache)
    BY <1>1 DEF IInv, Typed
  <2>. QED  BY <1>6, <2>1, <2>2, <2>3, EntriesReleased
<1>11. Typed'
  <2>1. next_event \in Nat /\ RingSize \in Nat \ {0}
    BY <1>1, DecoderAssumption DEF IInv, Typed
  <2>2. next_event' \in 0 .. RingSize - 1
    BY <1>2, <2>1
  <2>. QED  BY <1>1, <1>2, <1>9, <1>10, <2>2, FS_EmptySet DEF IInv, Typed, Calls
<1>12. handles \subseteq Handle /\ Defers
  BY <1>1, <1>2, HandleTypes DEF IInv, Modes
<1>13. RingForm'
  <2>1. e.event \in 0 .. RingSize - 1
    BY <1>1, <1>4 DEF IInv, Typed
  <2>2. ring'[1] = e
    BY <1>5
  <2>3. kind' # "kimi" /\ call' # "multi"
    BY <1>2, <1>9, <1>12 DEF Defers
  <2>. QED  BY <1>4, <1>5, <1>12, <2>1, <2>2, <2>3 DEF RingForm
<1>14. StreamForm'
  <2>1. ring'[1].event = next_event /\ ring'[1].handles = handles /\ ring' # <<>>
    BY <1>4, <1>5
  <2>. QED  BY <1>8, <1>9, <2>1 DEF StreamForm
<1>15. Modes' /\ Requests'
  BY <1>9 DEF Modes, Requests
<1>16. \A h \in handles : h \in Handle /\ cache.id[h.slot] = h.id /\ cache.ready[h.slot]
  BY <1>1, <1>2, <1>12 DEF IInv, HandlesKept, Loaded
<1>17. HandlesKept'
  BY <1>7, <1>8, <1>9, <1>10, <1>16 DEF HandlesKept, Loaded
<1>18. FetchesHeld'
  BY <1>1, <1>2, <1>10, <1>16 DEF IInv, FetchesHeld
<1>19. PinsCounted'
  <2>1. SUFFICES ASSUME NEW s \in Slots
                 PROVE  cache'.pins[s] = On(handles', s) + On(Deferred', s)
                                           + On(Prefetching', s) + leaked'[s]
    BY DEF PinsCounted
  <2>2. On(handles', s) = 0
    BY <1>9 DEF On
  <2>3. /\ On(Deferred', s) = On(handles, s) /\ On(Prefetching', s) = On(Prefetching, s)
        /\ leaked'[s] = leaked[s]
    BY <1>2, <1>7
  <2>. QED  BY <1>1, <1>10, <2>1, <2>2, <2>3, PinParts
<1>. QED  BY <1>10, <1>11, <1>13, <1>14, <1>15, <1>17, <1>18, <1>19 DEF IInv

-----------------------------------------------------------------------------
(* The invariant and what is deferred without a failure.                    *)

(* Every action keeps the inductive invariant.                             *)
LEMMA InvNext == IInv /\ [Next]_vars => IInv'
<1>1. SUFFICES ASSUME IInv, [Next]_vars
               PROVE  IInv'
  OBVIOUS
<1>2. CASE BeginStep \/ BeginMulti \/ BeginKimiStep \/ BeginKimiMulti \/ Resize
  BY <1>1, <1>2, InvBegins, InvBeginMulti, InvResize
<1>3. CASE Host
  BY <1>1, <1>3, InvRoutes, InvAcquireNext, InvFailures, InvRequested, InvPrefetch,
     InvLaunches, InvDefer, InvEndWave DEF Host
<1>4. CASE Fault
  BY <1>1, <1>4, InvFailures
<1>5. CASE Execute
  BY <1>1, <1>5, InvExecute
<1>6. CASE \E j \in jobs : FillSlot(j)
  BY <1>1, <1>6, InvFill
<1>7. CASE UNCHANGED vars
  BY <1>1, <1>7, InvStutter
<1>. QED  BY <1>1, <1>2, <1>3, <1>4, <1>5, <1>6, <1>7 DEF Next

(* Steps that leave the ring and the layer alone, or empty the ring.       *)
LEMMA UnfailedFrame ==
  ASSUME Unfailed, faults' = faults, \A s \in Slots : leaked[s] = 0 => leaked'[s] = 0,
         \/ ring' = <<>>
         \/ UNCHANGED ring /\ ~Defers'
         \/ UNCHANGED <<kind, call, layer, ring>>
  PROVE  Unfailed'
<1>1. CASE ring' = <<>>
  BY <1>1, DeferredIs DEF Unfailed
<1>2. CASE ~Defers'
  BY <1>2 DEF Unfailed
<1>3. CASE UNCHANGED <<kind, call, layer, ring>>
  <2>1. Deferred' = Deferred /\ (Defers' <=> Defers)
    BY <1>3 DEF Deferred, Defers
  <2>. QED  BY <1>3, <2>1 DEF Unfailed, Before
<1>. QED  BY <1>1, <1>2, <1>3

(* What a layer defers belongs to the one before the next.                 *)
LEMMA UnfailedDefer == IInv /\ Unfailed /\ DeferRelease => Unfailed'
<1>1. SUFFICES ASSUME IInv, Unfailed, DeferRelease
               PROVE  Unfailed'
  OBVIOUS
<1>2. NextLayer /\ UNCHANGED <<leaked, faults>>
  BY <1>1 DEF DeferRelease, errorVars
<1>3. Deferred' = handles
  BY <1>1, RingAfter
<1>4. layer \in 0 .. Parts - 1 /\ Parts \in Nat \ {0}
  BY <1>1, CacheAssumption DEF IInv, Typed, Layers, PartIds
<1>5. Before(layer)' = layer
  <2>1. \/ layer + 1 \in 0 .. Parts - 1 /\ layer' = layer + 1
        \/ layer + 1 \notin 0 .. Parts - 1 /\ layer' = 0
    BY <1>2 DEF NextLayer, Layers, PartIds
  <2>. QED  BY <1>4, <2>1 DEF Before
<1>6. \A h \in Deferred' : h.slot \in SlotsOf(PartOf(h.id)) /\ h.id \in IdsOf(Before(layer)')
  BY <1>1, <1>3, <1>5 DEF IInv, HandlesKept, Placed
<1>. QED  BY <1>1, <1>2, <1>6 DEF Unfailed, Before

(* A layer of step has experts to request, so its router stays in it; the  *)
(* other calls have an empty ring.                                         *)
LEMMA UnfailedRoutes ==
  IInv /\ Unfailed /\ (Route \/ RouteMulti \/ RouteKimi \/ RouteKimiMulti \/ EndWave) => Unfailed'
<1>1. SUFFICES ASSUME IInv, Unfailed,
                      Route \/ RouteMulti \/ RouteKimi \/ RouteKimiMulti \/ EndWave
               PROVE  Unfailed'
  OBVIOUS
<1>2. UNCHANGED <<kind, ring, leaked, faults>>
  BY <1>1 DEF Route, RouteMulti, RouteKimi, RouteKimiMulti, EndWave, Routed, ringVars, errorVars
<1>3. CASE Route
  <2>1. PICK q \in Ranked(layer, TopK) : Waves(q)
    BY <1>3 DEF Route, Routed
  <2>2. q # <<>>
    <3>1. DOMAIN q = 1 .. TopK /\ 1 \in 1 .. TopK
      BY <2>1, DecoderAssumption DEF Ranked
    <3>2. DOMAIN <<>> = {}
      OBVIOUS
    <3>. QED  BY <3>1, <3>2
  <2>3. UNCHANGED <<layer, call>>
    BY <2>1, <2>2 DEF Waves
  <2>. QED  BY <1>1, <1>2, <2>3, UnfailedFrame
<1>4. CASE ~Defers
  <2>1. ring = <<>>
    BY <1>1, <1>4 DEF IInv, Typed, RingForm, Defers
  <2>. QED  BY <1>1, <1>2, <2>1, UnfailedFrame
<1>5. CASE RouteMulti \/ RouteKimi \/ RouteKimiMulti \/ EndWave
  <2>1. ~Defers
    BY <1>1, <1>5 DEF RouteMulti, RouteKimi, RouteKimiMulti, EndWave, Defers, IInv, Modes
  <2>. QED  BY <1>4, <2>1
<1>. QED  BY <1>1, <1>3, <1>5

(* Every action keeps it: a wedge, and so a request given up, takes a      *)
(* failed call.                                                            *)
LEMMA UnfailedNext == Parts > 1 /\ IInv /\ Unfailed /\ [Next]_vars => Unfailed'
<1>1. SUFFICES ASSUME Parts > 1, IInv, Unfailed, [Next]_vars
               PROVE  Unfailed'
  OBVIOUS
<1>2. CASE BeginStep
  <2>1. /\ pc = "idle" /\ kind = "qwen" /\ call' = "step" /\ layer' = 0
        /\ UNCHANGED <<kind, ring, leaked, faults>>
    BY <1>2 DEF BeginStep, Begin, errorVars
  <2>2. layer = 0
    BY <1>1, <2>1 DEF IInv, Modes
  <2>3. CASE call = "multi"
    BY <1>1, <2>1, <2>3, UnfailedFrame DEF IInv, RingForm
  <2>4. CASE call = "step"
    BY <1>1, <2>1, <2>2, <2>4, UnfailedFrame
  <2>. QED  BY <1>1, <2>3, <2>4 DEF IInv, Typed
<1>3. CASE BeginKimiStep \/ BeginKimiMulti
  <2>1. UNCHANGED <<kind, ring, leaked, faults>> /\ kind = "kimi"
    BY <1>3 DEF BeginKimiStep, BeginKimiMulti, Begin, errorVars
  <2>2. ~Defers'
    BY <2>1 DEF Defers
  <2>. QED  BY <1>1, <2>1, <2>2, UnfailedFrame
<1>4. CASE BeginMulti
  BY <1>1, <1>4, UnfailedFrame DEF BeginMulti, Begin, errorVars
<1>5. CASE Resize
  <2>1. ring' = <<>> /\ leaked' = [s \in Slots |-> 0] /\ faults' = faults
    BY <1>5 DEF Resize
  <2>. QED  BY <1>1, <2>1, UnfailedFrame
<1>6. CASE Route \/ RouteMulti \/ RouteKimi \/ RouteKimiMulti \/ EndWave
  BY <1>1, <1>6, UnfailedRoutes
<1>7. CASE StallTimeout
  <2>1. faults > 0 /\ faults' = faults
    BY <1>1, <1>7, WedgeTakesFailure DEF StallTimeout
  <2>. QED  BY <2>1 DEF Unfailed
<1>8. CASE Fault
  <2>1. faults' = faults + 1 /\ faults \in Nat
    BY <1>1, <1>8 DEF Fault, IInv, Typed
  <2>. QED  BY <2>1 DEF Unfailed
<1>9. CASE DeferRelease
  BY <1>1, <1>9, UnfailedDefer
<1>10. CASE \/ AcquireNext \/ Requested \/ Prefetch \/ Launch \/ LaunchWave
            \/ Execute \/ (\E j \in jobs : FillSlot(j)) \/ UNCHANGED vars
  <2>1. UNCHANGED <<kind, call, layer, ring, leaked, faults>>
    BY <1>10 DEF AcquireNext, Requested, Prefetch, Launch, LaunchWave, Enqueue, Execute, FillSlot,
       vars, hostVars, ringVars, errorVars
  <2>. QED  BY <1>1, <2>1, UnfailedFrame
<1>. QED  BY <1>1, <1>2, <1>3, <1>4, <1>5, <1>6, <1>7, <1>8, <1>9, <1>10 DEF Next, Host

-----------------------------------------------------------------------------
(* The theorems.                                                           *)

(* The invariant of every behaviour.                                       *)
LEMMA DecoderInv == Spec => []IInv
<1>1. Init => IInv
  BY InvInit
<1>2. IInv /\ [Next]_vars => IInv'
  BY InvNext
<1>. QED  BY <1>1, <1>2, PTL DEF Spec

(* The decoder's fields have their types, and defer_release never has to   *)
(* wait for room: the ring holds one layer's handles at most, however many *)
(* events it has (decode.rs, pending_release).                             *)
THEOREM DecoderTyped == Spec => []TypeOK
<1>1. IInv => TypeOK
  BY InvTypeOK
<1>. QED  BY <1>1, DecoderInv, PTL

(* Kernels that are queued read the experts they were launched for: no     *)
(* fetch takes a slot before they are done (decode.rs, defer_release).     *)
THEOREM KernelsSafe == Spec => []KernelsReadTheirExperts
<1>1. IInv => KernelsReadTheirExperts
  BY InvKernels
<1>. QED  BY <1>1, DecoderInv, PTL

(* Every pin is a handle's, a deferred handle's, a prefetch's or one that  *)
(* a failed call has lost (decode.rs and kimi.rs, the releases of a call). *)
THEOREM PinsHaveOwners == Spec => []PinsOwned
<1>1. IInv => PinsOwned
  BY InvPins
<1>. QED  BY <1>1, DecoderInv, PTL

(* With more than one layer, a decoder whose calls succeed never waits for *)
(* slots that its own pins keep, and in a wave only lost pins can do it    *)
(* (decode.rs, step and step_multi; kimi.rs).                              *)
THEOREM WedgedByFailureOnly ==
  ASSUME Parts > 1
  PROVE  Spec => []WedgeOnlyAfterFailure
<1>1. Init => IInv /\ Unfailed
  BY InvInit
<1>2. IInv /\ Unfailed /\ [Next]_vars => (IInv /\ Unfailed)'
  BY InvNext, UnfailedNext
<1>3. IInv /\ Unfailed => WedgeOnlyAfterFailure
  BY InvWedge
<1>. QED  BY <1>1, <1>2, <1>3, PTL DEF Spec

=============================================================================
