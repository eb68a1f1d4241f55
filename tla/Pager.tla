-------------------------------- MODULE Pager --------------------------------
(***************************************************************************)
(* llmpager-cuda's Pager: clients ask for experts, misses become jobs on a *)
(* channel, io workers fetch a job's blob (from the host-RAM tier or from  *)
(* the pack) and copy it into the slot's device memory, and one mutex with *)
(* one condition variable ties them together.                              *)
(*                                                                         *)
(* An action is what a thread does between two points where others can     *)
(* run: a critical section, a channel operation, a copy.  Unlocking and    *)
(* notify_all are one step: a sleeper that wakes re-takes the lock anyway. *)
(*                                                                         *)
(* Memory that holds weights (a pinned buffer, a RAM slab, a device slot)  *)
(* is abstracted to the experts its head and its tail belong to: the head  *)
(* is as long as the blob stored in the pack, the tail is the rest of the  *)
(* raw blob, which is empty unless the pack is compressed.                 *)
(***************************************************************************)
EXTENDS ExpertCacheOps, Sequences, FiniteSets, Folds

CONSTANTS
  Clients,     (* threads that call the pager                              *)
  Workers,     (* io threads                                               *)
  RamSlots,    (* slabs of the host-RAM tier                               *)
  HasRam,      (* whether there is such a tier                             *)
  Compressed,  (* whether the pack stores zstd frames                      *)
  GlobalPool,  (* one pool for every layer, aged by tick                   *)
  Routes,      (* expert lists of one layer that the router asks for       *)
  Prefetches,  (* experts that are prefetched                              *)
  Profiles,    (* experts that a profile makes prewarm load                *)
  MaxDeaths    (* bound: io workers that fail                              *)

ASSUME PagerAssumption ==
  /\ IsFiniteSet(Clients) /\ IsFiniteSet(Workers)
  /\ RamSlots \in Nat \ {0}
  /\ HasRam \in BOOLEAN /\ Compressed \in BOOLEAN /\ GlobalPool \in BOOLEAN
  /\ Routes \subseteq Seq(Ids) \ {<<>>}
  /\ \A q \in Routes : \A i, j \in DOMAIN q :
       LayerOf(q[i]) = LayerOf(q[j]) /\ (q[i] = q[j] => i = j)
  /\ Prefetches \subseteq Ids
  /\ Profiles \subseteq SUBSET Ids
  /\ MaxDeaths \in Nat
  /\ GlobalPool => Parts = 1

VARIABLES
  cache,    (* State.cache: device-slot bookkeeping                        *)
  fill,     (* State.fill: what wait() looks at                            *)
  dev,      (* contents of each device slot                                *)
  ram,      (* RamTier.cache: slab bookkeeping, under its own mutex        *)
  slab,     (* contents of each slab                                       *)
  queue,    (* jobs sent and not yet received                              *)
  pc,       (* where each client is                                        *)
  todo,     (* experts its request still has to acquire                    *)
  sending,  (* the job it is about to send                                 *)
  out,      (* handles its request has acquired so far                     *)
  held,     (* handles of returned requests it has not waited for          *)
  target,   (* the handle it is waiting for                                *)
  usable,   (* handles it has waited for and not released                  *)
  leaked,   (* handles dropped, still pinned, when its request failed      *)
  wpc,      (* where each worker is                                        *)
  job,      (* the job it is working on                                    *)
  buf,      (* its pinned buffer                                           *)
  rslot     (* the slab it has pinned                                      *)

lockVars   == <<cache, fill>>
ramVars    == <<ram, slab>>
clientVars == <<pc, todo, sending, out, held, target, usable, leaked>>
workerVars == <<wpc, job, buf, rslot>>
vars == <<lockVars, ramVars, dev, queue, clientVars, workerVars>>

(* The tier is one pool; it decays every 4 * max(64, slots) insertions: the *)
(* floor of 64 is scaled down with the slabs.                              *)
Ram == INSTANCE ExpertCacheOps WITH
  Parts <- 1, SlotsPerPart <- RamSlots, IdsPerPart <- NumIds,
  DecayInterval <- 4 * RamSlots

Contents    == [head : Ids \union {NoId}, tail : Ids \union {NoId}]
Whole(id)   == [head |-> id, tail |-> id]
Handles     == [id : Ids, slot : Slots]
Jobs        == [id : Ids, slot : Slots, prefetch : BOOLEAN]
NoJob       == [id |-> 0, slot |-> 0, prefetch |-> FALSE]
NoHandle    == [id |-> 0, slot |-> 0]
HandleOf(j) == [id |-> j.id, slot |-> j.slot]

Alive(w) == wpc[w] \notin {"dead", "lost"}

Init ==
  /\ cache = EmptyCache
  /\ fill = [s \in Slots |-> "Empty"]
  /\ dev = [s \in Slots |-> Whole(NoId)]
  /\ ram = Ram!EmptyCache
  /\ slab = [s \in Ram!Slots |-> Whole(NoId)]
  /\ queue = <<>>
  /\ pc = [c \in Clients |-> "ready"]
  /\ todo = [c \in Clients |-> <<>>]
  /\ sending = [c \in Clients |-> NoJob]
  /\ out = [c \in Clients |-> {}]
  /\ held = [c \in Clients |-> {}]
  /\ target = [c \in Clients |-> NoHandle]
  /\ leaked = [c \in Clients |-> {}]
  /\ usable = [c \in Clients |-> {}]
  /\ wpc = [w \in Workers |-> "starting"]
  /\ job = [w \in Workers |-> NoJob]
  /\ buf = [w \in Workers |-> Whole(NoId)]
  /\ rslot = [w \in Workers |-> 0]

-----------------------------------------------------------------------------
(* Clients.                                                                *)

(* Mutant: only request's sleepers are notified.                           *)
NotifiedStalled(p) == [c \in Clients |-> IF p[c] = "stalled" THEN "acquire" ELSE p[c]]

(* notify_all: whoever sleeps on the condition variable looks again.       *)
Notified(p) ==
  [c \in Clients |-> CASE p[c] = "stalled" -> "acquire"
                       [] p[c] = "asleep"  -> "waiting"
                       [] OTHER            -> p[c]]

(* Bound: a shared pool never decays on insertion (its interval is         *)
(* u32::MAX), so it is ticked before its small interval is reached.        *)
BeforeTick(n) == GlobalPool => \A p \in PartIds : cache.inserts[p] + n < DecayInterval

(* request: more experts than the pool has slots is an error, without      *)
(* effect.                                                                 *)
(* A client asks for an expert it already holds a handle on no more here;  *)
(* two clients do.                                                         *)
Request(c, q) ==
  /\ pc[c] = "ready" /\ BeforeTick(Len(q))
  /\ Len(q) <= SlotsPerPart
  /\ \A i \in DOMAIN q : \A h \in held[c] \union usable[c] : h.id # q[i]
  /\ pc' = [pc EXCEPT ![c] = "acquire"]
  /\ todo' = [todo EXCEPT ![c] = q]
  /\ UNCHANGED <<lockVars, ramVars, dev, queue, sending, out, held, target, usable, leaked, workerVars>>

(* One expert of the request has its handle; after the last one request    *)
(* returns them all.                                                       *)
Acquired(c, h) ==
  /\ todo' = [todo EXCEPT ![c] = Tail(@)]
  /\ IF Len(todo[c]) = 1
     THEN /\ pc' = [pc EXCEPT ![c] = "ready"]
          /\ held' = [held EXCEPT ![c] = @ \union out[c] \union {h}]
          /\ out' = [out EXCEPT ![c] = {}]
     ELSE /\ pc' = [pc EXCEPT ![c] = "acquire"]
          /\ out' = [out EXCEPT ![c] = @ \union {h}]
          /\ UNCHANGED held

AcquireHit(c) ==
  /\ pc[c] = "acquire"
  /\ LET id == Head(todo[c])
     IN  /\ Hits(cache, id)
         /\ cache' = Acquire(cache, id)
         /\ Acquired(c, [id |-> id, slot |-> AcquireSlot(cache, id)])
  /\ UNCHANGED <<fill, ramVars, dev, queue, sending, target, usable, leaked, workerVars>>

(* Mutant: the slot's fill still says what it said of the evicted expert.  *)
ClaimSlotKeepsFill(c, id, prefetch, next) ==
  LET s == AcquireSlot(cache, id)
  IN  /\ Misses(cache, id)
      /\ cache' = Acquire(cache, id)
      /\ fill' = [fill EXCEPT ![s] = IF @ = "Empty" THEN "InFlight" ELSE @]
      /\ sending' = [sending EXCEPT ![c] = [id |-> id, slot |-> s, prefetch |-> prefetch]]
      /\ pc' = [pc EXCEPT ![c] = next]

(* A miss claims the slot and marks it in flight under the lock; the job   *)
(* is sent after the lock is dropped.                                      *)
ClaimSlot(c, id, prefetch, next) ==
  LET s == AcquireSlot(cache, id)
  IN  /\ Misses(cache, id)
      /\ cache' = Acquire(cache, id)
      /\ fill' = [fill EXCEPT ![s] = "InFlight"]
      /\ sending' = [sending EXCEPT ![c] = [id |-> id, slot |-> s, prefetch |-> prefetch]]
      /\ pc' = [pc EXCEPT ![c] = next]

AcquireMiss(c) ==
  /\ pc[c] = "acquire"
  /\ ClaimSlot(c, Head(todo[c]), FALSE, "send")
  /\ UNCHANGED <<ramVars, dev, queue, todo, out, held, target, usable, leaked, workerVars>>

(* With no worker left the channel is closed and request panics.           *)
SendJob(c) ==
  /\ pc[c] = "send"
  /\ IF \E w \in Workers : Alive(w)
     THEN /\ queue' = Append(queue, sending[c])
          /\ sending' = [sending EXCEPT ![c] = NoJob]
          /\ Acquired(c, HandleOf(sending[c]))
     ELSE /\ pc' = [pc EXCEPT ![c] = "panicked"]
          /\ UNCHANGED <<queue, sending, todo, out, held>>
  /\ UNCHANGED <<lockVars, ramVars, dev, target, usable, leaked, workerVars>>

AcquireStall(c) ==
  /\ pc[c] = "acquire"
  /\ Stalls(cache, Head(todo[c]))
  /\ pc' = [pc EXCEPT ![c] = "stalled"]
  /\ UNCHANGED <<lockVars, ramVars, dev, queue, todo, sending, out, held, target, usable, leaked,
                 workerVars>>

(* Mutant: the wait is retried for ever.                                   *)
StallTimeoutRetries(c) ==
  /\ pc[c] = "stalled"
  /\ pc' = [pc EXCEPT ![c] = "acquire"]
  /\ UNCHANGED <<lockVars, ramVars, dev, queue, todo, sending, out, held, target, usable, leaked,
                 workerVars>>

(* STALL_GRACE has passed.  A wedged pool is an error: request returns it, *)
(* and the handles it had acquired are dropped with their pins.  (Bound: a *)
(* client goes on after one such loss, and stops at the second.)           *)
StallTimeout(c) ==
  /\ pc[c] = "stalled"
  /\ IF ~IsWedged(cache, Head(todo[c]))
     THEN /\ pc' = [pc EXCEPT ![c] = "acquire"]
          /\ UNCHANGED <<todo, out, leaked>>
     ELSE /\ pc' = [pc EXCEPT ![c] = IF leaked[c] = {} THEN "ready" ELSE "failed"]
          /\ todo' = [todo EXCEPT ![c] = <<>>]
          /\ out' = [out EXCEPT ![c] = IF leaked[c] = {} THEN {} ELSE @]
          /\ leaked' = [leaked EXCEPT ![c] = IF @ = {} THEN out[c] ELSE @]
  /\ UNCHANGED <<lockVars, ramVars, dev, queue, sending, held, target, usable, workerVars>>

(* prefetch: a hit is unpinned at once, a stall is skipped.                *)
PrefetchHit(c, id) ==
  /\ pc[c] = "ready"
  /\ Hits(cache, id)
  /\ cache' = Release(Acquire(cache, id), AcquireSlot(cache, id))
  /\ UNCHANGED <<fill, ramVars, dev, queue, clientVars, workerVars>>

PrefetchMiss(c, id) ==
  /\ pc[c] = "ready" /\ BeforeTick(1)
  /\ ClaimSlot(c, id, TRUE, "sendPrefetch")
  /\ UNCHANGED <<ramVars, dev, queue, todo, out, held, target, usable, leaked, workerVars>>

(* Mutant: prefetch drops its pin itself, before the fill.                 *)
SendPrefetchUnpins(c) ==
  /\ pc[c] = "sendPrefetch"
  /\ queue' = Append(queue, [sending[c] EXCEPT !.prefetch = FALSE])
  /\ cache' = Release(cache, sending[c].slot)
  /\ sending' = [sending EXCEPT ![c] = NoJob]
  /\ pc' = [pc EXCEPT ![c] = "ready"]
  /\ UNCHANGED <<fill, ramVars, dev, todo, out, held, target, usable, leaked, workerVars>>

(* The result of send is ignored: with no worker left the job is gone.     *)
SendPrefetch(c) ==
  /\ pc[c] = "sendPrefetch"
  /\ queue' = IF \E w \in Workers : Alive(w) THEN Append(queue, sending[c]) ELSE queue
  /\ sending' = [sending EXCEPT ![c] = NoJob]
  /\ pc' = [pc EXCEPT ![c] = "ready"]
  /\ UNCHANGED <<lockVars, ramVars, dev, todo, out, held, target, usable, leaked, workerVars>>

-----------------------------------------------------------------------------
(* wait: sleep until the slot's fill is Ready.  wait_stream then orders    *)
(* the compute stream after an event that has already completed.           *)
Wait(c, h) ==
  /\ h \in held[c]
  /\ pc[c] = "ready" \/ (pc[c] = "waiting" /\ h = target[c])
  /\ IF fill[h.slot] = "Ready"
     THEN /\ pc' = [pc EXCEPT ![c] = "ready"]
          /\ held' = [held EXCEPT ![c] = @ \ {h}]
          /\ usable' = [usable EXCEPT ![c] = @ \union {h}]
          /\ target' = [target EXCEPT ![c] = NoHandle]
     ELSE /\ pc' = [pc EXCEPT ![c] = "asleep"]
          /\ target' = [target EXCEPT ![c] = h]
          /\ UNCHANGED <<held, usable>>
  /\ UNCHANGED <<lockVars, ramVars, dev, queue, todo, sending, out, leaked, workerVars>>

ReleaseHandle(c, h) ==
  /\ pc[c] = "ready"
  /\ h \in usable[c]
  /\ cache' = Release(cache, h.slot)
  /\ usable' = [usable EXCEPT ![c] = @ \ {h}]
  /\ pc' = Notified(pc)
  /\ UNCHANGED <<fill, ramVars, dev, queue, todo, sending, out, held, target, leaked, workerVars>>

Tick(c) ==
  /\ pc[c] = "ready" /\ GlobalPool
  /\ cache' = DecayAll(cache)
  /\ UNCHANGED <<fill, ramVars, dev, queue, clientVars, workerVars>>

-----------------------------------------------------------------------------
(* Workers.                                                                *)

(* bind_thread, open_reader, alloc_pinned, stream.                         *)
Start(w) ==
  /\ wpc[w] = "starting"
  /\ wpc' = [wpc EXCEPT ![w] = "idle"]
  /\ UNCHANGED <<lockVars, ramVars, dev, queue, clientVars, job, buf, rslot>>

Recv(w) ==
  /\ wpc[w] = "idle" /\ queue # <<>>
  /\ job' = [job EXCEPT ![w] = Head(queue)]
  /\ queue' = Tail(queue)
  /\ wpc' = [wpc EXCEPT ![w] = IF HasRam THEN "ramGet" ELSE "read"]
  /\ UNCHANGED <<lockVars, ramVars, dev, clientVars, buf, rslot>>

(* Mutant: get copies a slab it has not pinned.                            *)
RamGetUnpinned(w) ==
  /\ wpc[w] = "ramGet"
  /\ IF Ram!ReadyHit(ram, job[w].id)
     THEN /\ ram' = Ram!Release(Ram!Pin(ram, Ram!SlotFor(ram, job[w].id)),
                               Ram!SlotFor(ram, job[w].id))
          /\ rslot' = [rslot EXCEPT ![w] = Ram!SlotFor(ram, job[w].id)]
          /\ wpc' = [wpc EXCEPT ![w] = "ramCopy"]
     ELSE /\ wpc' = [wpc EXCEPT ![w] = "read"]
          /\ UNCHANGED <<ram, rslot>>
  /\ UNCHANGED <<lockVars, slab, dev, queue, clientVars, job, buf>>

(* RamTier.get: pin a published slab, copy it without the lock, unpin it.  *)
RamGet(w) ==
  /\ wpc[w] = "ramGet"
  /\ IF Ram!ReadyHit(ram, job[w].id)
     THEN /\ ram' = Ram!Pin(ram, Ram!SlotFor(ram, job[w].id))
          /\ rslot' = [rslot EXCEPT ![w] = Ram!SlotFor(ram, job[w].id)]
          /\ wpc' = [wpc EXCEPT ![w] = "ramCopy"]
     ELSE /\ wpc' = [wpc EXCEPT ![w] = "read"]
          /\ UNCHANGED <<ram, rslot>>
  /\ UNCHANGED <<lockVars, slab, dev, queue, clientVars, job, buf>>

RamCopy(w) ==
  /\ wpc[w] = "ramCopy"
  /\ buf' = [buf EXCEPT ![w] = slab[rslot[w]]]
  /\ wpc' = [wpc EXCEPT ![w] = "ramRelease"]
  /\ UNCHANGED <<lockVars, ramVars, dev, queue, clientVars, job, rslot>>

RamRelease(w) ==
  /\ wpc[w] = "ramRelease"
  /\ ram' = Ram!Release(ram, rslot[w])
  /\ rslot' = [rslot EXCEPT ![w] = 0]
  /\ wpc' = [wpc EXCEPT ![w] = "copyStored"]
  /\ UNCHANGED <<lockVars, slab, dev, queue, clientVars, job, buf>>

(* read_blob_into: the raw blob, decompressed if need be.                  *)
ReadBlob(w) ==
  /\ wpc[w] = "read"
  /\ buf' = [buf EXCEPT ![w] = Whole(job[w].id)]
  /\ wpc' = [wpc EXCEPT ![w] = IF HasRam THEN "ramPut" ELSE "copyRaw"]
  /\ UNCHANGED <<lockVars, ramVars, dev, queue, clientVars, job, rslot>>

(* RamTier.put: best effort; another worker may have put or be putting the *)
(* expert, or every slab may be pinned.                                    *)
RamPut(w) ==
  LET id == job[w].id
      s  == Ram!AcquireSlot(ram, id)
  IN  /\ wpc[w] = "ramPut"
      /\ \/ /\ Ram!Misses(ram, id)
            /\ ram' = Ram!Acquire(ram, id)
            /\ rslot' = [rslot EXCEPT ![w] = s]
            /\ wpc' = [wpc EXCEPT ![w] = "ramWrite"]
         \/ /\ Ram!Hits(ram, id)
            /\ ram' = Ram!Release(Ram!Acquire(ram, id), s)
            /\ wpc' = [wpc EXCEPT ![w] = "copyRaw"]
            /\ UNCHANGED rslot
         \/ /\ Ram!Stalls(ram, id)
            /\ wpc' = [wpc EXCEPT ![w] = "copyRaw"]
            /\ UNCHANGED <<ram, rslot>>
      /\ UNCHANGED <<lockVars, slab, dev, queue, clientVars, job, buf>>

RamWrite(w) ==
  /\ wpc[w] = "ramWrite"
  /\ slab' = [slab EXCEPT ![rslot[w]] = buf[w]]
  /\ wpc' = [wpc EXCEPT ![w] = "ramPublish"]
  /\ UNCHANGED <<lockVars, ram, dev, queue, clientVars, job, buf, rslot>>

RamPublish(w) ==
  /\ wpc[w] = "ramPublish"
  /\ ram' = Ram!Release(Ram!Publish(ram, rslot[w]), rslot[w])
  /\ rslot' = [rslot EXCEPT ![w] = 0]
  /\ wpc' = [wpc EXCEPT ![w] = "copyRaw"]
  /\ UNCHANGED <<lockVars, slab, dev, queue, clientVars, job, buf>>

(* htod_async, record_event, sync_stream.  After a read the length is that *)
(* of the raw blob; after a RAM hit it is the stored length of the index.  *)
CopyToDevice(w) ==
  /\ wpc[w] \in {"copyRaw", "copyStored"}
  /\ dev' = [dev EXCEPT ![job[w].slot] =
               IF wpc[w] = "copyStored" /\ Compressed
               THEN [@ EXCEPT !.head = buf[w].head]
               ELSE buf[w]]
  /\ wpc' = [wpc EXCEPT ![w] = "publish"]
  /\ UNCHANGED <<lockVars, ramVars, queue, clientVars, job, buf, rslot>>

(* Mutants: the cache is not told of the fill; a prefetch's pin stays.     *)
PublishFillOnly(w) ==
  /\ wpc[w] = "publish"
  /\ LET s         == job[w].slot
         published == cache
     IN  /\ fill' = [fill EXCEPT ![s] = "Ready"]
         /\ cache' = IF job[w].prefetch THEN Release(published, s) ELSE published
  /\ pc' = Notified(pc)
  /\ wpc' = [wpc EXCEPT ![w] = "idle"]
  /\ job' = [job EXCEPT ![w] = NoJob]
  /\ buf' = [buf EXCEPT ![w] = Whole(NoId)]      \* dead: a fetch overwrites all it copies
  /\ UNCHANGED <<ramVars, dev, queue, todo, sending, out, held, target, usable, leaked, rslot>>

PublishKeepsPin(w) ==
  /\ wpc[w] = "publish"
  /\ LET s         == job[w].slot
         published == Publish(cache, s)
     IN  /\ fill' = [fill EXCEPT ![s] = "Ready"]
         /\ cache' = published
  /\ pc' = Notified(pc)
  /\ wpc' = [wpc EXCEPT ![w] = "idle"]
  /\ job' = [job EXCEPT ![w] = NoJob]
  /\ buf' = [buf EXCEPT ![w] = Whole(NoId)]      \* dead: a fetch overwrites all it copies
  /\ UNCHANGED <<ramVars, dev, queue, todo, sending, out, held, target, usable, leaked, rslot>>

(* The fill is over: wait()'s record and the cache's, under one lock.      *)
PublishFill(w) ==
  /\ wpc[w] = "publish"
  /\ LET s         == job[w].slot
         published == Publish(cache, s)
     IN  /\ fill' = [fill EXCEPT ![s] = "Ready"]
         /\ cache' = IF job[w].prefetch THEN Release(published, s) ELSE published
  /\ pc' = Notified(pc)
  /\ wpc' = [wpc EXCEPT ![w] = "idle"]
  /\ job' = [job EXCEPT ![w] = NoJob]
  /\ buf' = [buf EXCEPT ![w] = Whole(NoId)]      \* dead: a fetch overwrites all it copies
  /\ UNCHANGED <<ramVars, dev, queue, todo, sending, out, held, target, usable, leaked, rslot>>

(* A read, a copy or the worker's own start-up fails: `?` ends the thread, *)
(* whose last words go to stderr.  A job it held is lost: its slot stays   *)
(* in flight.                                                              *)
Die(w) ==
  /\ Cardinality({v \in Workers : ~Alive(v)}) < MaxDeaths
  /\ wpc[w] \in {"starting", "read", "copyRaw", "copyStored"}
  /\ wpc' = [wpc EXCEPT ![w] = IF @ = "starting" THEN "dead" ELSE "lost"]
  /\ queue' = IF \E v \in Workers \ {w} : Alive(v) THEN queue ELSE <<>>
  /\ UNCHANGED <<lockVars, ramVars, dev, clientVars, job, buf, rslot>>

(* RamTier.put by the only thread there is.                                *)
PutAlone(tier, id) ==
  LET s == Ram!AcquireSlot(tier.ram, id)
  IN  [ram  |-> Ram!Release(Ram!Publish(Ram!Acquire(tier.ram, id), s), s),
       slab |-> [tier.slab EXCEPT ![s] = Whole(id)]]

(* Several experts are put, one after the other in the order of the pack.  *)
PutAll(tier, ids) ==
  MapThenFoldSet(LAMBDA id, t : PutAlone(t, id), tier, LAMBDA id : id,
                 LAMBDA S : CHOOSE i \in S : \A j \in S : j <= i, ids)

(* prewarm: the experts that a profile counts most, at most one per slab,  *)
(* are read and put.  It runs once, after the pager is made and before a   *)
(* request; a read that fails ends it early.                               *)
Prewarm(top) ==
  /\ HasRam /\ Cardinality(top) <= RamSlots
  /\ cache = EmptyCache /\ ram = Ram!EmptyCache
  /\ \A c \in Clients : pc[c] = "ready"
  /\ \E n \in 1 .. Cardinality(top) :
       LET loaded == {i \in top : Cardinality({j \in top : j <= i}) <= n}
           tier   == PutAll([ram |-> ram, slab |-> slab], loaded)
       IN  ram' = tier.ram /\ slab' = tier.slab
  /\ UNCHANGED <<lockVars, dev, queue, clientVars, workerVars>>

-----------------------------------------------------------------------------
ClientStep(c) ==
  \/ AcquireHit(c) \/ AcquireMiss(c) \/ AcquireStall(c) \/ StallTimeout(c)
  \/ SendJob(c) \/ SendPrefetch(c) \/ Tick(c)
  \/ \E q \in Routes : Request(c, q)
  \/ \E id \in Prefetches : PrefetchHit(c, id) \/ PrefetchMiss(c, id)
  \/ \E h \in held[c] : Wait(c, h)
  \/ \E h \in usable[c] : ReleaseHandle(c, h)

Fetch(w) ==
  \/ Start(w) \/ Recv(w) \/ RamGet(w) \/ RamCopy(w) \/ RamRelease(w) \/ ReadBlob(w)
  \/ RamPut(w) \/ RamWrite(w) \/ RamPublish(w) \/ CopyToDevice(w) \/ PublishFill(w)

Next ==
  \/ \E c \in Clients : ClientStep(c)
  \/ \E w \in Workers : Fetch(w) \/ Die(w)
  \/ \E top \in Profiles : Prewarm(top)

Spec == Init /\ [][Next]_vars

(* The scheduler runs every thread that can run, the stall timer fires,    *)
(* and a decoder waits for and releases what it requested.  Nothing makes  *)
(* a client ask, or a worker fail.                                         *)
Fairness ==
  /\ \A w \in Workers : WF_vars(Fetch(w))
  /\ \A c \in Clients :
       /\ WF_vars(AcquireHit(c) \/ AcquireMiss(c) \/ AcquireStall(c) \/ StallTimeout(c))
       /\ WF_vars(SendJob(c) \/ SendPrefetch(c))
       /\ \A id \in Ids, s \in Slots :
            LET h == [id |-> id, slot |-> s]
            IN  WF_vars(Wait(c, h)) /\ WF_vars(ReleaseHandle(c, h))

FairSpec == Spec /\ Fairness

-----------------------------------------------------------------------------
(* Who carries a job, and who pins a slot.                                 *)

Sending(c) == pc[c] \in {"send", "sendPrefetch", "panicked"}
Working(w) == wpc[w] \notin {"starting", "idle", "dead"}

Carriers ==
  {<<"client", c, sending[c]>> : c \in {d \in Clients : Sending(d)}}
    \union {<<"channel", k, queue[k]>> : k \in DOMAIN queue}
    \union {<<"worker", w, job[w]>> : w \in {v \in Workers : Working(v)}}

CarriersOf(s) == {k \in Carriers : k[3].slot = s}

Pinners(s) ==
  {u \in Clients \X Handles :
     u[2] \in out[u[1]] \union held[u[1]] \union usable[u[1]] /\ u[2].slot = s}

Leaks(s)       == {u \in Clients \X Handles : u[2] \in leaked[u[1]] /\ u[2].slot = s}
UnsentPins(s)  == {k \in CarriersOf(s) : k[3].prefetch \/ k[1] = "client"}

Locals ==
  /\ pc \in [Clients -> {"ready", "acquire", "send", "stalled", "sendPrefetch", "waiting",
                          "asleep", "failed", "panicked"}]
  /\ todo \in [Clients -> Seq(Ids)]
  /\ sending \in [Clients -> Jobs]
  /\ out \in [Clients -> SUBSET Handles]
  /\ held \in [Clients -> SUBSET Handles]
  /\ usable \in [Clients -> SUBSET Handles]
  /\ leaked \in [Clients -> SUBSET Handles]
  /\ target \in [Clients -> Handles]
  /\ wpc \in [Workers -> {"starting", "idle", "ramGet", "ramCopy", "ramRelease", "read", "ramPut",
                          "ramWrite", "ramPublish", "copyRaw", "copyStored", "publish", "dead",
                          "lost"}]
  /\ job \in [Workers -> Jobs]
  /\ buf \in [Workers -> Contents]
  /\ rslot \in [Workers -> Ram!Slots]

(* Type correctness of the pager's state and of its threads' locals.       *)
TypeOK ==
  /\ cache \in CacheType
  /\ fill \in [Slots -> {"Empty", "InFlight", "Ready"}]
  /\ dev \in [Slots -> Contents]
  /\ ram \in Ram!CacheType
  /\ slab \in [Ram!Slots -> Contents]
  /\ queue \in Seq(Jobs)
  /\ Locals

(* A handle that has been waited for points at all of its expert's weights *)
(* until it is released, whatever other clients, prefetches, evictions and *)
(* dying workers do meanwhile: what a kernel multiplies with is right.     *)
UsableHandlesHoldWeights ==
  \A c \in Clients : \A h \in usable[c] : dev[h.slot] = Whole(h.id)

(* The two records of a slot's progress agree: what wait() sleeps on, what *)
(* acquire hands out and what is_wedged counts as able to finish.          *)
FillMatchesCache ==
  \A s \in Slots :
    /\ fill[s] = "Ready" <=> cache.ready[s]
    /\ fill[s] = "Empty" <=> cache.id[s] = NoId

NoneAlive == \A w \in Workers : ~Alive(w)

(* A slot in flight has exactly one job, for the expert the slot is        *)
(* claimed for, and no other slot has any: no expert is fetched twice at a *)
(* time, and no late copy lands in a slot that was handed on.  Only when   *)
(* no worker is left does a slot in flight lose its job, a prefetch that   *)
(* could not be sent included.                                             *)
OneJobPerFill ==
  \A s \in Slots :
    /\ fill[s] = "InFlight" =>
         \/ \E k \in CarriersOf(s) : CarriersOf(s) = {k} /\ k[3].id = cache.id[s]
         \/ CarriersOf(s) = {} /\ NoneAlive
    /\ fill[s] # "InFlight" => CarriersOf(s) = {}

(* Every pin has an owner that will give it back, or a failed request that *)
(* dropped it: handles, requests and prefetches on their way, and leaks;   *)
(* and with no worker left at most the prefetch that could not be sent.    *)
PinsAccounted ==
  \A s \in Slots :
    LET owned == Cardinality(Pinners(s)) + Cardinality(Leaks(s)) + Cardinality(UnsentPins(s))
    IN  cache.pins[s] \in {owned}
          \union IF NoneAlive /\ CarriersOf(s) = {} /\ fill[s] = "InFlight" THEN {owned + 1} ELSE {}

(* A published slab holds its expert, and no worker copies from or into a  *)
(* slab while another one writes it: slab copies run without the lock.     *)
SlabsCoherent ==
  /\ \A s \in Ram!Slots : ram.ready[s] => slab[s] = Whole(ram.id[s])
  /\ \A v, w \in Workers :
       v # w /\ wpc[v] = "ramWrite" /\ wpc[w] \in {"ramCopy", "ramWrite"} => rslot[v] # rslot[w]

(* A job has gone down with its worker and its slot stays in flight, or no *)
(* worker is left to take one.                                             *)
JobLost == NoneAlive \/ \E w \in Workers : wpc[w] = "lost"

(* A request returns, with its handles or with the error that says the     *)
(* pool is wedged: "silently hanging the server is the worst failure mode  *)
(* available".  It may hang when a worker has died over a job or none is   *)
(* left, never because one of them could not start.                        *)
RequestReturns ==
  \A c \in Clients :
    pc[c] \in {"acquire", "send", "stalled"} ~> pc[c] \in {"ready", "failed"} \/ JobLost

(* wait returns: no notification is missed and no fill lost, but by a      *)
(* worker that has died over it.                                           *)
WaitReturns ==
  \A c \in Clients : pc[c] \in {"waiting", "asleep"} ~> pc[c] = "ready" \/ JobLost
=============================================================================
