------------------------------- MODULE Decoder -------------------------------
(* How the decoders drive the pager and the GPU                             *)
(* (crates/llmpager-run/src/decode.rs, kimi.rs): one host thread, the       *)
(* compute stream it feeds, and the io workers that fill cache slots.       *)
(*                                                                          *)
(* The pager is reduced to its promise (module Pager): a claimed slot has   *)
(* one fetch in flight, which some time writes the slot, publishes it and,  *)
(* for a prefetch, drops its pin; published is the same as Fill::Ready. Its *)
(* cache is per layer, the default, where tick does nothing.                *)
(*                                                                          *)
(* What the layers compute is left out; what remains of a layer is the      *)
(* router's choice, which is arbitrary, and the slots its kernels read.     *)
EXTENDS ExpertCacheOps, Sequences, SequencesExt, FiniteSets, FiniteSetsExt

CONSTANTS
  TopK,       \* experts a token is routed to; request refuses more than a layer's slots
  RingSize,   \* release_events.len()
  MaxFaults,  \* bound: calls that fail in the driver
  MaxLost     \* bound: no call starts once failed calls have lost this many pins

ASSUME DecoderAssumption ==
  /\ NumIds = Parts * IdsPerPart
  /\ TopK \in Nat \ {0} /\ TopK <= IdsPerPart /\ TopK <= SlotsPerPart
  /\ RingSize \in Nat \ {0}
  /\ MaxFaults \in Nat
  /\ MaxLost \in Nat \ {0}

VARIABLES
  kind,     \* "qwen" (decode.rs) or "kimi" (kimi.rs)
  cache,    \* the pager's cache
  jobs,     \* fetches in flight: slot, id, and whether the fill drops its pin
  dev,      \* the expert whose weights a device slot has, NoId while it is written
  stream,   \* work enqueued on the compute stream and not executed yet
  pc,       \* where the host thread is
  call,     \* the call it is in: "step" or "multi" (step_multi); "step" between calls
  layer,
  todo,     \* experts the request, or the prefetch, has still to acquire
  union,    \* experts of this layer left for later waves
  handles,  \* handles acquired for this layer or wave
  ring,     \* pending_release
  next_event,
  leaked,   \* pins of handles that a failed call has dropped, by slot
  faults

pagerVars == <<cache, jobs, dev>>
hostVars == <<pc, call, layer, todo, union, handles>>
ringVars == <<ring, next_event>>
errorVars == <<leaked, faults>>
vars == <<kind, pagerVars, stream, hostVars, ringVars, errorVars>>

NoEvent == -1
Layers == PartIds
IdsOf(l) == {Fold(l, e) : e \in 0 .. IdsPerPart - 1}
Handle == [slot : Slots, id : Ids]
Kernels(hs) == [reads |-> hs, event |-> NoEvent]
Event(ev) == [reads |-> {}, event |-> ev]

\* An event is done once the stream has passed it.
Passed(ev) == \A i \in DOMAIN stream : stream[i].event # ev

\* The pins that the entries of a ring hold on a slot: an entry's handles are of
\* distinct experts, so of distinct slots.
RingPins(entries, s) ==
  Cardinality({i \in DOMAIN entries : \E h \in entries[i].handles : h.slot = s})

\* Release every handle of the entries.
ReleaseEntries(c, entries) ==
  [c EXCEPT !.pins = [s \in Slots |-> c.pins[s] - RingPins(entries, s)]]

ReleaseHandles(c, hs) == ReleaseEntries(c, <<[event |-> NoEvent, handles |-> hs]>>)

Init ==
  /\ kind \in {"qwen", "kimi"}
  /\ cache = EmptyCache /\ jobs = {} /\ dev = [s \in Slots |-> NoId]
  /\ stream = <<>>
  /\ pc = "idle" /\ call = "step" /\ layer = 0
  /\ todo = <<>> /\ union = <<>> /\ handles = {}
  /\ ring = <<>> /\ next_event = 0
  /\ leaked = [s \in Slots |-> 0] /\ faults = 0

-----------------------------------------------------------------------------
(* The other actors.                                                        *)

\* An io worker ends a fetch: copy, publish, drop a prefetch's pin, notify.
FillSlot(j) ==
  LET ready == Publish(cache, j.slot)
  IN  /\ j \in jobs
      /\ jobs' = jobs \ {j}
      /\ dev' = [dev EXCEPT ![j.slot] = j.id]
      /\ cache' = IF j.drop THEN Release(ready, j.slot) ELSE ready
      /\ UNCHANGED <<kind, stream, hostVars, ringVars, errorVars>>

\* The GPU executes the stream in order.
Execute ==
  /\ stream # <<>>
  /\ stream' = Tail(stream)
  /\ UNCHANGED <<kind, pagerVars, hostVars, ringVars, errorVars>>

-----------------------------------------------------------------------------
(* Calls.                                                                   *)

Begin(c) ==
  /\ pc = "idle"
  /\ SumFunctionOnSet(leaked, Slots) < MaxLost
  /\ pc' = "route" /\ call' = c /\ layer' = 0
  /\ UNCHANGED <<kind, stream, jobs, dev, todo, union, handles, next_event, errorVars>>

\* step.
BeginStep ==
  /\ kind = "qwen"
  /\ Begin("step")
  /\ UNCHANGED <<cache, ring>>

\* Mutants: step_multi starts on the pins the ring still holds; it empties the
\* ring and forgets the handles.
BeginMultiUnflushed ==
  /\ kind = "qwen"
  /\ Begin("multi")
  /\ UNCHANGED <<cache, ring>>

BeginMultiForgets ==
  /\ kind = "qwen"
  /\ Begin("multi")
  /\ ring' = <<>>
  /\ UNCHANGED cache

\* step_multi: flush_pending_release waits for every event of the ring.
BeginMulti ==
  /\ kind = "qwen"
  /\ \A i \in DOMAIN ring : Passed(ring[i].event)
  /\ Begin("multi")
  /\ cache' = ReleaseEntries(cache, ring)
  /\ ring' = <<>>

\* Kimi's calls never defer and have nothing to flush.
BeginKimiStep ==
  /\ kind = "kimi"
  /\ Begin("step")
  /\ UNCHANGED <<cache, ring>>

BeginKimiMulti ==
  /\ kind = "kimi"
  /\ Begin("multi")
  /\ UNCHANGED <<cache, ring>>

\* resize_cache, to the same size: the stream is drained, the pager is dropped,
\* whose workers finish what is queued, and the new one starts cold.
Resize ==
  /\ pc = "idle"
  /\ stream = <<>>
  /\ ring' = <<>>
  /\ cache' = EmptyCache /\ jobs' = {} /\ dev' = [s \in Slots |-> NoId]
  /\ leaked' = [s \in Slots |-> 0]
  /\ UNCHANGED <<kind, stream, hostVars, next_event, faults>>

-----------------------------------------------------------------------------
(* A layer.                                                                 *)

\* The elements of u in any order, and the one sequence of them that ascends.
Orders(u) == {q \in [1 .. Cardinality(u) -> u] : IsInjective(q)}
InOrder(u) == {q \in Orders(u) : \A i, j \in DOMAIN q : i < j => q[i] < q[j]}

\* What a router may choose: at least n experts, or n of them by rank. Of several
\* tokens the host takes the union, sorted.
Ranked(l, n) == {q \in [1 .. n -> IdsOf(l)] : IsInjective(q)}
Sorted(l, n) == UNION {InOrder(u) : u \in {v \in SUBSET IdsOf(l) : Cardinality(v) >= n}}

\* A wave may use every slot of the layer.
Wave(q) == SubSeq(q, 1, Min({SlotsPerPart, Len(q)}))
AfterWave(q) == SubSeq(q, SlotsPerPart + 1, Len(q))

\* The next layer, or the end of the call.
NextLayer ==
  /\ handles' = {}
  /\ IF layer + 1 \in Layers
     THEN pc' = "route" /\ layer' = layer + 1 /\ UNCHANGED call
     ELSE pc' = "idle" /\ layer' = 0 /\ call' = "step"

\* Request the first wave of q; a layer without experts is done.
Waves(q) ==
  /\ todo' = Wave(q) /\ union' = AfterWave(q)
  /\ IF q = <<>> THEN NextLayer
                 ELSE pc' = "acquire" /\ handles' = {} /\ UNCHANGED <<layer, call>>

\* Mutant: the router's output is read without waiting for the stream.
RoutedUnsynced(choices) ==
  /\ pc = "route"
  /\ \E q \in choices : Waves(q)
  /\ UNCHANGED <<kind, pagerVars, stream, ringVars, errorVars>>

\* The host reads the router's output behind a sync_stream and requests what it
\* chose.
Routed(choices) ==
  /\ pc = "route"
  /\ stream = <<>>
  /\ \E q \in choices : Waves(q)
  /\ UNCHANGED <<kind, pagerVars, stream, ringVars, errorVars>>

\* A layer up to its first request: attention and router kernels, which read no
\* expert, then the choice. Kimi's router drops the experts below a weight,
\* perhaps all of them.
Route ==
  /\ kind = "qwen" /\ call = "step"
  /\ Routed(Ranked(layer, TopK))

RouteMulti ==
  /\ kind = "qwen" /\ call = "multi"
  /\ Routed(Sorted(layer, TopK))

RouteKimi ==
  /\ kind = "kimi" /\ call = "step"
  /\ Routed(UNION {Ranked(layer, n) : n \in 0 .. TopK})

RouteKimiMulti ==
  /\ kind = "kimi" /\ call = "multi"
  /\ Routed(Sorted(layer, 0))

\* Claiming a slot starts its fetch: from here on its contents are in flux.
Claim(id, drop) ==
  LET s == AcquireSlot(cache, id)
  IN  /\ Misses(cache, id)
      /\ cache' = Acquire(cache, id)
      /\ jobs' = jobs \cup {[slot |-> s, id |-> id, drop |-> drop]}
      /\ dev' = [dev EXCEPT ![s] = NoId]

\* request, one expert at a time; a stalled one waits for a release.
AcquireNext ==
  LET id == Head(todo)
  IN  /\ pc = "acquire" /\ todo # <<>>
      /\ \/ Hits(cache, id) /\ cache' = Acquire(cache, id) /\ UNCHANGED <<jobs, dev>>
         \/ Claim(id, FALSE)
      /\ handles' = handles \cup {[slot |-> AcquireSlot(cache, id), id |-> id]}
      /\ todo' = Tail(todo)
      /\ UNCHANGED <<kind, stream, pc, call, layer, union, ringVars, errorVars>>

\* A call fails: the handles it holds are dropped without a release.
Abandon ==
  /\ pc' = "idle" /\ layer' = 0 /\ call' = "step"
  /\ handles' = {} /\ todo' = <<>> /\ union' = <<>>
  /\ leaked' = [s \in Slots |->
                  leaked[s] + Cardinality({h \in handles : h.slot = s})]
  /\ UNCHANGED <<kind, pagerVars, stream, ringVars>>

\* Mutant: a stalled request goes on waiting.
StallForever ==
  /\ pc = "acquire" /\ todo # <<>>
  /\ Stalls(cache, Head(todo))
  /\ UNCHANGED vars

\* request gives up after the grace period when no fetch can free a slot.
StallTimeout ==
  /\ pc = "acquire" /\ todo # <<>>
  /\ Stalls(cache, Head(todo))
  /\ IsWedged(cache, Head(todo))
  /\ Abandon
  /\ UNCHANGED faults

\* A driver call fails: before the router's output is there, while the kernels
\* are launched (some may be enqueued), at the wave's sync or in defer_release.
Fault ==
  /\ pc \notin {"idle", "acquire"} /\ todo = <<>>
  /\ faults < MaxFaults
  /\ faults' = faults + 1
  /\ Abandon

\* The request is complete: decode.rs's step also warms the next layer with the
\* same experts, as far as slots are free, in an order that handles do not keep.
Defers == kind = "qwen" /\ call = "step"

Requested ==
  /\ pc = "acquire" /\ todo = <<>>
  /\ IF Defers /\ layer + 1 \in Layers
     THEN pc' = "prefetch" /\ todo' \in Orders({h.id + IdsPerPart : h \in handles})
     ELSE pc' = "launch" /\ todo' = <<>>
  /\ UNCHANGED <<kind, pagerVars, stream, call, layer, union, handles, ringVars, errorVars>>

Prefetch ==
  LET id == Head(todo)
  IN  /\ pc = "prefetch" /\ todo # <<>>
      /\ \/ /\ Hits(cache, id)
            /\ cache' = Release(Acquire(cache, id), SlotFor(cache, id))
            /\ UNCHANGED <<jobs, dev>>
         \/ Claim(id, TRUE)
         \/ Stalls(cache, id) /\ UNCHANGED pagerVars
      /\ todo' = Tail(todo)
      /\ UNCHANGED <<kind, stream, pc, call, layer, union, handles, ringVars, errorVars>>

\* wait_stream for every handle, then the expert kernels.
Enqueue ==
  /\ pc \in {"prefetch", "launch"} /\ todo = <<>>
  /\ \A h \in handles : cache.ready[h.slot]
  /\ stream' = Append(stream, Kernels(handles))
  /\ UNCHANGED <<kind, pagerVars, call, layer, todo, union, handles, ringVars, errorVars>>

Launch     == Defers /\ Enqueue /\ pc' = "defer"
LaunchWave == ~Defers /\ Enqueue /\ pc' = "sync"

\* The number of entries at the front of the ring whose events have passed.
Done == Max({n \in 0 .. Len(ring) : \A i \in 1 .. n : Passed(ring[i].event)})

\* defer_release: entries whose events have passed are released from the front,
\* a full ring is waited out, and the layer's handles are kept behind the next
\* event, recorded after its kernels.
DeferRelease ==
  /\ pc = "defer"
  /\ Len(ring) - Done < RingSize
  /\ cache' = ReleaseEntries(cache, SubSeq(ring, 1, Done))
  /\ ring' = Append(SubSeq(ring, Done + 1, Len(ring)),
                    [event |-> next_event, handles |-> handles])
  /\ next_event' = (next_event + 1) % RingSize
  /\ stream' = Append(stream, Event(next_event))
  /\ NextLayer
  /\ UNCHANGED <<kind, jobs, dev, todo, union, errorVars>>

\* Mutant: a wave's handles are released while its kernels are queued.
EndWaveUnsynced ==
  /\ pc = "sync"
  /\ cache' = ReleaseHandles(cache, handles)
  /\ Waves(union)
  /\ UNCHANGED <<kind, jobs, dev, stream, ringVars, errorVars>>

\* The end of a wave: sync_stream, release, and on to the next one.
EndWave ==
  /\ pc = "sync"
  /\ stream = <<>>
  /\ cache' = ReleaseHandles(cache, handles)
  /\ Waves(union)
  /\ UNCHANGED <<kind, jobs, dev, stream, ringVars, errorVars>>

-----------------------------------------------------------------------------

Host ==
  \/ Route \/ RouteMulti \/ RouteKimi \/ RouteKimiMulti
  \/ AcquireNext \/ StallTimeout \/ Requested \/ Prefetch
  \/ Launch \/ LaunchWave \/ DeferRelease \/ EndWave

Next ==
  \/ BeginStep \/ BeginMulti \/ BeginKimiStep \/ BeginKimiMulti \/ Resize
  \/ Host
  \/ Fault
  \/ Execute
  \/ \E j \in jobs : FillSlot(j)

\* The host thread runs, the GPU executes what it is given, and every fetch is
\* served: nothing obliges a caller to call or the driver to fail.
Fairness ==
  /\ WF_vars(Host)
  /\ WF_vars(Execute)
  /\ WF_vars(\E j \in jobs : FillSlot(j))

Spec == Init /\ [][Next]_vars /\ Fairness

-----------------------------------------------------------------------------
(* Properties.                                                              *)

Calls == {"idle", "route", "acquire", "prefetch", "launch", "defer", "sync"}

\* Types of the decoder's fields. The router's sync leaves at most the handles of
\* one layer deferred, so the ring of events never fills, and an event is never
\* recorded again while an entry waits on it (decode.rs: "typically never hit").
TypeOK ==
  /\ kind \in {"qwen", "kimi"} /\ pc \in Calls /\ call \in {"step", "multi"}
  /\ cache \in CacheType /\ dev \in [Slots -> Ids \cup {NoId}]
  /\ jobs \subseteq [slot : Slots, id : Ids, drop : BOOLEAN]
  /\ layer \in Layers /\ handles \subseteq Handle
  /\ next_event \in 0 .. RingSize - 1
  /\ Len(ring) <= 1
  /\ \A i \in DOMAIN ring : ring[i].event \in 0 .. RingSize - 1 /\ ring[i].handles \subseteq Handle

\* Every kernel that is enqueued and not executed finds in its slots the experts
\* it was launched for: no fetch reuses a slot before its readers are done
\* (decode.rs: "a release must not let a new fetch overwrite a slot the enqueued
\* GEMVs haven't read yet").
KernelsReadTheirExperts ==
  \A i \in DOMAIN stream : \A h \in stream[i].reads : dev[h.slot] = h.id

\* A slot's pins are the handles of the current request, the deferred ones, the
\* prefetches in flight and what failed calls have lost: nothing else is pinned
\* and nothing is released twice.
PinsOwned ==
  \A s \in Slots :
    cache.pins[s] = Cardinality({h \in handles : h.slot = s})
                      + RingPins(ring, s)
                      + Cardinality({j \in jobs : j.slot = s /\ j.drop})
                      + leaked[s]

\* A request that can never be served takes an earlier failed call, and in a
\* wave the pins that call has lost: a decoder whose calls succeed is never
\* wedged by its own deferred handles and prefetches (decode.rs: "this path can
\* only make progress from a clean pin state").
WedgeOnlyAfterFailure ==
  pc = "acquire" /\ todo # <<>> /\ Stalls(cache, Head(todo)) /\ IsWedged(cache, Head(todo))
    => /\ faults > 0
       /\ ~Defers => \E s \in SlotsOf(PartOf(Head(todo))) : leaked[s] > 0

\* Every call returns, also one that meets a layer whose slots have leaked.
CallReturns == pc # "idle" ~> pc = "idle"

==============================================================================
