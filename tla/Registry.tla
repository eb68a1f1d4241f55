------------------------------ MODULE Registry ------------------------------
(* Which models are warm and how the card's memory is shared among them:    *)
(* Registry and the admin endpoint (crates/llmpager-serve/src/main.rs),     *)
(* resize_cache and the life of a decoder (llmpager-run), Pager::new        *)
(* (llmpager-cuda).                                                         *)
(*                                                                          *)
(* A request holds the registry's lock while it walks through its steps.    *)
(* The lock holds nobody off but this process: others take and give memory  *)
(* of the card at any step. The unit of memory is a slot of one layer. An   *)
(* allocation that does not fit fails, and so may, where Faulty, anything   *)
(* else that a resize or a load needs: a file, an event, a sync.            *)
EXTENDS Integers, Sequences, SequencesExt

CONSTANTS
  Models,     \* the configured models
  Default,    \* the first of them
  MaxWarm,    \* max_warm
  Prewarm,    \* the models with a prewarm file
  Total,      \* memory of the card
  Shares,     \* what other processes may hold of it
  Faulty,     \* whether more than an allocation may fail
  Layers,     \* of each model: arenas of its pager,
  Core,       \*   its resident weights,
  Kv,         \*   its KV cache and buffers,
  SlotsShared, \*  spec.slots,
  SlotsSolo,  \*   spec.slots_solo,
  SpecReserve, \*  spec.reserve_mb
  Targets,    \* slot counts and reserves that an admin asks for
  Reserves

ASSUME RegistryAssumption ==
  /\ Default \in Models /\ Prewarm \subseteq Models
  /\ MaxWarm \in Nat /\ Total \in Nat
  /\ Shares \subseteq Nat /\ Faulty \in BOOLEAN
  /\ \A f \in {Layers, SlotsShared, SlotsSolo} : f \in [Models -> Nat \ {0}]
  /\ \A f \in {Core, Kv, SpecReserve} : f \in [Models -> Nat]
  /\ Targets \subseteq Nat /\ Reserves \subseteq Nat

VARIABLES
  warm,   \* the engines, most recently used first
  free,   \* device memory that is free,
  taken,  \*   in other processes,
  lost,   \*   and allocated with its owner gone
  pc,     \* where the request is that holds the registry's lock
  at,     \* the engine its loop has reached
  req,    \* what it asks for
  last,   \* between requests: the last one, and whether it succeeded
  down,   \* the start has failed, or a request has panicked under the lock
  step,   \* where resize_cache or Decoder::new is, for one engine:
  slots,  \*   the slots of the pager that is being built,
  arenas, \*   the arenas it has so far,
  previous, \* the slots of the pager that was dropped for it
  before, \* what others held or was lost when that pager was dropped
  seen    \* what others held when the last admin's resize read mem_info

memory == <<free, taken, lost>>
control == <<pc, at, req, last, down>>
pager == <<slots, arenas, previous, before>>
vars == <<warm, memory, control, step, pager, seen>>

NoPager == 0
Nothing == -1
Quiet == [op |-> "none", model |-> Default, target |-> Nothing, reserve |-> Nothing]
NoResult == [req |-> Quiet, ok |-> TRUE]

-----------------------------------------------------------------------------
(* Memory.                                                                  *)

Least(x, y) == IF x < y THEN x ELSE y
Arenas(e) == Layers[e.name] * e.pager
Held(e) == Core[e.name] + Kv[e.name] + Arenas(e)
HeldBy(engines) == SumFunction([i \in DOMAIN engines |-> Held(engines[i])])

Resizing == pc \in {"shrink", "grow", "admin"}
Loading == pc \in {"load", "retry"}

\* What a decoder or a pager that is not finished holds.
Unfinished ==
  (IF Loading /\ step # "begin" THEN Core[req.model] ELSE 0) + arenas * slots

-----------------------------------------------------------------------------
(* Requests.                                                                *)

\* The request is over and its lock free; dies when it takes the server along.
Finish(ok, dies) ==
  /\ pc' = "idle" /\ at' = 0 /\ req' = Quiet
  /\ last' = [req |-> req, ok |-> ok]
  /\ down' = dies

\* An error is answered, but the first warm_up's ends main.
Return(ok) == Finish(ok, req.op = "start" /\ ~ok)

Goto(label) == pc' = label /\ at' = 1 /\ UNCHANGED <<req, last, down>>

\* The next engine of the request's loop, or its end at the first failure.
Continue(ok) ==
  IF ok THEN at' = at + 1 /\ UNCHANGED <<pc, req, last, down>> ELSE Return(FALSE)

\* No pager is being built.
Rest == step' = "begin" /\ slots' = 0 /\ arenas' = 0 /\ previous' = NoPager /\ before' = 0

WarmNames == {warm[i].name : i \in DOMAIN warm}

\* warm_up of a model that is warm: it moves to the front.
Touch(m) ==
  /\ pc = "idle" /\ ~down
  /\ \E i \in DOMAIN warm :
       /\ warm[i].name = m
       /\ warm' = <<warm[i]>> \o RemoveAt(warm, i)
  /\ pc' = "generate" /\ at' = 0
  /\ req' = [Quiet EXCEPT !.op = "touch", !.model = m]
  /\ last' = NoResult /\ seen' = 0
  /\ UNCHANGED <<memory, down, step, pager>>

\* warm_up of another one.
WarmUp(m) ==
  /\ pc = "idle" /\ ~down
  /\ m \notin WarmNames
  /\ pc' = "evict" /\ at' = 0
  /\ req' = [Quiet EXCEPT !.op = "load", !.model = m]
  /\ last' = NoResult /\ seen' = 0
  /\ UNCHANGED <<warm, memory, down, step, pager>>

\* The last engine leaves and returns what it holds. Its statistics, which are
\* written for a model with a prewarm file, unwrap its pager.
DropLast(returned) ==
  /\ warm' = Front(warm)
  /\ free' = free + returned
  /\ IF Last(warm).pager = NoPager /\ Last(warm).name \in Prewarm
     THEN Finish(FALSE, TRUE)
     ELSE UNCHANGED control

\* Mutants: one engine too many stays; an evicted engine keeps its arenas.
EvictOneMore ==
  /\ pc = "evict"
  /\ IF Len(warm) > MaxWarm /\ warm # <<>>
     THEN DropLast(Held(Last(warm)))
     ELSE Goto("shrink") /\ UNCHANGED <<warm, free>>
  /\ UNCHANGED <<taken, lost, step, pager, seen>>

EvictCoreOnly ==
  /\ pc = "evict"
  /\ IF Len(warm) >= MaxWarm /\ warm # <<>>
     THEN DropLast(Held(Last(warm)) - Arenas(Last(warm)))
     ELSE Goto("shrink") /\ UNCHANGED <<warm, free>>
  /\ UNCHANGED <<taken, lost, step, pager, seen>>

\* Evict from the end until there is room for another engine.
Evict ==
  /\ pc = "evict"
  /\ IF Len(warm) >= MaxWarm /\ warm # <<>>
     THEN DropLast(Held(Last(warm)))
     ELSE Goto("shrink") /\ UNCHANGED <<warm, free>>
  /\ UNCHANGED <<taken, lost, step, pager, seen>>

\* POST /v1/admin/slots: every warm model, up to the first that fails.
AdminSlots(target, reserve) ==
  /\ pc = "idle" /\ ~down
  /\ target # Nothing \/ reserve # Nothing
  /\ pc' = "admin" /\ at' = 1
  /\ req' = [Quiet EXCEPT !.op = "admin", !.target = target, !.reserve = reserve]
  /\ last' = NoResult /\ seen' = 0
  /\ UNCHANGED <<warm, memory, down, step, pager>>

-----------------------------------------------------------------------------
(* The size a pager gets.                                                   *)

\* Models that rebalance sizes for: before the load the new one counts.
Count == IF pc = "grow" THEN Len(warm) ELSE Len(warm) + 1

Want(m, count) == IF count <= 1 THEN SlotsSolo[m] ELSE SlotsShared[m]

\* The model whose pager is built.
Subject == IF Loading THEN req.model ELSE warm[at].name

\* Mutant: everybody gets the solo size.
WantedSolo ==
  IF pc = "admin" /\ req.target # Nothing THEN req.target ELSE SlotsSolo[Subject]

Wanted ==
  CASE pc # "admin" -> Want(Subject, Count)
    [] pc = "admin" /\ req.target # Nothing -> req.target
    [] pc = "admin" /\ req.target = Nothing -> SlotsSolo[Subject]

\* The reserve in force; an admin's is armed before the resize, and the old one
\* put back should that fail.
Reserve ==
  CASE Loading -> SpecReserve[req.model]
    [] ~Loading /\ pc = "admin" /\ req.reserve # Nothing -> req.reserve
    [] OTHER -> warm[at].reserve

\* Mutant: the reserve is ignored.
ClampedUnreserved(n) == n

\* Pager::new clamps n slots to what mem_info leaves beyond a reserve.
Clamped(n) ==
  LET fits == IF free > Reserve THEN (free - Reserve) \div Layers[Subject] ELSE 0
  IN  IF Reserve > 0 THEN Least(n, fits) ELSE n

-----------------------------------------------------------------------------
(* A resize ends, or a load fails.                                          *)

\* Mutant: the wanted size is recorded, not the clamped one.
EndResizeAssumes(n, ok) ==
  /\ LET e == warm[at]
     IN  warm' = [warm EXCEPT ![at] =
           [e EXCEPT !.pager = n,
                     !.cur_slots = IF ok THEN Wanted ELSE IF pc = "admin" THEN n ELSE e.cur_slots,
                     !.reserve = IF ok THEN Reserve ELSE e.reserve]]
  /\ Continue(ok)
  /\ Rest

\* resize_cache returns with n slots. rebalance notes the new size of a resize
\* that succeeds, an admin's request that of any.
EndResize(n, ok) ==
  /\ LET e == warm[at]
     IN  warm' = [warm EXCEPT ![at] =
           [e EXCEPT !.pager = n,
                     !.cur_slots = IF ok \/ pc = "admin" THEN n ELSE e.cur_slots,
                     !.reserve = IF ok THEN Reserve ELSE e.reserve]]
  /\ Continue(ok)
  /\ Rest

\* A load fails and loses some of the memory it got; with every other engine
\* gone it is tried again.
LoadFails(gone) ==
  /\ lost' = lost + gone
  /\ free' = free + Unfinished + HeldBy(warm) - gone
  /\ warm' = <<>>
  /\ IF warm = <<>> THEN Return(FALSE) ELSE Goto("retry")
  /\ Rest

\* Mutant: the previous size is restored under the reserve that was refused.
RestoredReserved == Clamped(previous)

\* The size that resize_cache falls back to, without a reserve.
Restored == previous

\* Pager::new fails and loses the arenas it has. resize_cache then rebuilds the
\* previous pager, and gives up when that fails too.
PagerFails ==
  \/ /\ Loading
     /\ LoadFails(Unfinished)
  \/ /\ Resizing
     /\ lost' = lost + Unfinished
     /\ IF step = "restore"
        THEN EndResize(NoPager, FALSE)
        ELSE /\ step' = "restore" /\ slots' = Restored /\ arenas' = 0
             /\ UNCHANGED <<warm, control, previous, before>>
     /\ UNCHANGED free

-----------------------------------------------------------------------------
(* The steps of a resize and of a load.                                     *)

\* rebalance leaves alone whoever is at its size for the number of models.
SizeFits ==
  /\ pc \in {"shrink", "grow"} /\ step = "begin" /\ at \in DOMAIN warm
  /\ warm[at].cur_slots = Wanted
  /\ Continue(TRUE)
  /\ UNCHANGED <<warm, memory, step, pager, seen>>

\* resize_cache frees the old arenas before it allocates the new ones.
DropPager ==
  /\ Resizing /\ step = "begin" /\ at \in DOMAIN warm
  /\ pc = "admin" \/ warm[at].cur_slots # Wanted
  /\ warm' = [warm EXCEPT ![at].pager = NoPager]
  /\ free' = free + Arenas(warm[at])
  /\ step' = "open" /\ slots' = Wanted
  /\ previous' = warm[at].pager
  /\ before' = taken + lost
  /\ UNCHANGED <<taken, lost, control, arenas, seen>>

\* Decoder::new loads the core.
LoadCore ==
  /\ Loading /\ step = "begin"
  /\ Core[req.model] <= free
  /\ free' = free - Core[req.model]
  /\ step' = "open" /\ slots' = Wanted
  /\ UNCHANGED <<warm, taken, lost, control, arenas, previous, before, seen>>

\* Pager::new reads mem_info for a reserve, and refuses when not a slot fits.
OpenPager ==
  /\ step = "open"
  /\ seen' = IF pc = "admin" THEN taken ELSE seen
  /\ IF Clamped(slots) = 0
     THEN PagerFails
     ELSE /\ step' = "arenas" /\ slots' = Clamped(slots)
          /\ UNCHANGED <<warm, free, lost, control, arenas, previous, before>>
  /\ UNCHANGED taken

\* One arena per layer, of slots each; the first that does not fit is an error.
AllocArena ==
  /\ step \in {"arenas", "restore"} /\ arenas < Layers[Subject]
  /\ IF slots \in 1 .. free
     THEN /\ arenas' = arenas + 1 /\ free' = free - slots
          /\ UNCHANGED <<warm, lost, control, step, slots, previous, before>>
     ELSE PagerFails
  /\ UNCHANGED <<taken, seen>>

\* The pager is there. Decoder::new goes on, resize_cache returns: an error
\* when it is the previous one again.
PagerBuilt ==
  /\ step \in {"arenas", "restore"} /\ arenas = Layers[Subject]
  /\ \/ /\ Loading
        /\ step' = "kv"
        /\ UNCHANGED <<warm, control, pager>>
     \/ /\ Resizing
        /\ EndResize(slots, step = "arenas")
  /\ UNCHANGED <<memory, seen>>

\* The KV cache and the buffers finish the load.
LoadKv ==
  /\ step = "kv"
  /\ Kv[req.model] <= free
  /\ free' = free - Kv[req.model]
  /\ warm' = <<[name |-> req.model, pager |-> slots, cur_slots |-> slots,
                reserve |-> SpecReserve[req.model]]>> \o warm
  /\ Goto("grow") /\ Rest
  /\ UNCHANGED <<taken, lost, seen>>

\* A load that finds no memory, or no file, loses what it got of the core and,
\* when it has come so far, of the KV cache; a finished pager is freed.
LoadStops ==
  /\ \/ /\ Loading /\ step = "begin"
        /\ Faulty \/ Core[req.model] > free
        /\ \E n \in 0 .. Least(free, Core[req.model]) : LoadFails(n)
     \/ /\ step = "kv"
        /\ Faulty \/ Kv[req.model] > free
        /\ \E n \in 0 .. Least(free, Kv[req.model]) : LoadFails(Core[req.model] + n)
  /\ UNCHANGED <<taken, seen>>

\* Something other than an allocation fails in Pager::new: the pack does not
\* open, mem_info or an event cannot be had.
PagerFault ==
  /\ Faulty /\ step \in {"open", "arenas", "restore"}
  /\ PagerFails
  /\ UNCHANGED <<taken, seen>>

\* The sync before a resize fails.
SyncFault ==
  /\ Faulty /\ Resizing /\ step = "begin" /\ at \in DOMAIN warm
  /\ pc = "admin" \/ warm[at].cur_slots # Wanted
  /\ EndResize(warm[at].pager, FALSE)
  /\ UNCHANGED <<memory, seen>>

Rebalanced ==
  /\ pc \in {"shrink", "grow"} /\ at = Len(warm) + 1
  /\ Goto(IF pc = "shrink" THEN "load" ELSE "generate")
  /\ UNCHANGED <<warm, memory, step, pager, seen>>

AdminDone ==
  /\ pc = "admin" /\ at = Len(warm) + 1
  /\ Return(TRUE)
  /\ UNCHANGED <<warm, memory, step, pager, seen>>

\* The generation, which unwraps the pager; the start has none.
Generate ==
  /\ pc = "generate"
  /\ Finish(TRUE, req.op # "start" /\ warm[1].pager = NoPager)
  /\ UNCHANGED <<warm, memory, step, pager, seen>>

\* Other processes take or give memory, whatever this one is doing.
Neighbour ==
  /\ taken' \in Shares /\ taken' <= taken + free
  /\ free' = free + taken - taken'
  /\ UNCHANGED <<warm, lost, control, step, pager, seen>>

-----------------------------------------------------------------------------

\* The server starts by warming the default model.
Init ==
  /\ warm = <<>> /\ lost = 0
  /\ taken \in Shares /\ taken <= Total /\ free = Total - taken
  /\ pc = "evict" /\ at = 0
  /\ req = [Quiet EXCEPT !.op = "start"]
  /\ last = NoResult /\ down = FALSE
  /\ step = "begin" /\ slots = 0 /\ arenas = 0 /\ previous = NoPager /\ before = 0
  /\ seen = 0

Next ==
  \/ \E m \in Models : Touch(m) \/ WarmUp(m)
  \/ \E t \in Targets \cup {Nothing}, r \in Reserves \cup {Nothing} : AdminSlots(t, r)
  \/ Evict \/ Rebalanced \/ AdminDone \/ Generate
  \/ SizeFits \/ DropPager \/ SyncFault
  \/ OpenPager \/ AllocArena \/ PagerBuilt \/ PagerFault
  \/ LoadCore \/ LoadKv \/ LoadStops
  \/ Neighbour

Spec == Init /\ [][Next]_vars

-----------------------------------------------------------------------------
(* Properties.                                                              *)

\* The card's memory is free, taken, held by a warm engine or by one that is
\* being built, or lost: evictions, resizes and drops free what they should, and
\* once, and no allocation takes more than is free.
MemoryAccounted ==
  /\ {free, taken, lost} \subseteq 0 .. Total
  /\ free + taken + lost + HeldBy(warm) + Unfinished = Total

\* At most max_warm engines are warm, each model once, whichever of eviction,
\* resizing and loading has failed half-way in warm_up.
WarmBounded ==
  /\ Len(warm) <= MaxWarm \/ Len(warm) <= 1
  /\ \A i, j \in DOMAIN warm : warm[i].name = warm[j].name => i = j

\* The size an engine reports, and rebalance compares, is the size its cache has
\* (main.rs: "A VRAM reserve may have clamped it below `want`").
SizeReported ==
  \A i \in DOMAIN warm : warm[i].pager # NoPager => warm[i].cur_slots = warm[i].pager

\* While resize_cache rebuilds the previous pager, whatever reserve was refused,
\* each of its arenas fits, unless memory went elsewhere since the old arenas
\* were freed: lost with the failed build, or taken by another process
\* (decode.rs: "Put the previous size back before reporting the failure").
PreviousFits ==
  step = "restore" /\ previous # NoPager /\ arenas < Layers[Subject] =>
    slots \in 1 .. free \/ taken + lost > before

\* After an admin's resize with a reserve succeeds, this process leaves the
\* others what they held when the last resize looked, and the reserve on top,
\* however many models were resized one after the other; what they took since
\* comes out of it (DESIGN.md: "clamps slots_per_layer to whatever still leaves
\* that much free").
ReserveHonoured ==
  last.req.op = "admin" /\ last.req.reserve > 0 /\ last.ok /\ warm # <<>> /\ pc = "idle" =>
    free + taken >= seen + last.req.reserve

\* After a model was loaded every warm model has the size for their number (main.rs:
\* "solo models get the big cache, sharers the small one"), unless it has a
\* reserve: that keeps its cache smaller, or has once, so that a cache that was
\* lost since is taken for one of the right size.
SizedForCount ==
  last.req.op \in {"start", "load"} /\ last.ok /\ pc = "idle" =>
    \A i \in DOMAIN warm :
      LET e == warm[i]
          want == Want(e.name, Len(warm))
      IN  e.pager = want \/ (e.pager < want /\ e.reserve > 0)

\* What the code says of resize_cache: "never leave the decoder without a pager"
\* (kimi.rs).
PagerKept == step = "begin" => \A i \in DOMAIN warm : warm[i].pager # NoPager
=============================================================================
