------------------------------ MODULE Sessions ------------------------------
(* Named contexts of one warm model (crates/llmpager-serve/src/main.rs):    *)
(* SessionStore, the generation that runs inside a session, and the         *)
(* sessionless traffic that shares the decoder's sequence slots with it.    *)
(*                                                                          *)
(* A request holds the registry lock from acquire to commit, so requests    *)
(* never interleave; what can go wrong lies in the sequence of requests, in *)
(* the ones that fail half-way, and in KV that outlives its owner.          *)
(*                                                                          *)
(* A KV entry is abstracted to the context it was computed from: the entry  *)
(* at position i is the sequence of i + 1 tokens whose state it is, and     *)
(* <<>> when it is the state of no context (never written, or computed      *)
(* over entries that do not belong together).                               *)
EXTENDS Naturals, Sequences, SequencesExt, FiniteSets, FiniteSetsExt, Functions

CONSTANTS
  Ids,                  \* session names
  NoId,                 \* no session: a free slot, the anonymous lane
  Tokens,
  BatchCap,             \* sequence slots of the decoder, batch_cap
  MaxSeq,               \* positions of a slot, max_seq
  ChunkCap,             \* entries of one step_multi, chunk_cap
  RamBudget,            \* budget of parked KV, in positions
  Prompts,              \* workload: the prompts of requests
  AnonymousPrompts,     \* workload: the prompts of requests without a session
  Samples,              \* workload: the tokens that are sampled and fed back
  BatchContexts,        \* workload: what a stream of a batch leaves in its slot
  BatchesAvoidSessions  \* workload: no batch while a session owns its slots

ASSUME SessionsAssumption ==
  /\ IsFiniteSet(Ids) /\ NoId \notin Ids
  /\ BatchCap \in Nat \ {0}
  /\ MaxSeq \in Nat \ {0}
  /\ ChunkCap \in Nat \ {0}
  /\ RamBudget \in Nat
  /\ Prompts \subseteq Seq(Tokens) \ {<<>>}
  /\ AnonymousPrompts \subseteq Seq(Tokens) \ {<<>>}
  /\ Samples \subseteq Tokens
  /\ BatchContexts \subseteq UNION {[1 .. m -> Tokens] : m \in 0 .. MaxSeq}
  /\ BatchesAvoidSessions \in BOOLEAN

VARIABLES
  store,  \* the SessionStore: map, owner, the names in the map and the order
          \* of their last_used
  kv,     \* kv[slot][position]
  turn    \* the generation in progress: its slot, its context, what has run

vars == <<store, kv, turn>>

Slots == 0 .. BatchCap - 1
SessionSlots == Slots \ {0}
Positions == 0 .. MaxSeq - 1
SeqsUpTo(n) == UNION {[1 .. m -> Tokens] : m \in 0 .. n}
Contexts == SeqsUpTo(MaxSeq)

\* Session. slot 0 is None: sessions never use the anonymous lane. parked is
\* the blob, one entry per position; <<>> is None (park makes no empty blob).
NoSession == [tokens |-> <<>>, slot |-> 0, parked |-> <<>>]
NoTurn == [id |-> NoId, slot |-> 0, ctx |-> <<>>, pos |-> 0]
Idle == turn = NoTurn

-----------------------------------------------------------------------------
(* The decoder's KV, as step_multi, kv_export and kv_import use it.         *)

\* The row holds the state of context c.
Holds(row, c) == \A i \in 1 .. Len(c) : row[i - 1] = SubSeq(c, 1, i)

\* step_multi over the tokens of one chunk from position pos on: each entry is
\* computed over all the entries before it.
Run(row, pos, chunk) ==
  LET before == IF pos = 0 THEN <<>> ELSE row[pos - 1]
      sound == Len(before) = pos /\ Holds(row, before)
  IN  [i \in Positions |->
         IF i \in pos .. pos + Len(chunk) - 1
         THEN IF sound THEN before \o SubSeq(chunk, 1, i - pos + 1) ELSE <<>>
         ELSE row[i]]

\* A step that fails between two layers leaves entries that are no context's.
Torn(row, pos, n) ==
  [i \in Positions |-> IF i \in pos .. pos + n - 1 THEN <<>> ELSE row[i]]

Export(row, n) == [i \in 1 .. n |-> row[i - 1]]

Import(row, blob) ==
  [i \in Positions |-> IF i < Len(blob) THEN blob[i + 1] ELSE row[i]]

-----------------------------------------------------------------------------
(* SessionStore.                                                            *)

Before(st, id, other) == <<id, other>> \in st.before

Unordered(st, id) == {p \in st.before : p[1] # id /\ p[2] # id}

\* last_used = tick(), inserting the session when it is new.
Touch(st, id) ==
  [st EXCEPT !.live = @ \cup {id},
             !.before = Unordered(st, id) \cup {<<other, id>> : other \in st.live \ {id}}]

\* Always leave one token to run.
Reuse(st, id, prompt) ==
  Min({Len(LongestCommonPrefix({st.map[id].tokens, prompt})), Len(prompt) - 1})

ParkedBytes(st) == SumFunction([id \in Ids |-> Len(st.map[id].parked)])

\* Mutant: the most recently used.
MostRecent(st, names) ==
  {id \in names : \A other \in names \ {id} : Before(st, other, id)}

\* min_by_key(last_used); a name that has left the map counts as 0.
LeastRecent(st, names) ==
  {id \in names : id \in st.live => \A other \in names \ {id} : Before(st, id, other)}

Parked(st) == {id \in Ids : st.map[id].parked # <<>>}

\* The n least recently used of them.
Oldest(st, n) ==
  {id \in Parked(st) : Cardinality({other \in Parked(st) : Before(st, other, id)}) < n}

\* n rounds of enforce_budget's loop: a dropped context loses its KV, and its
\* token list with it.
Drop(st, n) ==
  [st EXCEPT !.map = [id \in Ids |->
     IF id \in Oldest(st, n) THEN [st.map[id] EXCEPT !.parked = <<>>, !.tokens = <<>>]
     ELSE st.map[id]]]

\* Rounds go on until the budget is met, or nothing is parked.
Rounds(st) == 0 .. Cardinality(Parked(st))

\* Mutants: one round only; a budget that must not be reached.
EnforceBudgetOnce(st) == IF ParkedBytes(st) <= RamBudget THEN st ELSE Drop(st, 1)
EnforceBudgetStrict(st) ==
  Drop(st, Min({n \in Rounds(st) :
                  ParkedBytes(Drop(st, n)) < RamBudget \/ n = Cardinality(Parked(st))}))

EnforceBudget(st) ==
  Drop(st, Min({n \in Rounds(st) : ParkedBytes(Drop(st, n)) <= RamBudget}))

\* Mutant: the parked session still thinks it has its slot.
ParkKeepsSlot(st, id) ==
  LET s == st.map[id]
  IN  EnforceBudget([st EXCEPT
        !.map[id].parked = Export(kv[s.slot], Len(s.tokens)),
        !.owner[s.slot] = NoId])

Park(st, id) ==
  LET s == st.map[id]
  IN  EnforceBudget([st EXCEPT
        !.map[id].parked = Export(kv[s.slot], Len(s.tokens)),
        !.map[id].slot = 0,
        !.owner[s.slot] = NoId])

FreeSlots(st) == {s \in SessionSlots : st.owner[s] = NoId}

Grant(st, id) ==
  LET s == Min(FreeSlots(st))
  IN  [store |-> [st EXCEPT !.owner[s] = id], slot |-> s]

Refused(st) == [store |-> st, slot |-> 0]

\* claim_slot: its possible results. The export of the victim's KV may fail,
\* and a victim that holds no slot frees none ("park freed no slot").
Evictions(st, id, victim) ==
  LET v == st.map[victim]
  IN  IF v.slot = 0 THEN {Refused(st)}
      ELSE {Grant(Park(st, victim), id)}
             \cup (IF v.tokens = <<>> THEN {} ELSE {Refused(st)})

ClaimSlot(st, id) ==
  IF FreeSlots(st) # {} THEN {Grant(st, id)}
  ELSE UNION {Evictions(st, id, victim) :
                victim \in LeastRecent(st, {st.owner[s] : s \in SessionSlots})}

Commit(st, id, tokens) == [Touch(st, id) EXCEPT !.map[id].tokens = tokens]

-----------------------------------------------------------------------------
(* Requests.                                                                *)

Init ==
  /\ store = [map |-> [id \in Ids |-> NoSession], live |-> {}, before |-> {},
              owner |-> [s \in SessionSlots |-> NoId]]
  /\ kv = [s \in Slots |-> [i \in Positions |-> <<>>]]
  /\ turn = NoTurn

\* Mutant: the token list is left as it was until commit.
BeginKeepsTokens(st, id, slot, reuse, prompt) ==
  /\ store' = [st EXCEPT !.map[id].slot = slot]
  /\ turn' = [id |-> id, slot |-> slot, ctx |-> prompt, pos |-> reuse]

\* The end of acquire: the session has slot, and only the reused prefix of its
\* context is still claimed, since the caller overwrites what follows.
Begin(st, id, slot, reuse, prompt) ==
  /\ store' = [st EXCEPT !.map[id].slot = slot,
                         !.map[id].tokens = SubSeq(@, 1, reuse)]
  /\ turn' = [id |-> id, slot |-> slot, ctx |-> prompt, pos |-> reuse]

\* acquire for a session that still has its slot.
AcquireResident(id, prompt) ==
  LET st == Touch(store, id)
      slot == st.map[id].slot
  IN  /\ Idle
      /\ slot # 0
      /\ Begin(st, id, slot, Reuse(st, id, prompt), prompt)
      /\ UNCHANGED kv

\* acquire for a new or a parked session. Its blob is taken before the slot is
\* claimed; it is imported when some of it can be reused.
Acquire(id, prompt) ==
  LET s == store.map[id]
      st == [Touch(store, id) EXCEPT !.map[id].parked = <<>>]
      reuse == Reuse(store, id, prompt)
      restore == s.parked # <<>> /\ reuse > 0
  IN  /\ Idle
      /\ SessionSlots # {}
      /\ s.slot = 0
      /\ \E claim \in ClaimSlot(st, id) :
           \/ /\ claim.slot = 0
              /\ store' = claim.store
              /\ UNCHANGED <<kv, turn>>
           \/ /\ claim.slot # 0
              /\ restore
              /\ Len(s.parked) = Len(s.tokens)
              /\ Begin(claim.store, id, claim.slot, reuse, prompt)
              /\ kv' = [kv EXCEPT ![claim.slot] = Import(@, s.parked)]
           \/ /\ claim.slot # 0
              /\ ~restore
              /\ Begin(claim.store, id, claim.slot, 0, prompt)
              /\ UNCHANGED kv
           \* kv_import fails: the slot has an owner that does not know it.
           \/ /\ claim.slot # 0
              /\ restore
              /\ store' = claim.store
              /\ kv' = [kv EXCEPT ![claim.slot] = Torn(@, 0, Len(s.parked))]
              /\ UNCHANGED turn

\* A request without a session runs on slot 0.
BeginAnonymous(prompt) ==
  /\ Idle
  /\ turn' = [id |-> NoId, slot |-> 0, ctx |-> prompt, pos |-> 0]
  /\ UNCHANGED <<store, kv>>

\* The tokens of the next prefill chunk.
Chunk == SubSeq(turn.ctx, turn.pos + 1, Min({turn.pos + ChunkCap, Len(turn.ctx)}))

Prefilling == ~Idle /\ turn.pos < Len(turn.ctx)
Decoding == ~Idle /\ turn.pos = Len(turn.ctx)

\* Mutant: positions are not checked against max_seq.
PrefillUnchecked ==
  /\ Prefilling
  /\ kv' = [kv EXCEPT ![turn.slot] = Run(@, turn.pos, Chunk)]
  /\ turn' = [turn EXCEPT !.pos = @ + Len(Chunk)]
  /\ UNCHANGED store

Prefill ==
  /\ Prefilling
  /\ turn.pos + Len(Chunk) <= MaxSeq
  /\ kv' = [kv EXCEPT ![turn.slot] = Run(@, turn.pos, Chunk)]
  /\ turn' = [turn EXCEPT !.pos = @ + Len(Chunk)]
  /\ UNCHANGED store

\* A sampled token is fed back unless it would fill the last position.
FeedBack(t) ==
  /\ Decoding
  /\ turn.pos + 1 < MaxSeq
  /\ kv' = [kv EXCEPT ![turn.slot] = Run(@, turn.pos, <<t>>)]
  /\ turn' = [turn EXCEPT !.ctx = Append(@, t), !.pos = @ + 1]
  /\ UNCHANGED store

\* Mutant: the token emitted at the boundary is committed with the others.
FinishClaimsEmitted ==
  /\ Decoding
  /\ \E t \in Samples :
       LET ctx == IF Len(turn.ctx) = MaxSeq - 1 THEN Append(turn.ctx, t) ELSE turn.ctx
       IN  store' = IF turn.id = NoId THEN store ELSE Commit(store, turn.id, ctx)
  /\ turn' = NoTurn
  /\ UNCHANGED kv

\* End of stream, max_tokens, or the max_seq boundary, where a last token is
\* emitted and not fed back: ctx has the tokens that were.
Finish ==
  /\ Decoding
  /\ store' = IF turn.id = NoId THEN store ELSE Commit(store, turn.id, turn.ctx)
  /\ turn' = NoTurn
  /\ UNCHANGED kv

\* A generation fails: a prompt that is too long before anything is written,
\* any other step half-way or between two steps. commit is not reached.
Fail ==
  /\ ~Idle
  /\ \/ UNCHANGED kv
     \/ /\ Prefilling
        /\ turn.pos + Len(Chunk) <= MaxSeq
        /\ kv' = [kv EXCEPT ![turn.slot] = Torn(@, turn.pos, Len(Chunk))]
     \/ /\ Decoding
        /\ turn.pos + 1 < MaxSeq
        /\ kv' = [kv EXCEPT ![turn.slot] = Torn(@, turn.pos, 1)]
  /\ turn' = NoTurn
  /\ UNCHANGED store

\* generate_batch: stream i decodes on slot i - 1, from slot 0 up. A batch that
\* fails has run the streams before the one it fails in.
Batch(streams) ==
  /\ Idle
  /\ BatchesAvoidSessions =>
       \A s \in SessionSlots : s < Len(streams) => store.owner[s] = NoId
  /\ \E done \in 1 .. Len(streams) :
       kv' = [s \in Slots |->
                IF s < done THEN Run(kv[s], 0, streams[s + 1])
                ELSE IF s = done /\ s < Len(streams)
                     THEN Torn(kv[s], 0, Len(streams[s + 1])) ELSE kv[s]]
  /\ UNCHANGED <<store, turn>>

Forget(id) ==
  LET s == store.map[id]
  IN  /\ Idle
      /\ id \in store.live
      /\ store' = [map |-> [store.map EXCEPT ![id] = NoSession],
                   live |-> store.live \ {id}, before |-> Unordered(store, id),
                   owner |-> [k \in SessionSlots |->
                                IF k = s.slot THEN NoId ELSE store.owner[k]]]
      /\ UNCHANGED <<kv, turn>>

Next ==
  \/ \E id \in Ids, prompt \in Prompts : AcquireResident(id, prompt)
  \/ \E id \in Ids, prompt \in Prompts : Acquire(id, prompt)
  \/ \E prompt \in AnonymousPrompts : BeginAnonymous(prompt)
  \/ Prefill
  \/ \E t \in Samples : FeedBack(t)
  \/ Finish
  \/ Fail
  \/ \E n \in 2 .. BatchCap : \E streams \in [1 .. n -> BatchContexts] : Batch(streams)
  \/ \E id \in Ids : Forget(id)

Spec == Init /\ [][Next]_vars

-----------------------------------------------------------------------------
(* Properties.                                                              *)

Row == [Positions -> Contexts]
Blobs == UNION {[1 .. m -> Contexts] : m \in 0 .. MaxSeq}
Session == [tokens : Contexts, slot : Slots, parked : Blobs]

\* last_used orders the sessions in the map, and nothing else.
LastUsedOrders(st) ==
  /\ st.live \subseteq Ids
  /\ st.before \subseteq {p \in st.live \X st.live : p[1] # p[2]}
  /\ \A id, other \in st.live : id = other \/ (Before(st, id, other) <=> ~Before(st, other, id))
  /\ \A id, other, third \in st.live :
       Before(st, id, other) /\ Before(st, other, third) => Before(st, id, third)

\* The fields of SessionStore and Session have their types, last_used orders
\* exactly the sessions in the map, and a turn stays in its slot's positions.
TypeOK ==
  /\ store.map \in [Ids -> Session]
  /\ store.owner \in [SessionSlots -> Ids \cup {NoId}]
  /\ LastUsedOrders(store)
  /\ \A id \in Ids \ store.live : store.map[id] = NoSession
  /\ kv \in [Slots -> Row]
  /\ turn.id \in Ids \cup {NoId} /\ turn.slot \in Slots
  /\ turn.pos <= Len(turn.ctx) /\ turn.pos <= MaxSeq

\* Every token a generation prefills or feeds back is computed over the state
\* of its own context and nothing else, whatever was reused, imported, or left
\* in the slot by another (main.rs: "every position is rewritten before it is
\* attended to").
TurnOnOwnContext == Holds(kv[turn.slot], SubSeq(turn.ctx, 1, turn.pos))

\* What a session claims to hold it holds: its slot, or its parked blob, has
\* the KV of its token list, also after a turn that failed (main.rs: "a stale
\* longer token list would let the next turn claim reuse the KV can no longer
\* honour").
ContextsHonest ==
  \A id \in Ids :
    LET s == store.map[id] IN
    /\ s.slot # 0 => Holds(kv[s.slot], s.tokens)
    /\ s.parked # <<>> =>
         /\ Len(s.parked) = Len(s.tokens)
         /\ \A i \in 1 .. Len(s.tokens) : s.parked[i] = SubSeq(s.tokens, 1, i)

\* A slot serves one session: the session that thinks it has it is its owner,
\* and keeps no parked copy beside it.
SlotsExclusive ==
  \A id \in Ids : store.map[id].slot # 0 =>
    /\ store.owner[store.map[id].slot] = id
    /\ store.map[id].parked = <<>>

\* Parked KV stays within the budget whenever the lock is free or held.
BudgetKept == ParkedBytes(store) <= RamBudget

\* A session loses its slot, unless it is forgotten, only when no slot is free
\* and no session that owns one is less recent (claim_slot parks "the least
\* recently used session if every slot is taken").
ParksLeastRecent ==
  [][\A id \in store.live \cap store'.live :
       store.map[id].slot # 0 /\ store'.map[id].slot = 0 =>
         /\ FreeSlots(store) = {}
         /\ \A s \in SessionSlots : ~Before(store', store.owner[s], id)]_vars

\* The sessions whose context a step gives up, in a slot or parked.
Dropped ==
  {id \in store.live \cap store'.live :
     store.map[id].tokens # <<>> /\ store'.map[id] = NoSession}

\* A context is given up only when the budget needs its room, and no less
\* recent one stays parked (enforce_budget: "least recently used first, until
\* the host budget is met").
DropsOldestForBudget ==
  [][Dropped # {} =>
       /\ \E id \in Dropped :
            ParkedBytes(store') + Len(store.map[id].tokens) > RamBudget
       /\ \A id \in Dropped, other \in store'.live :
            store'.map[other].parked # <<>> => Before(store', id, other)]_vars

=============================================================================
