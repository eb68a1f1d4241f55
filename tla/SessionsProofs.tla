---------------------------- MODULE SessionsProofs ----------------------------
(***************************************************************************)
(* Proofs about Sessions, for any number of names, sequence slots and      *)
(* positions, any budget and any workload: a slot has one owner, parked KV *)
(* stays in the budget, the least recent gives way, and, when no batch     *)
(* runs over a session's slot, every turn attends to its own context only. *)
(***************************************************************************)
EXTENDS Sessions, FiniteSetTheorems, SequenceTheorems, TLAPS

-----------------------------------------------------------------------------
(* The lemmas about sums and least elements do not depend on the cache     *)
(* record that their module is also about: any parameters will do.         *)
Shared == INSTANCE SharedProofs WITH
  Parts <- 1, SlotsPerPart <- 1, IdsPerPart <- 1, NumIds <- 1,
  DecayInterval <- 1, MaxFreq <- 1

(* The names of the lemmas are those of the specification.                 *)
LEMMA SharedNames ==
  /\ 1 \in Nat \ {0}
  /\ \A T : IsFiniteSet(T) <=> Shared!IsFiniteSet(T)
  /\ \A f, T : SumFunctionOnSet(f, T) = Shared!SumFunctionOnSet(f, T)
<1>1. \A T : IsFiniteSet(T) <=> Shared!IsFiniteSet(T)
  BY DEF IsFiniteSet, Shared!IsFiniteSet
<1>2. \A f, T : SumFunctionOnSet(f, T) = Shared!SumFunctionOnSet(f, T)
  BY DEF SumFunctionOnSet, FoldFunctionOnSet, MapThenFoldSet,
         Shared!SumFunctionOnSet, Shared!FoldFunctionOnSet, Shared!MapThenFoldSet
<1>. QED  BY <1>1, <1>2

-----------------------------------------------------------------------------
(* Sequences.                                                              *)

(* Contexts are the token sequences that fit into a slot; blobs are the    *)
(* sequences of entries that do.                                           *)
LEMMA ContextsAre ==
  /\ \A c : c \in Contexts <=> c \in Seq(Tokens) /\ Len(c) <= MaxSeq
  /\ \A b : b \in Blobs <=> b \in Seq(Contexts) /\ Len(b) <= MaxSeq
<1>1. MaxSeq \in Nat
  BY SessionsAssumption
<1>2. ASSUME NEW T, NEW c
      PROVE  c \in UNION {[1 .. m -> T] : m \in 0 .. MaxSeq} <=> c \in Seq(T) /\ Len(c) <= MaxSeq
  <2>1. ASSUME NEW m \in 0 .. MaxSeq, c \in [1 .. m -> T]
        PROVE  c \in Seq(T) /\ Len(c) <= MaxSeq
    <3>1. m \in Nat
      BY <1>1
    <3>2. c \in Seq(T)
      BY <2>1, <3>1
    <3>3. Len(c) = m
      BY <2>1, <3>1, <3>2
    <3>. QED  BY <1>1, <3>2, <3>3
  <2>2. ASSUME c \in Seq(T), Len(c) <= MaxSeq
        PROVE  Len(c) \in 0 .. MaxSeq /\ c \in [1 .. Len(c) -> T]
    BY <1>1, <2>2, LenProperties
  <2>. QED  BY <2>1, <2>2
<1>. QED  BY <1>2 DEF Contexts, SeqsUpTo, Blobs

(* Nothing is a context and a blob.                                        *)
LEMMA EmptyFits == <<>> \in Contexts /\ <<>> \in Blobs
<1>1. <<>> \in Seq(Tokens) /\ <<>> \in Seq(Contexts)
  BY EmptySeq
<1>2. Len(<<>>) = 0 /\ 0 <= MaxSeq
  BY SessionsAssumption
<1>. QED  BY <1>1, <1>2, ContextsAre

(* The smaller of two.                                                     *)
LEMMA MinOfTwo ==
  ASSUME NEW a \in Nat, NEW b \in Nat
  PROVE  Min({a, b}) \in {a, b} /\ Min({a, b}) <= a /\ Min({a, b}) <= b
<1>. DEFINE P(x) == x \in {a, b} /\ \A y \in {a, b} : x =< y
<1>1. P(a) \/ P(b)
  OBVIOUS
<1>2. P(Min({a, b}))
  BY <1>1, Zenon DEF Min
<1>. QED  BY <1>2

(* The least of a set of naturals.                                         *)
LEMMA MinOfSet ==
  ASSUME NEW T, T \subseteq Nat, T # {}
  PROVE  Min(T) \in T /\ \A n \in T : Min(T) <= n
<1>. DEFINE P(x) == x \in T /\ \A y \in T : x =< y
<1>1. \E x \in T : P(x)
  BY Shared!LeastNatural, SharedNames
<1>2. P(Min(T))
  BY <1>1, Zenon DEF Min
<1>. QED  BY <1>2

(* The front of a sequence.                                                *)
LEMMA FrontOf ==
  ASSUME NEW T, NEW c \in Seq(T), NEW n \in Nat, n <= Len(c)
  PROVE  /\ SubSeq(c, 1, n) \in Seq(T) /\ Len(SubSeq(c, 1, n)) = n
         /\ \A i \in 1 .. n : SubSeq(c, 1, n)[i] = c[i]
<1>1. Len(c) \in Nat /\ \A i \in 1 .. n : c[i] \in T
  BY LenProperties
<1>2. 1 \in Int /\ n \in Int
  OBVIOUS
<1>3. /\ SubSeq(c, 1, n) \in Seq(T)
      /\ Len(SubSeq(c, 1, n)) = IF 1 <= n THEN n - 1 + 1 ELSE 0
      /\ \A i \in 1 .. n - 1 + 1 : SubSeq(c, 1, n)[i] = c[1 + i - 1]
  BY <1>1, <1>2, SubSeqProperties
<1>4. ASSUME NEW i \in 1 .. n
      PROVE  SubSeq(c, 1, n)[i] = c[i]
  <2>1. i \in 1 .. n - 1 + 1 /\ 1 + i - 1 = i
    OBVIOUS
  <2>. QED  BY <1>3, <2>1
<1>. QED  BY <1>3, <1>4

(* The front of a front.                                                   *)
LEMMA FrontOfFront ==
  ASSUME NEW T, NEW c \in Seq(T), NEW n \in Nat, n <= Len(c), NEW i \in Nat, i <= n
  PROVE  SubSeq(SubSeq(c, 1, n), 1, i) = SubSeq(c, 1, i)
<1>1. Len(c) \in Nat
  BY LenProperties
<1>2. /\ SubSeq(c, 1, n) \in Seq(T) /\ Len(SubSeq(c, 1, n)) = n
      /\ \A k \in 1 .. n : SubSeq(c, 1, n)[k] = c[k]
  BY FrontOf
<1>3. /\ SubSeq(SubSeq(c, 1, n), 1, i) \in Seq(T) /\ Len(SubSeq(SubSeq(c, 1, n), 1, i)) = i
      /\ \A k \in 1 .. i : SubSeq(SubSeq(c, 1, n), 1, i)[k] = SubSeq(c, 1, n)[k]
  BY <1>2, FrontOf
<1>4. i <= Len(c)
  BY <1>1
<1>5. /\ SubSeq(c, 1, i) \in Seq(T) /\ Len(SubSeq(c, 1, i)) = i
      /\ \A k \in 1 .. i : SubSeq(c, 1, i)[k] = c[k]
  BY <1>4, FrontOf
<1>6. \A k \in 1 .. i : k \in 1 .. n
  OBVIOUS
<1>. QED  BY <1>2, <1>3, <1>5, <1>6, SeqEqual

(* What can be reused is a common prefix, and leaves a token to run.       *)
LEMMA ReuseOf ==
  ASSUME NEW st, NEW id, NEW prompt \in Seq(Tokens), prompt # <<>>,
         st.map[id].tokens \in Seq(Tokens)
  PROVE  /\ Reuse(st, id, prompt) \in Nat
         /\ Reuse(st, id, prompt) <= Len(st.map[id].tokens)
         /\ Reuse(st, id, prompt) <= Len(prompt)
         /\ SubSeq(st.map[id].tokens, 1, Reuse(st, id, prompt))
              = SubSeq(prompt, 1, Reuse(st, id, prompt))
<1>. DEFINE a == st.map[id].tokens
            C == CommonPrefixes({a, prompt})
            P(p) == p \in C /\ \A other \in C : Len(other) <= Len(p)
            T == {Len(a) - Len(p) : p \in C}
            l == LongestCommonPrefix({a, prompt})
<1>1. Len(a) \in Nat /\ Len(prompt) \in Nat /\ Len(prompt) > 0
  BY LenProperties, EmptySeq
<1>2. ASSUME NEW p \in C
      PROVE  /\ Len(p) \in Nat /\ Len(p) <= Len(a) /\ Len(p) <= Len(prompt)
             /\ SubSeq(a, 1, Len(p)) = SubSeq(prompt, 1, Len(p))
  <2>1. IsPrefix(p, a) /\ IsPrefix(p, prompt)
    BY DEF CommonPrefixes
  <2>2. PICK s \in {a, prompt} : p \in Prefixes(s)
    BY DEF CommonPrefixes
  <2>3. PICK n \in 0 .. Len(s) : p = SubSeq(s, 1, n)
    BY <2>2 DEF Prefixes
  <2>4. Len(p) \in Nat
    BY <1>1, <2>3, FrontOf
  <2>. QED  BY <2>1, <2>4 DEF IsPrefix
<1>3. C # {}
  <2>1. SubSeq(a, 1, 0) \in Prefixes(a)
    BY <1>1 DEF Prefixes
  <2>2. SubSeq(a, 1, 0) = <<>> /\ SubSeq(prompt, 1, 0) = <<>> /\ Len(<<>>) = 0
    BY SubSeqEmpty
  <2>3. IsPrefix(SubSeq(a, 1, 0), a) /\ IsPrefix(SubSeq(a, 1, 0), prompt)
    BY <1>1, <2>2 DEF IsPrefix
  <2>. QED  BY <2>1, <2>3 DEF CommonPrefixes
<1>4. P(l)
  <2>1. T \subseteq Nat /\ T # {}
    <3>1. ASSUME NEW p \in C
          PROVE  Len(a) - Len(p) \in Nat
      <4>1. Len(p) \in Nat /\ Len(p) <= Len(a)
        BY <1>2
      <4>. HIDE DEF a, C
      <4>. QED  BY <1>1, <4>1
    <3>. HIDE DEF a, C
    <3>. QED  BY <1>3, <3>1
  <2>2. PICK m \in T : \A n \in T : m <= n
    BY <2>1, Shared!LeastNatural, SharedNames
  <2>3. PICK p \in C : m = Len(a) - Len(p)
    BY <2>2
  <2>4. ASSUME NEW other \in C
        PROVE  Len(other) <= Len(p)
    <3>1. m <= Len(a) - Len(other)
      BY <2>2
    <3>2. Len(p) \in Nat /\ Len(other) \in Nat
      BY <1>2, <2>3
    <3>. QED  BY <1>1, <2>3, <3>1, <3>2
  <2>5. P(p)
    BY <2>3, <2>4
  <2>. QED  BY <2>5, Zenon DEF LongestCommonPrefix
<1>5. Len(l) \in Nat /\ Len(l) <= Len(a) /\ Len(l) <= Len(prompt)
      /\ SubSeq(a, 1, Len(l)) = SubSeq(prompt, 1, Len(l))
  BY <1>2, <1>4
<1>. HIDE DEF l, a
<1>6. PICK r \in Nat : r = Min({Len(l), Len(prompt) - 1}) /\ r <= Len(l)
  <2>1. Len(prompt) - 1 \in Nat
    BY <1>1
  <2>. QED  BY <1>5, <2>1, MinOfTwo
<1>7. SubSeq(a, 1, r) = SubSeq(prompt, 1, r)
  <2>1. a \in Seq(Tokens)
    BY DEF a
  <2>2. SubSeq(SubSeq(a, 1, Len(l)), 1, r) = SubSeq(a, 1, r)
    BY <1>5, <1>6, <2>1, FrontOfFront
  <2>3. SubSeq(SubSeq(prompt, 1, Len(l)), 1, r) = SubSeq(prompt, 1, r)
    BY <1>5, <1>6, FrontOfFront
  <2>. QED  BY <1>5, <2>2, <2>3
<1>8. r = Reuse(st, id, prompt)
  BY <1>6 DEF Reuse, l, a
<1>9. r <= Len(a) /\ r <= Len(prompt)
  BY <1>1, <1>5, <1>6
<1>. QED  BY <1>7, <1>8, <1>9 DEF a

-----------------------------------------------------------------------------
(* Rows of KV.                                                             *)

(* A row that holds a context holds its prefixes.                          *)
LEMMA HoldsFront ==
  ASSUME NEW row, NEW c \in Seq(Tokens), NEW n \in Nat, n <= Len(c), Holds(row, c)
  PROVE  Holds(row, SubSeq(c, 1, n))
<1>1. Len(c) \in Nat /\ Len(SubSeq(c, 1, n)) = n
  BY FrontOf, LenProperties
<1>2. ASSUME NEW i \in 1 .. n
      PROVE  row[i - 1] = SubSeq(SubSeq(c, 1, n), 1, i)
  <2>1. i \in 1 .. Len(c) /\ i \in Nat /\ i <= n
    BY <1>1
  <2>2. SubSeq(SubSeq(c, 1, n), 1, i) = SubSeq(c, 1, i)
    BY <2>1, FrontOfFront
  <2>. QED  BY <2>1, <2>2 DEF Holds
<1>. QED  BY <1>1, <1>2 DEF Holds

(* What a row holds does not depend on the positions after it.             *)
LEMMA HoldsSame ==
  ASSUME NEW row, NEW new, NEW c \in Seq(Tokens), Holds(row, c),
         \A i \in 0 .. Len(c) - 1 : new[i] = row[i]
  PROVE  Holds(new, c)
<1>1. Len(c) \in Nat
  BY LenProperties
<1>2. ASSUME NEW i \in 1 .. Len(c)
      PROVE  new[i - 1] = SubSeq(c, 1, i)
  <2>1. i - 1 \in 0 .. Len(c) - 1
    BY <1>1
  <2>. QED  BY <2>1 DEF Holds
<1>. QED  BY <1>2 DEF Holds

(* Every row holds the empty context.                                      *)
LEMMA HoldsNothing ==
  ASSUME NEW row, NEW c \in Seq(Tokens)
  PROVE  Holds(row, <<>>) /\ Holds(row, SubSeq(c, 1, 0))
<1>1. SubSeq(c, 1, 0) = <<>>
  BY SubSeqEmpty
<1>. QED  BY <1>1 DEF Holds

(* step_multi leaves the positions before it alone, and writes entries     *)
(* that fit.                                                               *)
LEMMA RunType ==
  ASSUME NEW row \in Row, NEW pos \in Nat, NEW chunk \in Seq(Tokens),
         pos + Len(chunk) <= MaxSeq
  PROVE  /\ Run(row, pos, chunk) \in Row
         /\ \A i \in Positions : i < pos => Run(row, pos, chunk)[i] = row[i]
<1>1. MaxSeq \in Nat \ {0} /\ Len(chunk) \in Nat
  BY SessionsAssumption, LenProperties
<1>2. PICK before : before = IF pos = 0 THEN <<>> ELSE row[pos - 1]
  OBVIOUS
<1>3. ASSUME Len(chunk) # 0
      PROVE  before \in Seq(Tokens)
  <2>1. CASE pos = 0
    BY <1>2, <2>1, EmptySeq
  <2>2. CASE pos # 0
    <3>1. pos - 1 \in Positions
      BY <1>1, <1>3, <2>2 DEF Positions
    <3>2. row[pos - 1] \in Contexts
      BY <3>1 DEF Row
    <3>. QED  BY <1>2, <2>2, <3>2, ContextsAre
  <2>. QED  BY <2>1, <2>2
<1>4. <<>> \in Contexts
  BY EmptyFits
<1>5. PICK sound \in BOOLEAN : sound <=> Len(before) = pos /\ Holds(row, before)
  OBVIOUS
<1>6. Run(row, pos, chunk) =
        [i \in Positions |->
           IF i \in pos .. pos + Len(chunk) - 1
           THEN IF sound THEN before \o SubSeq(chunk, 1, i - pos + 1) ELSE <<>>
           ELSE row[i]]
  BY <1>2, <1>5 DEF Run
<1>7. ASSUME NEW i \in Positions, i \in pos .. pos + Len(chunk) - 1, sound
      PROVE  before \o SubSeq(chunk, 1, i - pos + 1) \in Contexts
  <2>1. Len(chunk) # 0 /\ i \in Nat /\ i < MaxSeq
    BY <1>1, <1>7 DEF Positions
  <2>2. PICK n \in Nat : n = i - pos + 1 /\ n <= Len(chunk) /\ pos + n <= MaxSeq
    <3>1. i - pos + 1 \in Nat
      BY <1>1, <1>7
    <3>. QED  BY <1>1, <1>7, <2>1, <3>1
  <2>3. SubSeq(chunk, 1, n) \in Seq(Tokens) /\ Len(SubSeq(chunk, 1, n)) = n
    BY <2>2, FrontOf
  <2>4. before \in Seq(Tokens) /\ Len(before) = pos
    BY <1>3, <1>5, <1>7, <2>1
  <2>5. /\ before \o SubSeq(chunk, 1, n) \in Seq(Tokens)
        /\ Len(before \o SubSeq(chunk, 1, n)) = pos + n
    BY <2>3, <2>4, ConcatProperties
  <2>. QED  BY <2>2, <2>5, ContextsAre
<1>8. \A i \in Positions : row[i] \in Contexts
  BY DEF Row
<1>9. Run(row, pos, chunk) \in Row
  BY <1>4, <1>6, <1>7, <1>8 DEF Row
<1>10. \A i \in Positions : i < pos => i \notin pos .. pos + Len(chunk) - 1
  OBVIOUS
<1>. QED  BY <1>6, <1>9, <1>10

(* A chunk that continues the context a row holds is computed over it.     *)
LEMMA RunHolds ==
  ASSUME NEW row \in Row, NEW c \in Seq(Tokens), NEW pos \in Nat, NEW m \in Nat,
         pos <= m, m <= Len(c), m <= MaxSeq, Holds(row, SubSeq(c, 1, pos))
  PROVE  /\ SubSeq(c, pos + 1, m) \in Seq(Tokens) /\ Len(SubSeq(c, pos + 1, m)) = m - pos
         /\ Holds(Run(row, pos, SubSeq(c, pos + 1, m)), SubSeq(c, 1, m))
<1>1. Len(c) \in Nat /\ MaxSeq \in Nat
  BY LenProperties, SessionsAssumption
<1>2. PICK chunk : chunk = SubSeq(c, pos + 1, m)
  OBVIOUS
<1>3. chunk \in Seq(Tokens) /\ Len(chunk) = m - pos
  <2>1. pos + 1 \in Int /\ m \in Int /\ \A i \in pos + 1 .. m : c[i] \in Tokens
    BY <1>1, LenProperties
  <2>2. /\ SubSeq(c, pos + 1, m) \in Seq(Tokens)
        /\ Len(SubSeq(c, pos + 1, m)) = IF pos + 1 <= m THEN m - (pos + 1) + 1 ELSE 0
    BY <2>1, SubSeqProperties
  <2>. QED  BY <1>2, <2>2
<1>4. PICK before : before = SubSeq(c, 1, pos)
  OBVIOUS
<1>5. before \in Seq(Tokens) /\ Len(before) = pos
  <2>1. pos <= Len(c)
    BY <1>1
  <2>. QED  BY <1>4, <2>1, FrontOf
<1>6. before = IF pos = 0 THEN <<>> ELSE row[pos - 1]
  <2>1. CASE pos = 0
    BY <1>4, <2>1, SubSeqEmpty
  <2>2. CASE pos # 0
    <3>1. pos \in 1 .. Len(before)
      BY <1>5, <2>2
    <3>2. row[pos - 1] = SubSeq(before, 1, pos)
      BY <1>4, <3>1 DEF Holds
    <3>3. SubSeq(before, 1, pos) = before
      BY <1>5, SubSeqFull
    <3>. QED  BY <2>2, <3>2, <3>3
  <2>. QED  BY <2>1, <2>2
<1>7. Run(row, pos, chunk) =
        [i \in Positions |->
           IF i \in pos .. pos + Len(chunk) - 1
           THEN before \o SubSeq(chunk, 1, i - pos + 1)
           ELSE row[i]]
  BY <1>4, <1>5, <1>6 DEF Run
<1>8. Len(SubSeq(c, 1, m)) = m
  BY FrontOf
<1>9. ASSUME NEW i \in 1 .. m
      PROVE  Run(row, pos, chunk)[i - 1] = SubSeq(SubSeq(c, 1, m), 1, i)
  <2>1. SubSeq(SubSeq(c, 1, m), 1, i) = SubSeq(c, 1, i)
    BY FrontOfFront
  <2>2. i - 1 \in Positions
    BY <1>1 DEF Positions
  <2>3. CASE i <= pos
    <3>1. i - 1 \notin pos .. pos + Len(chunk) - 1
      BY <2>3
    <3>2. Run(row, pos, chunk)[i - 1] = row[i - 1]
      BY <1>7, <2>2, <3>1
    <3>3. row[i - 1] = SubSeq(before, 1, i)
      <4>1. Holds(row, before) /\ i \in 1 .. Len(before)
        BY <1>4, <1>5, <2>3
      <4>. QED  BY <4>1 DEF Holds
    <3>4. SubSeq(before, 1, i) = SubSeq(c, 1, i)
      BY <1>1, <1>4, <2>3, FrontOfFront
    <3>. QED  BY <2>1, <3>2, <3>3, <3>4
  <2>4. CASE i > pos
    <3>1. i - 1 \in pos .. pos + Len(chunk) - 1
      BY <1>3, <2>4
    <3>2. PICK n \in 1 .. m - pos : n = i - 1 - pos + 1 /\ n = i - pos /\ pos + n = i
      BY <2>4
    <3>3. Run(row, pos, chunk)[i - 1] = before \o SubSeq(chunk, 1, n)
      BY <1>7, <2>2, <3>1, <3>2
    <3>4. SubSeq(chunk, 1, n) = SubSeq(c, pos + 1, i)
      <4>1. /\ pos + 1 \in 1 .. Len(c) /\ m \in 1 .. Len(c)
            /\ 1 \in 1 .. m - (pos + 1) + 1 /\ n \in 1 .. m - (pos + 1) + 1
        BY <1>1, <2>4, <3>2
      <4>2. SubSeq(SubSeq(c, pos + 1, m), 1, n) = SubSeq(c, pos + 1 + 1 - 1, pos + 1 + n - 1)
        BY <4>1, SubSeqOfSubSeq
      <4>3. pos + 1 + 1 - 1 = pos + 1 /\ pos + 1 + n - 1 = i
        BY <3>2
      <4>. QED  BY <1>2, <4>2, <4>3
    <3>5. before \o SubSeq(c, pos + 1, i) = SubSeq(c, 1, i)
      <4>1. 1 \in 1 .. Len(c) + 1 /\ pos \in 1 - 1 .. Len(c) /\ i \in pos .. Len(c)
        BY <1>1, <2>4
      <4>. QED  BY <1>4, <4>1, ConcatAdjacentSubSeq
    <3>. QED  BY <2>1, <3>3, <3>4, <3>5
  <2>. QED  BY <2>3, <2>4
<1>. QED  BY <1>2, <1>3, <1>8, <1>9 DEF Holds

(* An aborted step leaves the positions before it alone.                   *)
LEMMA TornType ==
  ASSUME NEW row \in Row, NEW pos \in Nat, NEW n \in Nat
  PROVE  /\ Torn(row, pos, n) \in Row
         /\ \A i \in Positions : i < pos => Torn(row, pos, n)[i] = row[i]
<1>1. \A i \in Positions : row[i] \in Contexts
  BY DEF Row
<1>2. Torn(row, pos, n) \in Row
  BY <1>1, EmptyFits DEF Torn, Row
<1>3. \A i \in Positions : i < pos => i \notin pos .. pos + n - 1
  OBVIOUS
<1>. QED  BY <1>2, <1>3 DEF Torn

(* The blob of a context's entries.                                        *)
LEMMA ExportOf ==
  ASSUME NEW row \in Row, NEW n \in Nat, n <= MaxSeq
  PROVE  /\ Export(row, n) \in Blobs /\ Len(Export(row, n)) = n
         /\ \A i \in 1 .. n : Export(row, n)[i] = row[i - 1]
<1>1. MaxSeq \in Nat
  BY SessionsAssumption
<1>2. \A i \in 1 .. n : i - 1 \in Positions /\ row[i - 1] \in Contexts
  BY <1>1 DEF Positions, Row
<1>3. Export(row, n) \in [1 .. n -> Contexts]
  BY <1>2 DEF Export
<1>4. Export(row, n) \in Seq(Contexts)
  BY <1>3
<1>5. Len(Export(row, n)) = n
  BY <1>3, <1>4
<1>. QED  BY <1>3, <1>4, <1>5, ContextsAre DEF Export

(* A row that a blob of a context's entries was copied to holds it.        *)
LEMMA ImportOf ==
  ASSUME NEW row \in Row, NEW blob \in Blobs
  PROVE  /\ Import(row, blob) \in Row
         /\ \A c \in Seq(Tokens) :
              /\ Len(c) = Len(blob)
              /\ \A i \in 1 .. Len(c) : blob[i] = SubSeq(c, 1, i)
              => Holds(Import(row, blob), c)
<1>1. blob \in Seq(Contexts) /\ Len(blob) \in Nat /\ Len(blob) <= MaxSeq /\ MaxSeq \in Nat
  BY ContextsAre, LenProperties, SessionsAssumption
<1>2. \A i \in Positions : row[i] \in Contexts
  BY DEF Row
<1>3. ASSUME NEW i \in Positions, i < Len(blob)
      PROVE  blob[i + 1] \in Contexts
  <2>1. i + 1 \in 1 .. Len(blob)
    BY <1>1, <1>3 DEF Positions
  <2>. QED  BY <1>1, <2>1, ElementOfSeq
<1>4. Import(row, blob) \in Row
  BY <1>2, <1>3 DEF Import, Row
<1>5. ASSUME NEW c \in Seq(Tokens), Len(c) = Len(blob),
             \A i \in 1 .. Len(c) : blob[i] = SubSeq(c, 1, i)
      PROVE  Holds(Import(row, blob), c)
  <2>1. SUFFICES ASSUME NEW i \in 1 .. Len(c)
                 PROVE  Import(row, blob)[i - 1] = SubSeq(c, 1, i)
    BY DEF Holds
  <2>2. i - 1 \in Positions /\ i - 1 < Len(blob) /\ i - 1 + 1 = i
    BY <1>1, <1>5, <2>1 DEF Positions
  <2>3. Import(row, blob)[i - 1] = blob[i]
    BY <2>2 DEF Import
  <2>. QED  BY <1>5, <2>1, <2>3
<1>. QED  BY <1>4, <1>5

-----------------------------------------------------------------------------
(* Stores.                                                                 *)

StoreType ==
  [map : [Ids -> Session], live : SUBSET Ids, before : SUBSET (Ids \X Ids),
   owner : [SessionSlots -> Ids \cup {NoId}]]

(* Names that are not in the map have nothing.                             *)
Listed(st) == \A id \in Ids \ st.live : st.map[id] = NoSession

(* SlotsExclusive, of any store.                                           *)
Owned(st) ==
  \A id \in Ids : st.map[id].slot # 0 =>
    st.owner[st.map[id].slot] = id /\ st.map[id].parked = <<>>

(* A blob is as long as its session's token list.                          *)
Measured(st) ==
  \A id \in Ids : st.map[id].parked # <<>> => Len(st.map[id].parked) = Len(st.map[id].tokens)

Sound(st) == st \in StoreType /\ LastUsedOrders(st) /\ Listed(st) /\ Owned(st) /\ Measured(st)

(* ContextsHonest, of any store and any KV.                                *)
Honest(st, k) ==
  \A id \in Ids :
    /\ st.map[id].slot # 0 => Holds(k[st.map[id].slot], st.map[id].tokens)
    /\ st.map[id].parked # <<>> =>
         \A i \in 1 .. Len(st.map[id].tokens) :
           st.map[id].parked[i] = SubSeq(st.map[id].tokens, 1, i)

(* The fields of a session.                                                *)
LEMMA SessionOf ==
  ASSUME NEW st \in StoreType, NEW id \in Ids
  PROVE  /\ st.map[id] \in Session
         /\ st.map[id].tokens \in Seq(Tokens) /\ st.map[id].tokens \in Contexts
         /\ Len(st.map[id].tokens) \in Nat /\ Len(st.map[id].tokens) <= MaxSeq
         /\ st.map[id].slot \in Slots
         /\ st.map[id].slot # 0 => st.map[id].slot \in SessionSlots
         /\ st.map[id].parked \in Blobs /\ Len(st.map[id].parked) \in Nat
         /\ Len(st.map[id].parked) = 0 <=> st.map[id].parked = <<>>
<1>1. st.map[id] \in Session
  BY DEF StoreType
<1>2. /\ st.map[id].tokens \in Contexts /\ st.map[id].slot \in Slots
      /\ st.map[id].parked \in Blobs
  BY <1>1 DEF Session
<1>3. st.map[id].slot # 0 => st.map[id].slot \in SessionSlots
  BY <1>2 DEF SessionSlots
<1>4. st.map[id].tokens \in Seq(Tokens) /\ Len(st.map[id].tokens) <= MaxSeq
  BY <1>2, ContextsAre
<1>5. st.map[id].parked \in Seq(Contexts)
  BY <1>2, ContextsAre
<1>6. Len(st.map[id].tokens) \in Nat
  BY <1>4, LenProperties
<1>7. Len(st.map[id].parked) \in Nat
  BY <1>5, LenProperties
<1>8. Len(st.map[id].parked) = 0 <=> st.map[id].parked = <<>>
  BY <1>5, EmptySeq
<1>. QED  BY <1>1, <1>2, <1>3, <1>4, <1>6, <1>7, <1>8

(* A session of its parts.                                                 *)
LEMMA SessionIs ==
  /\ NoSession \in Session
  /\ \A s : s \in Session <=>
       /\ s = [tokens |-> s.tokens, slot |-> s.slot, parked |-> s.parked]
       /\ s.tokens \in Contexts /\ s.slot \in Slots /\ s.parked \in Blobs
<1>1. 0 \in Slots
  BY SessionsAssumption DEF Slots
<1>. QED  BY <1>1, EmptyFits DEF Session, NoSession

(* The parked bytes: less when every blob is as short or shorter, and one  *)
(* blob less when one is dropped.                                          *)
LEMMA BytesOf ==
  ASSUME NEW st \in StoreType, NEW new \in StoreType
  PROVE  /\ ParkedBytes(st) \in Nat
         /\ (\A id \in Ids : Len(new.map[id].parked) <= Len(st.map[id].parked))
              => ParkedBytes(new) <= ParkedBytes(st)
         /\ (\A id \in Ids : Len(st.map[id].parked) = 0) => ParkedBytes(st) = 0
         /\ \A out \in Ids :
              /\ Len(new.map[out].parked) = 0
              /\ \A id \in Ids : id # out => Len(new.map[id].parked) = Len(st.map[id].parked)
              => ParkedBytes(st) = ParkedBytes(new) + Len(st.map[out].parked)
<1>. DEFINE f == [id \in Ids |-> Len(st.map[id].parked)]
            h == [id \in Ids |-> Len(new.map[id].parked)]
<1>1. ParkedBytes(st) = SumFunctionOnSet(f, Ids) /\ ParkedBytes(new) = SumFunctionOnSet(h, Ids)
  BY DEF ParkedBytes, SumFunction
<1>2. \A id \in Ids : f[id] \in Nat /\ h[id] \in Nat
  BY SessionOf
<1>3. /\ \A id \in Ids : f[id] = Len(st.map[id].parked)
      /\ \A id \in Ids : h[id] = Len(new.map[id].parked)
  OBVIOUS
<1>4. IsFiniteSet(Ids)
  BY SessionsAssumption
<1>. HIDE DEF f, h
<1>5. SumFunctionOnSet(f, Ids) \in Nat /\ SumFunctionOnSet(h, Ids) \in Nat
  BY <1>2, <1>4, Shared!SumType, SharedNames
<1>6. ASSUME \A id \in Ids : Len(new.map[id].parked) <= Len(st.map[id].parked)
      PROVE  SumFunctionOnSet(h, Ids) <= SumFunctionOnSet(f, Ids)
  <2>1. \A id \in Ids : h[id] \in Nat /\ f[id] \in Nat /\ h[id] <= f[id]
    BY <1>2, <1>3, <1>6
  <2>. QED  BY <1>4, <2>1, Shared!SumLess, SharedNames
<1>7. ASSUME \A id \in Ids : Len(st.map[id].parked) = 0
      PROVE  SumFunctionOnSet(f, Ids) = 0
  <2>1. \A id \in Ids : f[id] \in Nat /\ f[id] \in Nat /\ f[id] <= f[id] /\ f[id] = 0
    BY <1>2, <1>3, <1>7
  <2>. QED  BY <1>4, <2>1, Shared!SumLess, SharedNames
<1>8. ASSUME NEW out \in Ids, Len(new.map[out].parked) = 0,
             \A id \in Ids : id # out => Len(new.map[id].parked) = Len(st.map[id].parked)
      PROVE  SumFunctionOnSet(f, Ids) = SumFunctionOnSet(h, Ids) + Len(st.map[out].parked)
  <2>1. \A id \in Ids : f[id] \in Nat /\ h[id] \in Nat
    BY <1>2
  <2>2. \A id \in Ids : id # out => h[id] = f[id]
    BY <1>3, <1>8
  <2>3. SumFunctionOnSet(h, Ids) + f[out] = SumFunctionOnSet(f, Ids) + h[out]
    BY <1>4, <2>1, <2>2, Shared!SumChange, SharedNames
  <2>4. h[out] = 0 /\ f[out] = Len(st.map[out].parked) /\ f[out] \in Nat
    BY <1>2, <1>3, <1>8
  <2>. QED  BY <1>5, <2>3, <2>4
<1>. QED  BY <1>1, <1>5, <1>6, <1>7, <1>8

(* A use makes a name the most recent.                                     *)
LEMMA TouchOf ==
  ASSUME NEW st, Sound(st), NEW id \in Ids
  PROVE  /\ Sound(Touch(st, id)) /\ Touch(st, id).map = st.map /\ Touch(st, id).owner = st.owner
         /\ Touch(st, id).live = st.live \cup {id}
         /\ \A other \in st.live \ {id} : Before(Touch(st, id), other, id)
         /\ \A other, third \in Ids \ {id} :
              Before(Touch(st, id), other, third) <=> Before(st, other, third)
<1>. DEFINE new == Touch(st, id)
<1>1. st \in StoreType /\ st.live \subseteq Ids /\ st.before \subseteq Ids \X Ids
  BY DEF Sound, StoreType
<1>2. /\ new.map = st.map /\ new.owner = st.owner /\ new.live = st.live \cup {id}
      /\ new.before = Unordered(st, id) \cup {<<other, id>> : other \in st.live \ {id}}
  BY <1>1 DEF Touch, StoreType
<1>3. \A a, b \in Ids : <<a, b>> \in new.before <=>
        \/ <<a, b>> \in st.before /\ a # id /\ b # id
        \/ b = id /\ a \in st.live /\ a # id
  BY <1>2 DEF Unordered
<1>4. new.before \subseteq Ids \X Ids
  BY <1>1, <1>2 DEF Unordered
<1>5. new \in StoreType
  BY <1>1, <1>2, <1>4 DEF Touch, StoreType
<1>. HIDE DEF new
<1>6. /\ st.before \subseteq {p \in st.live \X st.live : p[1] # p[2]}
      /\ \A a, b \in st.live : a = b \/ (<<a, b>> \in st.before <=> ~(<<b, a>> \in st.before))
      /\ \A a, b, c \in st.live :
           <<a, b>> \in st.before /\ <<b, c>> \in st.before => <<a, c>> \in st.before
  BY DEF Sound, LastUsedOrders, Before
<1>7. new.before \subseteq {p \in new.live \X new.live : p[1] # p[2]}
  BY <1>2, <1>6 DEF Unordered
<1>8. \A a, b \in new.live : a = b \/ (<<a, b>> \in new.before <=> ~(<<b, a>> \in new.before))
  BY <1>1, <1>2, <1>3, <1>6
<1>9. ASSUME NEW a \in new.live, NEW b \in new.live, NEW c \in new.live,
             <<a, b>> \in new.before, <<b, c>> \in new.before
      PROVE  <<a, c>> \in new.before
  <2>1. a \in Ids /\ b \in Ids /\ c \in Ids
    BY <1>1, <1>2
  <2>2. b # id
    BY <1>3, <1>9, <2>1
  <2>3. <<a, b>> \in st.before /\ a # id
    BY <1>3, <1>9, <2>1, <2>2
  <2>4. a \in st.live /\ b \in st.live
    BY <1>2, <2>2, <2>3
  <2>5. CASE c = id
    BY <1>3, <2>1, <2>3, <2>4, <2>5
  <2>6. CASE c # id
    BY <1>2, <1>3, <1>6, <1>9, <2>1, <2>2, <2>3, <2>4, <2>6
  <2>. QED  BY <2>5, <2>6
<1>10. LastUsedOrders(new)
  BY <1>1, <1>2, <1>7, <1>8, <1>9 DEF LastUsedOrders, Before
<1>11. Listed(new) /\ Owned(new) /\ Measured(new)
  BY <1>2 DEF Sound, Listed, Owned, Measured
<1>12. Sound(new)
  BY <1>5, <1>10, <1>11 DEF Sound
<1>13. \A other \in st.live \ {id} : Before(new, other, id)
  BY <1>1, <1>3 DEF Before
<1>14. \A a, b \in Ids \ {id} : Before(new, a, b) <=> Before(st, a, b)
  BY <1>3 DEF Before
<1>. QED  BY <1>2, <1>12, <1>13, <1>14 DEF new

-----------------------------------------------------------------------------
(* The budget.                                                             *)

Older(st, id) == {other \in Parked(st) : Before(st, other, id)}

(* Parked sessions are ranked by their last use.                           *)
LEMMA RankOf ==
  ASSUME NEW st, Sound(st)
  PROVE  /\ Parked(st) \subseteq st.live /\ Cardinality(Parked(st)) \in Nat
         /\ \A id \in Parked(st) : /\ Cardinality(Older(st, id)) \in Nat
                                   /\ Cardinality(Older(st, id)) < Cardinality(Parked(st))
         /\ \A id, other \in Parked(st) :
              Before(st, id, other) => Cardinality(Older(st, id)) < Cardinality(Older(st, other))
<1>1. Parked(st) \subseteq st.live /\ Parked(st) \subseteq Ids
  BY DEF Parked, Sound, Listed, NoSession
<1>2. IsFiniteSet(Parked(st)) /\ Cardinality(Parked(st)) \in Nat
  BY <1>1, SessionsAssumption, FS_Subset, FS_CardinalityType
<1>3. \A a : ~Before(st, a, a)
  BY DEF Sound, LastUsedOrders, Before
<1>4. ASSUME NEW id
      PROVE  IsFiniteSet(Older(st, id)) /\ Cardinality(Older(st, id)) \in Nat
  <2>1. Older(st, id) \in SUBSET Parked(st)
    BY DEF Older
  <2>. QED  BY <1>2, <2>1, FS_Subset, FS_CardinalityType
<1>5. ASSUME NEW T, IsFiniteSet(T), NEW id \in T, NEW r, r \subseteq T \ {id}
      PROVE  Cardinality(r) \in Nat /\ Cardinality(T) \in Nat /\ Cardinality(r) < Cardinality(T)
  <2>1. IsFiniteSet(T \ {id}) /\ Cardinality(T \ {id}) = Cardinality(T) - 1
    BY <1>5, FS_RemoveElement
  <2>2. r \in SUBSET (T \ {id})
    BY <1>5
  <2>3. IsFiniteSet(r) /\ Cardinality(r) <= Cardinality(T \ {id})
    BY <2>1, <2>2, FS_Subset
  <2>4. Cardinality(r) \in Nat /\ Cardinality(T) \in Nat
    BY <1>5, <2>3, FS_CardinalityType
  <2>. QED  BY <2>1, <2>3, <2>4
<1>6. ASSUME NEW id \in Parked(st)
      PROVE  Cardinality(Older(st, id)) < Cardinality(Parked(st))
  <2>1. Older(st, id) \subseteq Parked(st) \ {id}
    BY <1>3 DEF Older
  <2>. QED  BY <1>2, <1>5, <2>1
<1>7. ASSUME NEW id \in Parked(st), NEW other \in Parked(st), Before(st, id, other)
      PROVE  Cardinality(Older(st, id)) < Cardinality(Older(st, other))
  <2>1. id \in Older(st, other)
    BY <1>7 DEF Older
  <2>2. \A a \in Parked(st) : Before(st, a, id) => Before(st, a, other)
    BY <1>1, <1>7 DEF Sound, LastUsedOrders
  <2>3. Older(st, id) \subseteq Older(st, other) \ {id}
    BY <1>3, <2>2 DEF Older
  <2>. QED  BY <1>4, <1>5, <2>1, <2>3
<1>. QED  BY <1>1, <1>2, <1>4, <1>6, <1>7

(* A dropped session has neither blob nor tokens.                          *)
LEMMA DropOf ==
  ASSUME NEW st, Sound(st), NEW n
  PROVE  /\ Sound(Drop(st, n)) /\ Drop(st, n).live = st.live
         /\ Drop(st, n).before = st.before /\ Drop(st, n).owner = st.owner
         /\ Oldest(st, n) \subseteq Parked(st) /\ Parked(st) \subseteq Ids
         /\ \A id \in Ids : Drop(st, n).map[id] =
              IF id \in Oldest(st, n)
              THEN [tokens |-> <<>>, slot |-> st.map[id].slot, parked |-> <<>>]
              ELSE st.map[id]
<1>1. PICK out : out = Oldest(st, n)
  OBVIOUS
<1>2. st \in StoreType
  BY DEF Sound
<1>3. out \subseteq Parked(st) /\ Parked(st) \subseteq Ids
  BY <1>1 DEF Oldest, Parked
<1>4. PICK m : m = [id \in Ids |-> IF id \in out
                                  THEN [tokens |-> <<>>, slot |-> st.map[id].slot, parked |-> <<>>]
                                  ELSE st.map[id]]
  OBVIOUS
<1>5. \A id \in Ids : [st.map[id] EXCEPT !.parked = <<>>, !.tokens = <<>>]
                        = [tokens |-> <<>>, slot |-> st.map[id].slot, parked |-> <<>>]
  <2>1. ASSUME NEW s \in Session
        PROVE  [s EXCEPT !.parked = <<>>, !.tokens = <<>>]
                 = [tokens |-> <<>>, slot |-> s.slot, parked |-> <<>>]
    <3>1. PICK e : e = [s EXCEPT !.parked = <<>>, !.tokens = <<>>]
      OBVIOUS
    <3>2. e \in Session
      BY <3>1, EmptyFits DEF Session
    <3>3. e.tokens = <<>> /\ e.slot = s.slot /\ e.parked = <<>>
      BY <3>1 DEF Session
    <3>. QED  BY <3>1, <3>2, <3>3, SessionIs
  <2>. QED  BY <1>2, <2>1, SessionOf
<1>6. Drop(st, n) = [st EXCEPT !.map = m]
  BY <1>1, <1>4, <1>5 DEF Drop
<1>7. m \in [Ids -> Session]
  <2>1. ASSUME NEW id \in Ids
        PROVE  m[id] \in Session
    <3>1. [tokens |-> <<>>, slot |-> st.map[id].slot, parked |-> <<>>] \in Session
      BY <1>2, EmptyFits, SessionOf DEF Session
    <3>. QED  BY <1>2, <1>4, <3>1, SessionOf
  <2>. QED  BY <1>4, <2>1
<1>8. PICK new : new = [st EXCEPT !.map = m]
  OBVIOUS
<1>9. /\ new \in StoreType /\ new.map = m /\ new.live = st.live
      /\ new.before = st.before /\ new.owner = st.owner
  BY <1>2, <1>7, <1>8 DEF StoreType
<1>10. LastUsedOrders(new)
  BY <1>9 DEF Sound, LastUsedOrders, Before
<1>11. \A id \in Ids : id \in out => st.map[id].slot = 0 /\ id \in st.live
  BY <1>3, RankOf DEF Sound, Owned, Parked
<1>12. Listed(new)
  BY <1>4, <1>9, <1>11 DEF Sound, Listed
<1>13. Owned(new) /\ Measured(new)
  BY <1>4, <1>9, <1>11 DEF Sound, Owned, Measured
<1>14. Sound(new)
  BY <1>9, <1>10, <1>12, <1>13 DEF Sound
<1>. QED  BY <1>1, <1>3, <1>4, <1>6, <1>8, <1>9, <1>14

(* What enforce_budget makes of a store: the least recent are dropped      *)
(* until the budget is met, and none that need not go.                     *)
Enforced(st, new) ==
  /\ Sound(new) /\ ParkedBytes(new) <= RamBudget
  /\ new.live = st.live /\ new.before = st.before /\ new.owner = st.owner
  /\ \E out \in SUBSET Parked(st) :
       /\ \A id \in Ids : new.map[id] =
            IF id \in out
            THEN [tokens |-> <<>>, slot |-> st.map[id].slot, parked |-> <<>>]
            ELSE st.map[id]
       /\ \A id \in out, other \in Parked(st) \ out : Before(st, id, other)
       /\ out # {} => \E id \in out : ParkedBytes(new) + Len(st.map[id].tokens) > RamBudget

(* enforce_budget keeps its promise.                                       *)
LEMMA EnforceOf ==
  ASSUME NEW st, Sound(st)
  PROVE  Enforced(st, EnforceBudget(st))
<1>. DEFINE N == {n \in Rounds(st) : ParkedBytes(Drop(st, n)) <= RamBudget}
            size == Cardinality(Parked(st))
<1>1. size \in Nat /\ st \in StoreType /\ RamBudget \in Nat
  BY RankOf, SessionsAssumption DEF Sound
<1>2. ASSUME NEW n
      PROVE  /\ Drop(st, n) \in StoreType /\ ParkedBytes(Drop(st, n)) \in Nat
             /\ Oldest(st, n) \subseteq Parked(st) /\ Parked(st) \subseteq Ids
             /\ \A id \in Ids : Len(Drop(st, n).map[id].parked) =
                  IF id \in Oldest(st, n) THEN 0 ELSE Len(st.map[id].parked)
  <2>1. Drop(st, n) \in StoreType
    BY DropOf DEF Sound
  <2>2. Len(<<>>) = 0
    BY EmptySeq
  <2>3. ASSUME NEW id \in Ids, id \in Oldest(st, n)
        PROVE  Drop(st, n).map[id].parked = <<>>
    <3>1. Drop(st, n).map[id] = [tokens |-> <<>>, slot |-> st.map[id].slot, parked |-> <<>>]
      BY <2>3, DropOf
    <3>. QED  BY <3>1
  <2>4. \A id \in Ids : Len(Drop(st, n).map[id].parked) =
          IF id \in Oldest(st, n) THEN 0 ELSE Len(st.map[id].parked)
    BY <2>2, <2>3, DropOf
  <2>. QED  BY <2>1, <2>4, BytesOf, DropOf
<1>3. size \in N
  <2>1. size \in Rounds(st)
    BY <1>1 DEF Rounds
  <2>2. Oldest(st, size) = Parked(st)
    BY RankOf DEF Oldest, Older
  <2>3. \A id \in Ids : Len(Drop(st, size).map[id].parked) = 0
    <3>1. \A id \in Ids \ Parked(st) : Len(st.map[id].parked) = 0
      BY <1>1, SessionOf DEF Parked
    <3>. QED  BY <1>2, <2>2, <3>1
  <2>4. ParkedBytes(Drop(st, size)) = 0
    BY <1>2, <2>3, BytesOf
  <2>. QED  BY <1>1, <2>1, <2>4
<1>4. N \subseteq Nat
  BY <1>1 DEF Rounds
<1>5. PICK m \in N : m = Min(N) /\ \A n \in N : m <= n
  <2>. HIDE DEF N
  <2>. QED  BY <1>3, <1>4, MinOfSet
<1>6. m \in Nat /\ m <= size /\ ParkedBytes(Drop(st, m)) <= RamBudget
  BY <1>1, <1>5 DEF Rounds
<1>7. EnforceBudget(st) = Drop(st, m)
  BY <1>5 DEF EnforceBudget
<1>8. PICK out : out = Oldest(st, m)
  OBVIOUS
<1>9. \A id \in out, other \in Parked(st) \ out : Before(st, id, other)
  <2>1. SUFFICES ASSUME NEW id \in out, NEW other \in Parked(st) \ out, ~Before(st, id, other)
                 PROVE  FALSE
    OBVIOUS
  <2>2. id \in Parked(st) /\ Cardinality(Older(st, id)) < m /\ ~(Cardinality(Older(st, other)) < m)
    BY <1>8 DEF Oldest, Older
  <2>3. id \in st.live /\ other \in st.live /\ id # other
    BY <2>2, RankOf
  <2>4. Before(st, other, id)
    BY <2>1, <2>3 DEF Sound, LastUsedOrders
  <2>5. Cardinality(Older(st, other)) < Cardinality(Older(st, id))
    BY <2>2, <2>4, RankOf
  <2>6. Cardinality(Older(st, other)) \in Nat /\ Cardinality(Older(st, id)) \in Nat
    BY <2>2, RankOf
  <2>. QED  BY <1>6, <2>2, <2>5, <2>6
<1>10. ASSUME out # {}
       PROVE  \E id \in out : ParkedBytes(Drop(st, m)) + Len(st.map[id].tokens) > RamBudget
  <2>1. PICK any \in out : TRUE
    BY <1>10
  <2>2. any \in Parked(st) /\ Cardinality(Older(st, any)) < m
    BY <1>8 DEF Oldest, Older
  <2>3. m - 1 \in Nat /\ m - 1 \in Rounds(st)
    BY <1>1, <1>6, <2>2, RankOf DEF Rounds
  <2>4. PICK k \in Nat : k = m - 1 /\ k \in Rounds(st)
    BY <2>3
  <2>5. ~(ParkedBytes(Drop(st, k)) <= RamBudget)
    <3>1. k \notin N
      <4>. HIDE DEF N
      <4>. QED  BY <1>5, <1>6, <2>4
    <3>. QED  BY <2>4, <3>1
  <2>6. \A id \in Parked(st) :
          /\ id \in Oldest(st, k) <=> Cardinality(Older(st, id)) < k
          /\ id \in out <=> Cardinality(Older(st, id)) < m
          /\ Cardinality(Older(st, id)) \in Nat
    BY <1>8, RankOf DEF Oldest, Older
  <2>7. Oldest(st, k) \subseteq out
    BY <1>2, <1>6, <2>4, <2>6
  <2>8. PICK e \in out : e \notin Oldest(st, k)
    <3>1. SUFFICES ASSUME out = Oldest(st, k)
                   PROVE  FALSE
      BY <2>7
    <3>2. Drop(st, k) = Drop(st, m)
      BY <1>8, <3>1 DEF Drop
    <3>. QED  BY <1>6, <2>5, <3>2
  <2>9. e \in Parked(st) /\ e \in Ids /\ Cardinality(Older(st, e)) = k
    BY <1>2, <1>6, <1>8, <2>4, <2>6, <2>8
  <2>10. \A id \in out : id # e => id \in Oldest(st, k)
    <3>1. SUFFICES ASSUME NEW id \in out, id # e, id \notin Oldest(st, k)
                   PROVE  FALSE
      OBVIOUS
    <3>2. id \in Parked(st) /\ Cardinality(Older(st, id)) = k
      <4>1. id \in Parked(st)
        BY <1>2, <1>8
      <4>. QED  BY <1>6, <2>4, <2>6, <3>1, <4>1
    <3>3. Before(st, id, e) \/ Before(st, e, id)
      BY <2>9, <3>1, <3>2, RankOf DEF Sound, LastUsedOrders
    <3>4. k < k
      BY <2>9, <3>2, <3>3, RankOf
    <3>. QED  BY <2>4, <3>4
  <2>11. /\ Len(Drop(st, m).map[e].parked) = 0
         /\ \A id \in Ids : id # e =>
              Len(Drop(st, m).map[id].parked) = Len(Drop(st, k).map[id].parked)
         /\ Len(Drop(st, k).map[e].parked) = Len(st.map[e].parked)
    BY <1>2, <1>8, <2>7, <2>8, <2>9, <2>10
  <2>12. ParkedBytes(Drop(st, k)) = ParkedBytes(Drop(st, m)) + Len(st.map[e].parked)
    BY <1>2, <2>9, <2>11, BytesOf
  <2>13. Len(st.map[e].parked) = Len(st.map[e].tokens)
    BY <2>9 DEF Sound, Measured, Parked
  <2>14. ParkedBytes(Drop(st, k)) > RamBudget
    BY <1>1, <1>2, <2>5
  <2>. QED  BY <2>8, <2>12, <2>13, <2>14
<1>11. /\ Sound(Drop(st, m)) /\ Drop(st, m).live = st.live
       /\ Drop(st, m).before = st.before /\ Drop(st, m).owner = st.owner
       /\ out \in SUBSET Parked(st)
       /\ \A id \in Ids : Drop(st, m).map[id] =
            IF id \in out
            THEN [tokens |-> <<>>, slot |-> st.map[id].slot, parked |-> <<>>]
            ELSE st.map[id]
  BY <1>8, DropOf
<1>. QED  BY <1>6, <1>7, <1>9, <1>10, <1>11 DEF Enforced

-----------------------------------------------------------------------------
(* Slots.                                                                  *)

(* The store with one session's entry, and the slot owners, replaced.      *)
Revise(st, id, s, o) ==
  [map |-> [st.map EXCEPT ![id] = s], live |-> st.live, before |-> st.before, owner |-> o]

(* A session that is replaced keeps the store sound if its slot, and the   *)
(* slots of the others, have them as owners.                               *)
LEMMA ReviseOf ==
  ASSUME NEW st, Sound(st), NEW id \in Ids, NEW s \in Session, id \in st.live \/ s = NoSession,
         NEW o \in [SessionSlots -> Ids \cup {NoId}],
         \A other \in Ids \ {id} : st.map[other].slot # 0 => o[st.map[other].slot] = other,
         s.slot # 0 => o[s.slot] = id /\ s.parked = <<>>,
         s.parked # <<>> => Len(s.parked) = Len(s.tokens)
  PROVE  /\ Sound(Revise(st, id, s, o)) /\ Revise(st, id, s, o).map[id] = s
         /\ Revise(st, id, s, o).live = st.live /\ Revise(st, id, s, o).before = st.before
         /\ Revise(st, id, s, o).owner = o
         /\ \A other \in Ids \ {id} : Revise(st, id, s, o).map[other] = st.map[other]
<1>1. PICK new : new = Revise(st, id, s, o)
  OBVIOUS
<1>2. /\ new.map = [st.map EXCEPT ![id] = s] /\ new.live = st.live
      /\ new.before = st.before /\ new.owner = o
  BY <1>1 DEF Revise
<1>3. st \in StoreType /\ st.map \in [Ids -> Session]
  BY DEF Sound, StoreType
<1>4. new.map[id] = s /\ \A other \in Ids \ {id} : new.map[other] = st.map[other]
  BY <1>2, <1>3
<1>5. new \in StoreType
  <2>1. new.map \in [Ids -> Session]
    BY <1>2, <1>3
  <2>2. st.live \in SUBSET Ids /\ st.before \in SUBSET (Ids \X Ids)
    BY <1>3 DEF StoreType
  <2>. QED  BY <1>1, <1>2, <2>1, <2>2 DEF StoreType, Revise
<1>6. LastUsedOrders(new)
  BY <1>2 DEF Sound, LastUsedOrders, Before
<1>7. Listed(new)
  BY <1>2, <1>4 DEF Sound, Listed
<1>8. Owned(new) /\ Measured(new)
  BY <1>2, <1>4 DEF Sound, Owned, Measured
<1>. QED  BY <1>1, <1>2, <1>4, <1>5, <1>6, <1>7, <1>8 DEF Sound

(* A store that differs in one session and in the owners is a revision.    *)
LEMMA RevisionIs ==
  ASSUME NEW st \in StoreType, NEW id \in Ids, NEW new \in StoreType,
         new.live = st.live, new.before = st.before,
         \A other \in Ids \ {id} : new.map[other] = st.map[other]
  PROVE  new = Revise(st, id, new.map[id], new.owner)
<1>1. new = [map |-> new.map, live |-> new.live, before |-> new.before, owner |-> new.owner]
  BY DEF StoreType
<1>2. new.map = [st.map EXCEPT ![id] = new.map[id]]
  BY DEF StoreType
<1>. QED  BY <1>1, <1>2 DEF Revise

(* What the operations make of a session's entry.                          *)
Taken(st, id, blob) ==
  [st EXCEPT !.map[id].parked = blob]
Committed(st, id, tokens) ==
  [st EXCEPT !.map[id].tokens = tokens]
Begun(st, id, slot, n) ==
  [st EXCEPT !.map[id].slot = slot, !.map[id].tokens = SubSeq(@, 1, n)]
Unslotted(st, id, blob, k) ==
  [st EXCEPT !.map[id].parked = blob, !.map[id].slot = 0, !.owner[k] = NoId]

(* A blob that is taken.                                                    *)
LEMMA TakeRevises ==
  ASSUME NEW st \in StoreType, NEW id \in Ids, NEW blob \in Blobs
  PROVE  Taken(st, id, blob)
           = Revise(st, id, [tokens |-> st.map[id].tokens, slot |-> st.map[id].slot, parked |-> blob],
                    st.owner)
<1>1. PICK o : o = st.owner
  OBVIOUS
<1>2. PICK new : new = [st EXCEPT !.map[id].parked = blob]
  OBVIOUS
<1>3. st.map \in [Ids -> Session] /\ st.map[id] \in Session /\ 0 \in Slots
  BY SessionIs DEF StoreType, NoSession, Session
<1>4. /\ new \in StoreType /\ new.map[id] \in Session /\ new.live = st.live
      /\ new.before = st.before /\ new.owner = o
      /\ \A other \in Ids \ {id} : new.map[other] = st.map[other]
  BY <1>1, <1>2, <1>3 DEF StoreType, Session
<1>5. /\ new.map[id].tokens = st.map[id].tokens /\ new.map[id].slot = st.map[id].slot
      /\ new.map[id].parked = blob
  BY <1>2, <1>3 DEF StoreType, Session
<1>6. new.map[id] = [tokens |-> st.map[id].tokens, slot |-> st.map[id].slot, parked |-> blob]
  <2>1. PICK s : s = new.map[id]
    OBVIOUS
  <2>. QED  BY <1>4, <1>5, <2>1, SessionIs
<1>7. new = Revise(st, id, new.map[id], o)
  BY <1>4, RevisionIs
<1>. QED  BY <1>1, <1>2, <1>6, <1>7 DEF Taken

(* Tokens that are committed.                                               *)
LEMMA CommitRevises ==
  ASSUME NEW st \in StoreType, NEW id \in Ids, NEW tokens \in Contexts
  PROVE  Committed(st, id, tokens)
           = Revise(st, id, [tokens |-> tokens, slot |-> st.map[id].slot, parked |-> st.map[id].parked],
                    st.owner)
<1>1. PICK o : o = st.owner
  OBVIOUS
<1>2. PICK new : new = [st EXCEPT !.map[id].tokens = tokens]
  OBVIOUS
<1>3. st.map \in [Ids -> Session] /\ st.map[id] \in Session /\ 0 \in Slots
  BY SessionIs DEF StoreType, NoSession, Session
<1>4. /\ new \in StoreType /\ new.map[id] \in Session /\ new.live = st.live
      /\ new.before = st.before /\ new.owner = o
      /\ \A other \in Ids \ {id} : new.map[other] = st.map[other]
  BY <1>1, <1>2, <1>3 DEF StoreType, Session
<1>5. /\ new.map[id].tokens = tokens /\ new.map[id].slot = st.map[id].slot
      /\ new.map[id].parked = st.map[id].parked
  BY <1>2, <1>3 DEF StoreType, Session
<1>6. new.map[id] = [tokens |-> tokens, slot |-> st.map[id].slot, parked |-> st.map[id].parked]
  <2>1. PICK s : s = new.map[id]
    OBVIOUS
  <2>. QED  BY <1>4, <1>5, <2>1, SessionIs
<1>7. new = Revise(st, id, new.map[id], o)
  BY <1>4, RevisionIs
<1>. QED  BY <1>1, <1>2, <1>6, <1>7 DEF Committed

(* A session that gets its slot.                                            *)
LEMMA BeginRevises ==
  ASSUME NEW st \in StoreType, NEW id \in Ids, NEW slot \in Slots, NEW n,
         SubSeq(st.map[id].tokens, 1, n) \in Contexts
  PROVE  Begun(st, id, slot, n)
           = Revise(st, id, [tokens |-> SubSeq(st.map[id].tokens, 1, n), slot |-> slot,
                    parked |-> st.map[id].parked],
                    st.owner)
<1>1. PICK o : o = st.owner
  OBVIOUS
<1>2. PICK new : new = [st EXCEPT !.map[id].slot = slot, !.map[id].tokens = SubSeq(@, 1, n)]
  OBVIOUS
<1>3. st.map \in [Ids -> Session] /\ st.map[id] \in Session /\ 0 \in Slots
  BY SessionIs DEF StoreType, NoSession, Session
<1>4. /\ new \in StoreType /\ new.map[id] \in Session /\ new.live = st.live
      /\ new.before = st.before /\ new.owner = o
      /\ \A other \in Ids \ {id} : new.map[other] = st.map[other]
  BY <1>1, <1>2, <1>3 DEF StoreType, Session
<1>5. /\ new.map[id].tokens = SubSeq(st.map[id].tokens, 1, n) /\ new.map[id].slot = slot
      /\ new.map[id].parked = st.map[id].parked
  BY <1>2, <1>3 DEF StoreType, Session
<1>6. new.map[id] = [tokens |-> SubSeq(st.map[id].tokens, 1, n), slot |-> slot,
                    parked |-> st.map[id].parked]
  <2>1. PICK s : s = new.map[id]
    OBVIOUS
  <2>. QED  BY <1>4, <1>5, <2>1, SessionIs
<1>7. new = Revise(st, id, new.map[id], o)
  BY <1>4, RevisionIs
<1>. QED  BY <1>1, <1>2, <1>6, <1>7 DEF Begun

(* A session that gives it up.                                              *)
LEMMA ParkRevises ==
  ASSUME NEW st \in StoreType, NEW id \in Ids, NEW blob \in Blobs, NEW k \in SessionSlots
  PROVE  Unslotted(st, id, blob, k)
           = Revise(st, id, [tokens |-> st.map[id].tokens, slot |-> 0, parked |-> blob],
                    [st.owner EXCEPT ![k] = NoId])
<1>1. PICK o : o = [st.owner EXCEPT ![k] = NoId]
  OBVIOUS
<1>2. PICK new : new = [st EXCEPT !.map[id].parked = blob, !.map[id].slot = 0, !.owner[k] = NoId]
  OBVIOUS
<1>3. st.map \in [Ids -> Session] /\ st.map[id] \in Session /\ 0 \in Slots
  BY SessionIs DEF StoreType, NoSession, Session
<1>4. /\ new \in StoreType /\ new.map[id] \in Session /\ new.live = st.live
      /\ new.before = st.before /\ new.owner = o
      /\ \A other \in Ids \ {id} : new.map[other] = st.map[other]
  BY <1>1, <1>2, <1>3 DEF StoreType, Session
<1>5. /\ new.map[id].tokens = st.map[id].tokens /\ new.map[id].slot = 0
      /\ new.map[id].parked = blob
  BY <1>2, <1>3 DEF StoreType, Session
<1>6. new.map[id] = [tokens |-> st.map[id].tokens, slot |-> 0, parked |-> blob]
  <2>1. PICK s : s = new.map[id]
    OBVIOUS
  <2>. QED  BY <1>4, <1>5, <2>1, SessionIs
<1>7. new = Revise(st, id, new.map[id], o)
  BY <1>4, RevisionIs
<1>. QED  BY <1>1, <1>2, <1>6, <1>7 DEF Unslotted

(* A store in which id was parked, and the contexts in out given up: the   *)
(* least recent ones, and none that the budget has room for.               *)
Yielded(st, id, new, out) ==
  /\ \A other \in Ids :
       /\ new.map[other].slot = IF other = id THEN 0 ELSE st.map[other].slot
       /\ other \in out => new.map[other] = NoSession /\ st.map[other].tokens # <<>>
       /\ other \notin out => new.map[other].tokens = st.map[other].tokens
       /\ other \notin out /\ other # id => new.map[other] = st.map[other]
       /\ other \in out /\ other # id => st.map[other].parked # <<>>
  /\ \A one \in out, other \in Ids : new.map[other].parked # <<>> => Before(st, one, other)
  /\ out # {} => \E one \in out : ParkedBytes(new) + Len(st.map[one].tokens) > RamBudget

(* A session that is parked frees its slot; what it held is in its blob,   *)
(* unless the budget drops it.                                             *)
LEMMA ParkOf ==
  ASSUME NEW st, Sound(st), NEW id \in Ids, st.map[id].slot # 0, kv \in [Slots -> Row]
  PROVE  LET new == Park(st, id)
         IN  /\ Sound(new) /\ ParkedBytes(new) <= RamBudget
             /\ new.live = st.live /\ new.before = st.before
             /\ new.owner = [st.owner EXCEPT ![st.map[id].slot] = NoId]
             /\ \E out \in SUBSET st.live : Yielded(st, id, new, out)
             /\ Honest(st, kv) => Honest(new, kv)
<1>1. PICK s : s = st.map[id]
  OBVIOUS
<1>2. /\ st \in StoreType /\ s \in Session /\ s.slot \in SessionSlots /\ s.slot \in Slots
      /\ st.owner[s.slot] = id /\ s.parked = <<>>
      /\ s.tokens \in Seq(Tokens) /\ Len(s.tokens) \in Nat /\ Len(s.tokens) <= MaxSeq
      /\ s.tokens \in Contexts
  BY <1>1, SessionOf DEF Sound, Owned
<1>3. id \in st.live
  <2>1. s # NoSession
    BY <1>1 DEF NoSession
  <2>. QED  BY <1>1, <2>1 DEF Sound, Listed
<1>4. kv[s.slot] \in Row
  BY <1>2
<1>5. PICK blob : blob = Export(kv[s.slot], Len(s.tokens))
  OBVIOUS
<1>6. /\ blob \in Blobs /\ Len(blob) = Len(s.tokens)
      /\ \A i \in 1 .. Len(s.tokens) : blob[i] = kv[s.slot][i - 1]
  BY <1>2, <1>4, <1>5, ExportOf
<1>7. PICK p : p = [tokens |-> s.tokens, slot |-> 0, parked |-> blob]
  OBVIOUS
<1>8. p \in Session /\ p.tokens = s.tokens /\ p.slot = 0 /\ p.parked = blob
  BY <1>2, <1>6, <1>7, SessionIs DEF NoSession, Session
<1>9. PICK o : o = [st.owner EXCEPT ![s.slot] = NoId]
  OBVIOUS
<1>10. o \in [SessionSlots -> Ids \cup {NoId}]
  BY <1>2, <1>9 DEF StoreType
<1>11. ASSUME NEW other \in Ids \ {id}, st.map[other].slot # 0
       PROVE  o[st.map[other].slot] = other
  <2>1. st.owner[st.map[other].slot] = other /\ st.map[other].slot \in SessionSlots
    BY <1>2, <1>11, SessionOf DEF Sound, Owned
  <2>2. st.map[other].slot # s.slot
    BY <1>2, <2>1
  <2>. QED  BY <1>2, <1>9, <2>1, <2>2 DEF StoreType
<1>12. PICK mid : mid = Revise(st, id, p, o)
  OBVIOUS
<1>13. /\ Sound(mid) /\ mid.map[id] = p /\ mid.live = st.live /\ mid.before = st.before
       /\ mid.owner = o /\ \A other \in Ids \ {id} : mid.map[other] = st.map[other]
  BY <1>3, <1>6, <1>8, <1>10, <1>11, <1>12, ReviseOf
<1>14. Park(st, id) = EnforceBudget(mid)
  <2>1. PICK slot \in SessionSlots : slot = st.map[id].slot
    BY <1>1, <1>2
  <2>2. Unslotted(st, id, blob, slot)
          = Revise(st, id, [tokens |-> st.map[id].tokens, slot |-> 0, parked |-> blob],
                   [st.owner EXCEPT ![slot] = NoId])
    BY <1>2, <1>6, ParkRevises
  <2>3. Park(st, id) = EnforceBudget(Unslotted(st, id, blob, slot))
    BY <1>1, <1>5, <2>1 DEF Park, Unslotted
  <2>. QED  BY <1>1, <1>7, <1>9, <1>12, <2>1, <2>2, <2>3
<1>15. PICK new : new = Park(st, id)
  OBVIOUS
<1>16. Enforced(mid, new)
  BY <1>13, <1>14, <1>15, EnforceOf
<1>17. PICK out \in SUBSET Parked(mid) :
            /\ \A other \in Ids : new.map[other] =
                 IF other \in out
                 THEN [tokens |-> <<>>, slot |-> mid.map[other].slot, parked |-> <<>>]
                 ELSE mid.map[other]
            /\ \A one \in out, other \in Parked(mid) \ out : Before(mid, one, other)
            /\ out # {} => \E one \in out :
                 ParkedBytes(new) + Len(mid.map[one].tokens) > RamBudget
  BY <1>16 DEF Enforced
<1>18. \A other \in Ids : mid.map[other].tokens = st.map[other].tokens
  BY <1>1, <1>8, <1>13
<1>19. out \in SUBSET st.live /\ out \subseteq Ids
  BY <1>13, <1>17, RankOf DEF Parked
<1>20. ASSUME NEW other \in out
       PROVE  /\ new.map[other] = NoSession /\ st.map[other].tokens # <<>>
              /\ other # id => st.map[other].parked # <<>>
  <2>1. other \in Ids /\ mid.map[other].parked # <<>>
    BY <1>17, <1>20 DEF Parked
  <2>2. mid.map[other].slot = 0 /\ Len(mid.map[other].parked) = Len(mid.map[other].tokens)
    BY <1>13, <2>1 DEF Sound, Owned, Measured
  <2>3. new.map[other] = NoSession
    BY <1>17, <1>20, <2>1, <2>2 DEF NoSession
  <2>4. Len(mid.map[other].parked) # 0 /\ Len(<<>>) = 0
    BY <1>13, <2>1, SessionOf DEF Sound
  <2>5. mid.map[other].tokens # <<>>
    BY <2>2, <2>4
  <2>. QED  BY <1>13, <1>18, <2>1, <2>3, <2>5
<1>21. ASSUME NEW other \in Ids
       PROVE  /\ new.map[other].slot = IF other = id THEN 0 ELSE st.map[other].slot
              /\ other \notin out => new.map[other].tokens = st.map[other].tokens
              /\ other \notin out /\ other # id => new.map[other] = st.map[other]
  <2>1. new.map[other].slot = mid.map[other].slot
    <3>1. CASE other \in out
      <4>1. new.map[other] = [tokens |-> <<>>, slot |-> mid.map[other].slot, parked |-> <<>>]
        BY <1>17, <3>1
      <4>. QED  BY <4>1
    <3>2. CASE other \notin out
      BY <1>17, <3>2
    <3>. QED  BY <3>1, <3>2
  <2>2. mid.map[other].slot = IF other = id THEN 0 ELSE st.map[other].slot
    BY <1>8, <1>13
  <2>. QED  BY <1>13, <1>17, <1>18, <2>1, <2>2
<1>22. ASSUME NEW one \in out, NEW other \in Ids, new.map[other].parked # <<>>
       PROVE  Before(st, one, other)
  <2>1. other \notin out
    BY <1>20, <1>22 DEF NoSession
  <2>2. other \in Parked(mid)
    BY <1>17, <1>22, <2>1 DEF Parked
  <2>3. Before(mid, one, other)
    BY <1>17, <2>1, <2>2
  <2>. QED  BY <1>13, <2>3 DEF Before
<1>23. out # {} => \E one \in out : ParkedBytes(new) + Len(st.map[one].tokens) > RamBudget
  BY <1>17, <1>18, <1>19
<1>24. ASSUME Honest(st, kv)
       PROVE  Honest(new, kv)
  <2>1. Holds(kv[s.slot], s.tokens)
    BY <1>1, <1>24 DEF Honest
  <2>2. \A i \in 1 .. Len(s.tokens) : blob[i] = SubSeq(s.tokens, 1, i)
    BY <1>6, <2>1 DEF Holds
  <2>3. ASSUME NEW other \in Ids
        PROVE  /\ new.map[other].slot # 0 => Holds(kv[new.map[other].slot], new.map[other].tokens)
               /\ new.map[other].parked # <<>> =>
                    \A i \in 1 .. Len(new.map[other].tokens) :
                      new.map[other].parked[i] = SubSeq(new.map[other].tokens, 1, i)
    <3>1. CASE other \in out
      BY <1>20, <3>1 DEF NoSession
    <3>2. CASE other \notin out /\ other # id
      BY <1>21, <1>24, <3>2 DEF Honest
    <3>3. CASE other \notin out /\ other = id
      <4>1. new.map[other] = p
        BY <1>13, <1>17, <3>3
      <4>. QED  BY <1>8, <2>2, <4>1
    <3>. QED  BY <3>1, <3>2, <3>3
  <2>. QED  BY <2>3 DEF Honest
<1>25. /\ new.live = st.live /\ new.before = st.before
       /\ new.owner = [st.owner EXCEPT ![st.map[id].slot] = NoId]
  BY <1>1, <1>9, <1>13, <1>16 DEF Enforced
<1>26. Sound(new) /\ ParkedBytes(new) <= RamBudget
  BY <1>16 DEF Enforced
<1>27. Yielded(st, id, new, out)
  BY <1>19, <1>20, <1>21, <1>22, <1>23 DEF Yielded
<1>. QED  BY <1>15, <1>19, <1>24, <1>25, <1>26, <1>27

(* A granted slot was free: no session has it but the new owner.           *)
LEMMA GrantOf ==
  ASSUME NEW st, Sound(st), NEW id \in Ids, st.map[id].slot = 0, FreeSlots(st) # {}
  PROVE  /\ Grant(st, id).slot \in SessionSlots /\ Sound(Grant(st, id).store)
         /\ Grant(st, id).store.map = st.map /\ Grant(st, id).store.live = st.live
         /\ Grant(st, id).store.before = st.before
         /\ Grant(st, id).store.owner[Grant(st, id).slot] = id
         /\ \A other \in Ids : st.map[other].slot # Grant(st, id).slot
<1>1. FreeSlots(st) \subseteq Nat /\ FreeSlots(st) \subseteq SessionSlots
  BY SessionsAssumption DEF FreeSlots, SessionSlots, Slots
<1>2. PICK s \in FreeSlots(st) : s = Min(FreeSlots(st))
  BY <1>1, MinOfSet
<1>3. s \in SessionSlots /\ st.owner[s] = NoId
  BY <1>1, <1>2 DEF FreeSlots
<1>4. PICK o : o = [st.owner EXCEPT ![s] = id]
  OBVIOUS
<1>5. st \in StoreType /\ st.owner \in [SessionSlots -> Ids \cup {NoId}]
  BY DEF Sound, StoreType
<1>6. o \in [SessionSlots -> Ids \cup {NoId}] /\ o[s] = id
  BY <1>3, <1>4, <1>5
<1>7. PICK new : new = [st EXCEPT !.owner[s] = id]
  OBVIOUS
<1>8. new \in StoreType /\ new.map = st.map /\ new.live = st.live /\ new.before = st.before
      /\ new.owner = o
  BY <1>3, <1>4, <1>5, <1>7 DEF StoreType
<1>9. new = Revise(st, id, st.map[id], o)
  BY <1>5, <1>8, RevisionIs
<1>10. ASSUME NEW other \in Ids, st.map[other].slot # 0
       PROVE  o[st.map[other].slot] = other /\ st.map[other].slot # s
  <2>1. st.owner[st.map[other].slot] = other /\ st.map[other].slot \in SessionSlots
    BY <1>5, <1>10, SessionOf DEF Sound, Owned
  <2>2. st.map[other].slot # s
    BY <1>3, <2>1, SessionsAssumption
  <2>. QED  BY <1>3, <1>4, <1>5, <2>1, <2>2
<1>11. st.map[id] \in Session /\ (id \in st.live \/ st.map[id] = NoSession)
       /\ (st.map[id].parked # <<>> => Len(st.map[id].parked) = Len(st.map[id].tokens))
  BY <1>5, SessionOf DEF Sound, Listed, Measured
<1>12. Sound(new)
  <2>1. PICK e \in Session : e = st.map[id] /\ e.slot = 0 /\ (id \in st.live \/ e = NoSession)
                             /\ (e.parked # <<>> => Len(e.parked) = Len(e.tokens))
    BY <1>11
  <2>. QED  BY <1>6, <1>9, <1>10, <2>1, ReviseOf
<1>13. Grant(st, id) = [store |-> new, slot |-> s]
  BY <1>2, <1>7 DEF Grant
<1>14. \A other \in Ids : st.map[other].slot # s
  BY <1>3, <1>10 DEF SessionSlots
<1>15. Grant(st, id).store = new /\ Grant(st, id).slot = s
  BY <1>13
<1>. QED  BY <1>3, <1>6, <1>8, <1>12, <1>14, <1>15

(* What claim_slot promises: a slot that is the claimer's alone, if any;   *)
(* who lost one was the least recent, and contexts are given up for the    *)
(* budget only, the least recent first.                                    *)
Claimed(st, id, claim) ==
  /\ Sound(claim.store) /\ ParkedBytes(claim.store) <= RamBudget
  /\ claim.store.live = st.live /\ claim.store.before = st.before
  /\ claim.store.map[id] = st.map[id] /\ claim.slot \in Slots
  /\ claim.slot # 0 => /\ claim.store.owner[claim.slot] = id
                       /\ \A other \in Ids : claim.store.map[other].slot # claim.slot
  /\ \A other \in Ids :
       st.map[other].slot # 0 /\ claim.store.map[other].slot = 0 =>
         FreeSlots(st) = {} /\ \A s \in SessionSlots : ~Before(st, st.owner[s], other)
  /\ \E out \in SUBSET (st.live \ {id}) :
       /\ \A other \in Ids :
            /\ other \in out => claim.store.map[other] = NoSession /\ st.map[other].tokens # <<>>
            /\ other \notin out => claim.store.map[other].tokens = st.map[other].tokens
       /\ \A one \in out, other \in Ids :
            claim.store.map[other].parked # <<>> => Before(st, one, other)
       /\ out # {} => \E one \in out :
            ParkedBytes(claim.store) + Len(st.map[one].tokens) > RamBudget
  /\ Honest(st, kv) => Honest(claim.store, kv)

(* A claim that parks nobody.                                              *)
LEMMA ClaimedSame ==
  ASSUME NEW st, NEW id \in Ids, NEW claim,
         Sound(claim.store), ParkedBytes(st) <= RamBudget, claim.store.map = st.map,
         claim.store.live = st.live, claim.store.before = st.before, claim.slot \in Slots,
         claim.slot # 0 => /\ claim.store.owner[claim.slot] = id
                           /\ \A other \in Ids : st.map[other].slot # claim.slot
  PROVE  Claimed(st, id, claim)
<1>1. ParkedBytes(claim.store) <= RamBudget
  BY DEF ParkedBytes
<1>2. {} \in SUBSET (st.live \ {id})
  OBVIOUS
<1>3. Honest(st, kv) => Honest(claim.store, kv)
  BY DEF Honest
<1>4. \E out \in SUBSET (st.live \ {id}) :
       /\ \A other \in Ids :
            /\ other \in out => claim.store.map[other] = NoSession /\ st.map[other].tokens # <<>>
            /\ other \notin out => claim.store.map[other].tokens = st.map[other].tokens
       /\ \A one \in out, other \in Ids :
            claim.store.map[other].parked # <<>> => Before(st, one, other)
       /\ out # {} => \E one \in out :
            ParkedBytes(claim.store) + Len(st.map[one].tokens) > RamBudget
  BY <1>2
<1>. QED  BY <1>1, <1>3, <1>4 DEF Claimed

(* claim_slot keeps its promise.                                           *)
LEMMA ClaimOf ==
  ASSUME NEW st, Sound(st), NEW id \in Ids, st.map[id].slot = 0, st.map[id].parked = <<>>,
         ParkedBytes(st) <= RamBudget, kv \in [Slots -> Row], NEW claim \in ClaimSlot(st, id)
  PROVE  Claimed(st, id, claim)
<1>1. 0 \in Slots /\ SessionSlots \subseteq Slots
  BY SessionsAssumption DEF Slots, SessionSlots
<1>2. CASE FreeSlots(st) # {}
  <2>1. claim = Grant(st, id)
    BY <1>2 DEF ClaimSlot
  <2>. QED  BY <1>1, <1>2, <2>1, GrantOf, ClaimedSame
<1>3. CASE FreeSlots(st) = {}
  <2>1. PICK victim \in LeastRecent(st, {st.owner[s] : s \in SessionSlots}) :
               claim \in Evictions(st, id, victim)
    BY <1>3 DEF ClaimSlot
  <2>2. CASE claim = Refused(st)
    <3>1. claim.store = st /\ claim.slot = 0
      BY <2>2 DEF Refused
    <3>. QED  BY <1>1, <3>1, ClaimedSame
  <2>3. CASE claim # Refused(st)
    <3>1. st.map[victim].slot # 0 /\ claim = Grant(Park(st, victim), id)
      BY <2>1, <2>3 DEF Evictions
    <3>2. st \in StoreType
      BY DEF Sound
    <3>3. PICK at \in SessionSlots : victim = st.owner[at]
      BY <2>1 DEF LeastRecent
    <3>4. victim \in Ids /\ victim # id
      BY <1>3, <3>1, <3>2, <3>3 DEF FreeSlots, StoreType
    <3>5. victim \in st.live
      BY <3>1, <3>4 DEF Sound, Listed, NoSession
    <3>6. ASSUME NEW s \in SessionSlots
          PROVE  ~Before(st, st.owner[s], victim)
      <4>1. SUFFICES ASSUME Before(st, st.owner[s], victim)
                     PROVE  FALSE
        OBVIOUS
      <4>2. st.owner[s] \in st.live /\ st.owner[s] # victim
        BY <4>1 DEF Before, Sound, LastUsedOrders
      <4>3. Before(st, victim, st.owner[s])
        BY <2>1, <3>5, <4>2 DEF LeastRecent
      <4>. QED  BY <3>5, <4>1, <4>2, <4>3 DEF Sound, LastUsedOrders
    <3>7. PICK new : new = Park(st, victim)
      OBVIOUS
    <3>8. /\ Sound(new) /\ ParkedBytes(new) <= RamBudget
          /\ new.live = st.live /\ new.before = st.before
          /\ new.owner = [st.owner EXCEPT ![st.map[victim].slot] = NoId]
          /\ Honest(st, kv) => Honest(new, kv)
      BY <3>1, <3>4, <3>7, ParkOf
    <3>9. PICK out \in SUBSET st.live : Yielded(st, victim, new, out)
      BY <3>1, <3>4, <3>7, ParkOf
    <3>10. id \notin out /\ new.map[id] = st.map[id]
      BY <3>4, <3>9 DEF Yielded
    <3>11. FreeSlots(new) # {}
      <4>1. st.map[victim].slot \in SessionSlots
        BY <3>1, <3>2, <3>4, SessionOf
      <4>2. new.owner[st.map[victim].slot] = NoId
        BY <3>2, <3>8, <4>1 DEF StoreType
      <4>. QED  BY <4>1, <4>2 DEF FreeSlots
    <3>12. PICK got : got = claim.store
      OBVIOUS
    <3>13. /\ claim.slot \in SessionSlots /\ Sound(got) /\ got.map = new.map
           /\ got.live = st.live /\ got.before = st.before
           /\ got.owner[claim.slot] = id
           /\ \A other \in Ids : new.map[other].slot # claim.slot
      BY <3>1, <3>7, <3>8, <3>10, <3>11, <3>12, GrantOf
    <3>14. ParkedBytes(got) = ParkedBytes(new)
      BY <3>13 DEF ParkedBytes
    <3>15. Honest(st, kv) => Honest(got, kv)
      BY <3>8, <3>13 DEF Honest
    <3>16. \A other \in Ids :
             st.map[other].slot # 0 /\ got.map[other].slot = 0 =>
               FreeSlots(st) = {} /\ \A s \in SessionSlots : ~Before(st, st.owner[s], other)
      BY <1>3, <3>6, <3>9, <3>13 DEF Yielded
    <3>17. out \in SUBSET (st.live \ {id})
      BY <3>9, <3>10
    <3>18. /\ \A other \in Ids :
                /\ other \in out => got.map[other] = NoSession /\ st.map[other].tokens # <<>>
                /\ other \notin out => got.map[other].tokens = st.map[other].tokens
           /\ \A one \in out, other \in Ids :
                got.map[other].parked # <<>> => Before(st, one, other)
           /\ out # {} => \E one \in out :
                ParkedBytes(got) + Len(st.map[one].tokens) > RamBudget
      BY <3>9, <3>13, <3>14 DEF Yielded
    <3>. QED  BY <1>1, <3>8, <3>10, <3>12, <3>13, <3>14, <3>15, <3>16, <3>17, <3>18 DEF Claimed
  <2>. QED  BY <2>2, <2>3
<1>. QED  BY <1>2, <1>3

-----------------------------------------------------------------------------
(* Requests.                                                               *)

(* What the turn's record is.                                              *)
TurnType ==
  /\ turn \in [id : Ids \cup {NoId}, slot : Slots, ctx : Seq(Tokens), pos : Nat]
  /\ turn.pos <= Len(turn.ctx) /\ turn.pos <= MaxSeq

(* A turn runs in the slot of its session, behind the tokens the session   *)
(* claims, or in slot 0.                                                   *)
TurnHolds ==
  IF turn.id = NoId THEN turn.slot = 0
  ELSE /\ turn.id \in store.live /\ store.map[turn.id].slot = turn.slot /\ turn.slot # 0
       /\ Len(store.map[turn.id].tokens) <= turn.pos

(* The inductive invariant, whatever batches do.                           *)
IInv == Sound(store) /\ BudgetKept /\ kv \in [Slots -> Row] /\ TurnType /\ TurnHolds

(* With what the KV holds, when batches leave the slots of sessions alone. *)
HInv == IInv /\ Honest(store, kv) /\ TurnOnOwnContext

(* ParksLeastRecent and DropsOldestForBudget, of one step.                 *)
ParksStep ==
  \A id \in store.live \cap store'.live :
    store.map[id].slot # 0 /\ store'.map[id].slot = 0 =>
      /\ FreeSlots(store) = {}
      /\ \A s \in SessionSlots : ~Before(store', store.owner[s], id)
DropsStep ==
  Dropped # {} =>
    /\ \E id \in Dropped : ParkedBytes(store') + Len(store.map[id].tokens) > RamBudget
    /\ \A id \in Dropped, other \in store'.live :
         store'.map[other].parked # <<>> => Before(store', id, other)

(* A turn begins in its session's slot, behind the prefix it reuses.       *)
LEMMA BeginOf ==
  ASSUME NEW st, Sound(st), ParkedBytes(st) <= RamBudget, NEW id \in Ids, id \in st.live,
         NEW slot \in SessionSlots, st.owner[slot] = id, st.map[id].parked = <<>>,
         NEW n \in Nat, n <= Len(st.map[id].tokens),
         NEW prompt \in Seq(Tokens), n <= Len(prompt), Begin(st, id, slot, n, prompt)
  PROVE  /\ Sound(store') /\ BudgetKept' /\ TurnType' /\ TurnHolds'
         /\ store'.live = st.live /\ store'.before = st.before
         /\ store'.map[id] = [tokens |-> SubSeq(st.map[id].tokens, 1, n), slot |-> slot,
                              parked |-> <<>>]
         /\ \A other \in Ids \ {id} : store'.map[other] = st.map[other]
         /\ turn' = [id |-> id, slot |-> slot, ctx |-> prompt, pos |-> n]
<1>1. PICK tokens : tokens = st.map[id].tokens
  OBVIOUS
<1>2. /\ st \in StoreType /\ tokens \in Seq(Tokens) /\ Len(tokens) \in Nat
      /\ Len(tokens) <= MaxSeq /\ MaxSeq \in Nat /\ slot \in Slots /\ slot # 0
      /\ n <= Len(tokens)
  BY <1>1, SessionOf, SessionsAssumption DEF Sound, SessionSlots
<1>3. n <= MaxSeq
  BY <1>2
<1>4. PICK front : front = SubSeq(tokens, 1, n)
  OBVIOUS
<1>5. front \in Seq(Tokens) /\ Len(front) = n
  BY <1>2, <1>4, FrontOf
<1>6. front \in Contexts
  BY <1>3, <1>5, ContextsAre
<1>7. PICK s : s = [tokens |-> front, slot |-> slot, parked |-> <<>>]
  OBVIOUS
<1>8. s \in Session /\ s.tokens = front /\ s.slot = slot /\ s.parked = <<>>
  BY <1>2, <1>6, <1>7, EmptyFits DEF Session
<1>9. PICK new : new = store'
  OBVIOUS
<1>10. new = Begun(st, id, slot, n) /\ turn' = [id |-> id, slot |-> slot, ctx |-> prompt, pos |-> n]
  BY <1>9 DEF Begin, Begun
<1>11. new = Revise(st, id, s, st.owner)
  BY <1>1, <1>2, <1>4, <1>6, <1>7, <1>10, BeginRevises
<1>12. st.owner \in [SessionSlots -> Ids \cup {NoId}]
       /\ \A other \in Ids \ {id} : st.map[other].slot # 0 => st.owner[st.map[other].slot] = other
  BY <1>2 DEF StoreType, Sound, Owned
<1>13. /\ Sound(new) /\ new.map[id] = s /\ new.live = st.live /\ new.before = st.before
       /\ \A other \in Ids \ {id} : new.map[other] = st.map[other]
  BY <1>8, <1>11, <1>12, ReviseOf
<1>14. ParkedBytes(new) <= RamBudget
  <2>1. \A other \in Ids : Len(new.map[other].parked) <= Len(st.map[other].parked)
    <3>1. \A other \in Ids : new.map[other].parked = st.map[other].parked
      BY <1>8, <1>13
    <3>2. \A other \in Ids : Len(st.map[other].parked) \in Nat
      BY <1>2, SessionOf
    <3>. QED  BY <3>1, <3>2
  <2>2. ParkedBytes(new) <= ParkedBytes(st) /\ ParkedBytes(new) \in Nat /\ ParkedBytes(st) \in Nat
    BY <1>2, <1>13, <2>1, BytesOf DEF Sound
  <2>. QED  BY <2>2, SessionsAssumption
<1>15. TurnType'
  BY <1>2, <1>3, <1>10 DEF TurnType
<1>16. id # NoId
  BY SessionsAssumption
<1>17. TurnHolds'
  BY <1>2, <1>5, <1>8, <1>9, <1>10, <1>13, <1>16 DEF TurnHolds
<1>. QED  BY <1>1, <1>4, <1>7, <1>9, <1>10, <1>13, <1>14, <1>15, <1>17 DEF BudgetKept

(* A session that is touched and loses its blob.                           *)
LEMMA TakeOf ==
  ASSUME NEW old, Sound(old), ParkedBytes(old) <= RamBudget, NEW id \in Ids
  PROVE  LET st == Taken(Touch(old, id), id, <<>>)
         IN  /\ Sound(st) /\ ParkedBytes(st) <= RamBudget
             /\ st.live = old.live \cup {id} /\ st.owner = old.owner
             /\ st.map[id] = [tokens |-> old.map[id].tokens, slot |-> old.map[id].slot,
                              parked |-> <<>>]
             /\ \A other \in Ids \ {id} : st.map[other] = old.map[other]
             /\ Honest(old, kv) => Honest(st, kv)
<1>1. PICK mid : mid = Touch(old, id)
  OBVIOUS
<1>2. /\ Sound(mid) /\ mid.map = old.map /\ mid.owner = old.owner
      /\ mid.live = old.live \cup {id} /\ mid \in StoreType
  BY <1>1, TouchOf DEF Sound
<1>3. PICK s : s = [tokens |-> old.map[id].tokens, slot |-> old.map[id].slot, parked |-> <<>>]
  OBVIOUS
<1>4. /\ s \in Session /\ s.tokens = old.map[id].tokens /\ s.slot = old.map[id].slot
      /\ s.parked = <<>>
  <2>1. old.map[id].tokens \in Contexts /\ old.map[id].slot \in Slots
    BY SessionOf DEF Sound
  <2>. QED  BY <1>3, <2>1, EmptyFits DEF Session
<1>5. PICK st : st = Taken(mid, id, <<>>)
  OBVIOUS
<1>6. st = Revise(mid, id, s, mid.owner)
  BY <1>2, <1>3, <1>5, EmptyFits, TakeRevises
<1>7. /\ mid.owner \in [SessionSlots -> Ids \cup {NoId}]
      /\ \A other \in Ids : mid.map[other].slot # 0 => mid.owner[mid.map[other].slot] = other
  BY <1>2 DEF StoreType, Sound, Owned
<1>8. /\ Sound(st) /\ st.map[id] = s /\ st.live = mid.live /\ st.owner = mid.owner
      /\ \A other \in Ids \ {id} : st.map[other] = mid.map[other]
  BY <1>2, <1>4, <1>6, <1>7, ReviseOf
<1>9. ParkedBytes(st) <= RamBudget
  <2>1. ASSUME NEW other \in Ids
        PROVE  Len(st.map[other].parked) <= Len(old.map[other].parked)
    <3>1. Len(old.map[other].parked) \in Nat /\ Len(<<>>) = 0
      BY SessionOf, EmptySeq DEF Sound
    <3>2. st.map[other].parked = old.map[other].parked \/ st.map[other].parked = <<>>
      BY <1>2, <1>4, <1>8
    <3>. QED  BY <3>1, <3>2
  <2>2. ParkedBytes(st) <= ParkedBytes(old) /\ ParkedBytes(st) \in Nat /\ ParkedBytes(old) \in Nat
    BY <1>8, <2>1, BytesOf DEF Sound
  <2>. QED  BY <2>2, SessionsAssumption
<1>10. Honest(old, kv) => Honest(st, kv)
  BY <1>2, <1>4, <1>8 DEF Honest
<1>. QED  BY <1>1, <1>2, <1>3, <1>5, <1>8, <1>9, <1>10

(* A store after a claim: the least recent gives way, for room only.       *)
LEMMA ClaimSteps ==
  ASSUME Sound(store), Sound(store'), NEW id \in Ids, store.map[id].slot = 0,
         NEW st, Sound(st), st.live = store.live \cup {id}, st.owner = store.owner,
         \A other \in Ids : st.map[other].tokens = store.map[other].tokens,
         \A other \in Ids \ {id} : st.map[other] = store.map[other],
         NEW claim, Claimed(st, id, claim), store'.live = st.live, store'.before = st.before,
         \A other \in Ids \ {id} : store'.map[other] = claim.store.map[other],
         store'.map[id].parked = <<>>, claim.store.map[id].parked = <<>>,
         store.map[id].tokens # <<>> => store'.map[id] # NoSession
  PROVE  ParksStep /\ DropsStep
<1>1. PICK new : new = store'
  OBVIOUS
<1>2. store.live \subseteq Ids /\ st.live \subseteq Ids
  BY DEF Sound, LastUsedOrders
<1>3. ParksStep
  <2>1. SUFFICES ASSUME NEW other \in store.live \cap store'.live,
                        store.map[other].slot # 0, store'.map[other].slot = 0
                 PROVE  /\ FreeSlots(store) = {}
                        /\ \A s \in SessionSlots : ~Before(store', store.owner[s], other)
    BY DEF ParksStep
  <2>2. other \in Ids \ {id}
    BY <1>2, <2>1
  <2>3. st.map[other].slot # 0 /\ claim.store.map[other].slot = 0
    BY <2>1, <2>2
  <2>4. FreeSlots(st) = {} /\ \A s \in SessionSlots : ~Before(st, st.owner[s], other)
    BY <2>2, <2>3 DEF Claimed
  <2>. QED  BY <2>4 DEF FreeSlots, Before
<1>4. PICK out \in SUBSET (st.live \ {id}) :
       /\ \A other \in Ids :
            /\ other \in out => claim.store.map[other] = NoSession /\ st.map[other].tokens # <<>>
            /\ other \notin out => claim.store.map[other].tokens = st.map[other].tokens
       /\ \A one \in out, other \in Ids :
            claim.store.map[other].parked # <<>> => Before(st, one, other)
       /\ out # {} => \E one \in out :
            ParkedBytes(claim.store) + Len(st.map[one].tokens) > RamBudget
  BY DEF Claimed
<1>5. out \subseteq Ids /\ id \notin out
  BY <1>2, <1>4
<1>6. Dropped \subseteq out
  <2>1. SUFFICES ASSUME NEW other \in Dropped, other \notin out
                 PROVE  FALSE
    OBVIOUS
  <2>2. other \in Ids /\ store.map[other].tokens # <<>> /\ store'.map[other] = NoSession
    BY <1>2, <2>1 DEF Dropped
  <2>3. other # id
    BY <2>2
  <2>4. claim.store.map[other].tokens = st.map[other].tokens
    BY <1>4, <2>1, <2>2
  <2>. QED  BY <2>2, <2>3, <2>4 DEF NoSession
<1>7. out \subseteq Dropped
  <2>1. SUFFICES ASSUME NEW other \in out
                 PROVE  other \in Dropped
    OBVIOUS
  <2>2. other \in Ids \ {id} /\ other \in store.live /\ other \in store'.live
    BY <1>4, <1>5
  <2>3. store.map[other].tokens # <<>> /\ store'.map[other] = NoSession
    BY <1>4, <2>2
  <2>. QED  BY <2>2, <2>3 DEF Dropped
<1>8. \A other \in Ids : store'.map[other].parked = claim.store.map[other].parked
  OBVIOUS
<1>9. ParkedBytes(store') = ParkedBytes(claim.store)
  BY <1>8 DEF ParkedBytes
<1>10. Dropped # {} => \E one \in Dropped :
         ParkedBytes(store') + Len(store.map[one].tokens) > RamBudget
  BY <1>4, <1>5, <1>6, <1>7, <1>9
<1>11. \A one \in Dropped, other \in store'.live :
         store'.map[other].parked # <<>> => Before(store', one, other)
  BY <1>2, <1>4, <1>6, <1>8 DEF Before
<1>12. DropsStep
  BY <1>10, <1>11 DEF DropsStep
<1>. QED  BY <1>3, <1>12

(* A session that gets its slot back, or keeps it, has the KV it claims.   *)
LEMMA BeginHonest ==
  ASSUME NEW st, Honest(st, kv), NEW id \in Ids, NEW slot \in SessionSlots, NEW n,
         NEW prompt, SubSeq(prompt, 1, n) = SubSeq(st.map[id].tokens, 1, n),
         \A other \in Ids \ {id} : st.map[other].slot # slot,
         \A s \in Slots \ {slot} : kv'[s] = kv[s],
         Holds(kv'[slot], SubSeq(st.map[id].tokens, 1, n)),
         \A other \in Ids : st.map[other].slot \in Slots,
         store'.map[id] = [tokens |-> SubSeq(st.map[id].tokens, 1, n), slot |-> slot,
                           parked |-> <<>>],
         \A other \in Ids \ {id} : store'.map[other] = st.map[other],
         turn' = [id |-> id, slot |-> slot, ctx |-> prompt, pos |-> n]
  PROVE  Honest(store, kv)' /\ TurnOnOwnContext'
<1>1. ASSUME NEW other \in Ids
      PROVE  /\ store'.map[other].slot # 0 =>
                  Holds(kv'[store'.map[other].slot], store'.map[other].tokens)
             /\ store'.map[other].parked # <<>> =>
                  \A i \in 1 .. Len(store'.map[other].tokens) :
                    store'.map[other].parked[i] = SubSeq(store'.map[other].tokens, 1, i)
  <2>1. CASE other = id
    <3>1. /\ store'.map[other].tokens = SubSeq(st.map[id].tokens, 1, n)
          /\ store'.map[other].slot = slot /\ store'.map[other].parked = <<>>
      BY <2>1
    <3>. QED  BY <3>1
  <2>2. CASE other # id
    <3>1. kv'[st.map[other].slot] = kv[st.map[other].slot]
      BY <2>2
    <3>. QED  BY <2>2, <3>1 DEF Honest
  <2>. QED  BY <2>1, <2>2
<1>2. Honest(store, kv)'
  BY <1>1 DEF Honest
<1>3. TurnOnOwnContext'
  <2>1. turn'.slot = slot /\ turn'.ctx = prompt /\ turn'.pos = n
    OBVIOUS
  <2>. QED  BY <2>1 DEF TurnOnOwnContext
<1>. QED  BY <1>2, <1>3

(* acquire of a session that has its slot.                                 *)
LEMMA ResidentStep ==
  ASSUME IInv, NEW id \in Ids, NEW prompt \in Prompts, AcquireResident(id, prompt)
  PROVE  IInv' /\ ParksStep /\ DropsStep /\ (HInv => Honest(store, kv)' /\ TurnOnOwnContext')
<1>1. PICK st : st = Touch(store, id)
  OBVIOUS
<1>2. /\ Sound(store) /\ Sound(st) /\ st.map = store.map /\ st.owner = store.owner
      /\ st.live = store.live \cup {id}
  BY <1>1, TouchOf DEF IInv
<1>3. PICK slot : slot = st.map[id].slot
  OBVIOUS
<1>4. PICK n : n = Reuse(st, id, prompt)
  OBVIOUS
<1>5. slot # 0 /\ Begin(st, id, slot, n, prompt) /\ kv' = kv /\ turn = NoTurn
  BY <1>1, <1>3, <1>4 DEF AcquireResident, Idle
<1>6. /\ slot \in SessionSlots /\ st.owner[slot] = id /\ st.map[id].parked = <<>>
      /\ st.map[id].tokens \in Seq(Tokens) /\ \A other \in Ids : st.map[other].slot \in Slots
  BY <1>2, <1>3, <1>5, SessionOf DEF Sound, Owned
<1>7. prompt \in Seq(Tokens) /\ prompt # <<>>
  BY SessionsAssumption
<1>8. /\ n \in Nat /\ n <= Len(st.map[id].tokens) /\ n <= Len(prompt)
      /\ SubSeq(st.map[id].tokens, 1, n) = SubSeq(prompt, 1, n)
  BY <1>4, <1>6, <1>7, ReuseOf
<1>9. ParkedBytes(st) <= RamBudget
  BY <1>2 DEF IInv, BudgetKept, ParkedBytes
<1>10. /\ Sound(store') /\ BudgetKept' /\ TurnType' /\ TurnHolds'
       /\ store'.live = st.live /\ store'.before = st.before
       /\ store'.map[id] = [tokens |-> SubSeq(st.map[id].tokens, 1, n), slot |-> slot,
                            parked |-> <<>>]
       /\ \A other \in Ids \ {id} : store'.map[other] = st.map[other]
       /\ turn' = [id |-> id, slot |-> slot, ctx |-> prompt, pos |-> n]
  <2>1. Sound(st)
    BY <1>2
  <2>2. id \in st.live
    BY <1>2
  <2>3. slot \in SessionSlots
    BY <1>6
  <2>4. st.owner[slot] = id /\ st.map[id].parked = <<>>
    BY <1>6
  <2>5. n \in Nat
    BY <1>8
  <2>6. n <= Len(st.map[id].tokens) /\ n <= Len(prompt)
    BY <1>8
  <2>7. prompt \in Seq(Tokens)
    BY <1>7
  <2>8. Begin(st, id, slot, n, prompt)
    BY <1>5
  <2>. QED  BY <1>9, <2>1, <2>2, <2>3, <2>4, <2>5, <2>6, <2>7, <2>8, BeginOf
<1>11. IInv'
  BY <1>5, <1>10 DEF IInv
<1>12. store.live \subseteq Ids /\ store'.map[id].slot = slot
  BY <1>2, <1>10 DEF Sound, LastUsedOrders
<1>13. ParksStep
  BY <1>2, <1>5, <1>10, <1>12 DEF ParksStep
<1>14. Dropped = {}
  <2>1. SUFFICES ASSUME NEW other \in Dropped
                 PROVE  FALSE
    OBVIOUS
  <2>2. other \in Ids /\ store.map[other].tokens # <<>> /\ store'.map[other] = NoSession
    BY <1>12, <2>1 DEF Dropped
  <2>. QED  BY <1>2, <1>5, <1>10, <1>12, <2>2 DEF NoSession
<1>15. DropsStep
  BY <1>14 DEF DropsStep
<1>16. ASSUME HInv
       PROVE  Honest(store, kv)' /\ TurnOnOwnContext'
  <2>1. Honest(st, kv)
    BY <1>2, <1>16 DEF HInv, Honest
  <2>2. Holds(kv[slot], st.map[id].tokens)
    BY <1>3, <1>5, <2>1 DEF Honest
  <2>3. Holds(kv'[slot], SubSeq(st.map[id].tokens, 1, n))
    BY <1>5, <1>6, <1>8, <2>2, HoldsFront
  <2>4. \A other \in Ids \ {id} : st.map[other].slot # slot
    BY <1>2, <1>5, <1>6 DEF Sound, Owned
  <2>. QED  BY <1>5, <1>6, <1>8, <1>10, <2>1, <2>3, <2>4, BeginHonest
<1>. QED  BY <1>11, <1>13, <1>15, <1>16

(* Between turns there is nothing to hold.                                 *)
LEMMA IdleHolds ==
  ASSUME turn' = NoTurn
  PROVE  TurnType' /\ TurnHolds' /\ TurnOnOwnContext'
<1>1. turn'.id = NoId /\ turn'.slot = 0 /\ turn'.ctx = <<>> /\ turn'.pos = 0
  BY DEF NoTurn
<1>2. 0 \in Slots /\ MaxSeq \in Nat
  BY SessionsAssumption DEF Slots
<1>3. <<>> \in Seq(Tokens) /\ Len(<<>>) = 0
  BY EmptySeq
<1>4. TurnType'
  BY <1>1, <1>2, <1>3 DEF TurnType, NoTurn
<1>5. TurnHolds'
  BY <1>1 DEF TurnHolds
<1>6. SubSeq(<<>>, 1, 0) = <<>>
  BY <1>3, SubSeqEmpty
<1>7. TurnOnOwnContext'
  BY <1>1, <1>3, <1>6, HoldsNothing DEF TurnOnOwnContext
<1>. QED  BY <1>4, <1>5, <1>7

(* acquire of a session that has no slot.                                  *)
LEMMA AcquireStep ==
  ASSUME IInv, NEW id \in Ids, NEW prompt \in Prompts, Acquire(id, prompt)
  PROVE  IInv' /\ ParksStep /\ DropsStep /\ (HInv => Honest(store, kv)' /\ TurnOnOwnContext')
<1>1. PICK s : s = store.map[id]
  OBVIOUS
<1>2. PICK st : st = Taken(Touch(store, id), id, <<>>)
  OBVIOUS
<1>3. PICK n : n = Reuse(store, id, prompt)
  OBVIOUS
<1>4. PICK restore \in BOOLEAN : restore <=> s.parked # <<>> /\ n > 0
  OBVIOUS
<1>5. st = [Touch(store, id) EXCEPT !.map[id].parked = <<>>]
  BY <1>2 DEF Taken
<1>6. s.slot = 0 /\ turn = NoTurn
  BY <1>1 DEF Acquire, Idle
<1>7. PICK claim \in ClaimSlot(st, id) :
        \/ /\ claim.slot = 0
           /\ store' = claim.store
           /\ UNCHANGED <<kv, turn>>
        \/ /\ claim.slot # 0
           /\ restore
           /\ Len(s.parked) = Len(s.tokens)
           /\ Begin(claim.store, id, claim.slot, n, prompt)
           /\ kv' = [kv EXCEPT ![claim.slot] = Import(@, s.parked)]
        \/ /\ claim.slot # 0
           /\ ~restore
           /\ Begin(claim.store, id, claim.slot, 0, prompt)
           /\ UNCHANGED kv
        \/ /\ claim.slot # 0
           /\ restore
           /\ store' = claim.store
           /\ kv' = [kv EXCEPT ![claim.slot] = Torn(@, 0, Len(s.parked))]
           /\ UNCHANGED turn
  BY <1>1, <1>3, <1>4, <1>5 DEF Acquire
<1>8. PICK cs : cs = claim.store
  OBVIOUS
<1>9. PICK slot : slot = claim.slot
  OBVIOUS
<1>10. Sound(store) /\ ParkedBytes(store) <= RamBudget /\ kv \in [Slots -> Row]
  BY DEF IInv, BudgetKept
<1>11. /\ s \in Session /\ s.tokens \in Seq(Tokens) /\ Len(s.tokens) \in Nat
       /\ Len(s.tokens) <= MaxSeq /\ s.parked \in Blobs /\ Len(s.parked) \in Nat
  BY <1>1, <1>10, SessionOf DEF Sound
<1>12. PICK e : e = [tokens |-> s.tokens, slot |-> s.slot, parked |-> <<>>]
  OBVIOUS
<1>13. e.tokens = s.tokens /\ e.slot = 0 /\ e.parked = <<>>
  BY <1>6, <1>12
<1>14. /\ Sound(st) /\ ParkedBytes(st) <= RamBudget
       /\ st.live = store.live \cup {id} /\ st.owner = store.owner
       /\ st.map[id] = e
       /\ \A other \in Ids \ {id} : st.map[other] = store.map[other]
       /\ Honest(store, kv) => Honest(st, kv)
  BY <1>1, <1>2, <1>10, <1>12, TakeOf
<1>15. Claimed(st, id, claim)
  BY <1>10, <1>13, <1>14, ClaimOf
<1>16. /\ Sound(cs) /\ ParkedBytes(cs) <= RamBudget /\ cs.live = st.live
       /\ cs.before = st.before /\ cs.map[id] = e /\ slot \in Slots
       /\ Honest(st, kv) => Honest(cs, kv)
  BY <1>8, <1>9, <1>14, <1>15 DEF Claimed
<1>17. ASSUME slot # 0
       PROVE  /\ slot \in SessionSlots /\ cs.owner[slot] = id
              /\ \A other \in Ids : cs.map[other].slot # slot
  BY <1>8, <1>9, <1>15, <1>16, <1>17 DEF Claimed, SessionSlots
<1>18. \A other \in Ids : st.map[other].tokens = store.map[other].tokens
  BY <1>1, <1>13, <1>14
<1>19. prompt \in Seq(Tokens) /\ prompt # <<>>
  BY SessionsAssumption
<1>20. /\ n \in Nat /\ n <= Len(s.tokens) /\ n <= Len(prompt)
       /\ SubSeq(s.tokens, 1, n) = SubSeq(prompt, 1, n)
  BY <1>1, <1>3, <1>11, <1>19, ReuseOf
<1>21. id \in cs.live /\ cs.map[id].parked = <<>> /\ cs.map[id].tokens = s.tokens
  BY <1>13, <1>14, <1>16
<1>22. \A other \in Ids : cs.map[other].slot \in Slots
  BY <1>16, SessionOf DEF Sound
<1>23. ASSUME store' = cs
       PROVE  ParksStep /\ DropsStep
  <2>1. store.map[id].tokens # <<>> => store'.map[id] # NoSession
    BY <1>1, <1>13, <1>16, <1>23 DEF NoSession
  <2>2. Sound(store')
    BY <1>16, <1>23
  <2>3. store'.live = st.live /\ store'.before = st.before
    BY <1>16, <1>23
  <2>4. \A other \in Ids \ {id} : store'.map[other] = claim.store.map[other]
    BY <1>8, <1>23
  <2>5. store'.map[id].parked = <<>> /\ claim.store.map[id].parked = <<>>
    BY <1>8, <1>21, <1>23
  <2>6. store.map[id].slot = 0
    BY <1>1, <1>6
  <2>. QED  BY <1>10, <1>14, <1>15, <1>18, <2>1, <2>2, <2>3, <2>4, <2>5, <2>6, ClaimSteps
<1>24. ASSUME NEW m \in Nat, m <= Len(s.tokens), m <= Len(prompt), slot # 0,
              Begin(cs, id, slot, m, prompt)
       PROVE  /\ Sound(store') /\ BudgetKept' /\ TurnType' /\ TurnHolds'
              /\ store'.live = cs.live /\ store'.before = cs.before
              /\ store'.map[id] = [tokens |-> SubSeq(cs.map[id].tokens, 1, m), slot |-> slot,
                                   parked |-> <<>>]
              /\ \A other \in Ids \ {id} : store'.map[other] = cs.map[other]
              /\ turn' = [id |-> id, slot |-> slot, ctx |-> prompt, pos |-> m]
              /\ ParksStep /\ DropsStep
  <2>1. Sound(cs) /\ ParkedBytes(cs) <= RamBudget
    BY <1>16
  <2>2. id \in cs.live
    BY <1>21
  <2>3. slot \in SessionSlots
    BY <1>17, <1>24
  <2>4. cs.owner[slot] = id
    BY <1>17, <1>24
  <2>5. cs.map[id].parked = <<>>
    BY <1>21
  <2>6. m <= Len(cs.map[id].tokens)
    BY <1>21, <1>24
  <2>7. prompt \in Seq(Tokens)
    BY <1>19
  <2>8. /\ Sound(store') /\ BudgetKept' /\ TurnType' /\ TurnHolds'
        /\ store'.live = cs.live /\ store'.before = cs.before
        /\ store'.map[id] = [tokens |-> SubSeq(cs.map[id].tokens, 1, m), slot |-> slot,
                             parked |-> <<>>]
        /\ \A other \in Ids \ {id} : store'.map[other] = cs.map[other]
        /\ turn' = [id |-> id, slot |-> slot, ctx |-> prompt, pos |-> m]
    BY <1>24, <2>1, <2>2, <2>3, <2>4, <2>5, <2>6, <2>7, BeginOf
  <2>9. store'.map[id].slot = slot /\ store'.map[id].parked = <<>>
    BY <2>8
  <2>10. store'.map[id] # NoSession
    BY <1>24, <2>9 DEF NoSession
  <2>11. Sound(store')
    BY <2>8
  <2>12. store'.live = st.live /\ store'.before = st.before
    BY <1>16, <2>8
  <2>13. \A other \in Ids \ {id} : store'.map[other] = claim.store.map[other]
    BY <1>8, <2>8
  <2>14. store'.map[id].parked = <<>> /\ claim.store.map[id].parked = <<>>
    BY <1>8, <1>21, <2>9
  <2>15. store.map[id].slot = 0
    BY <1>1, <1>6
  <2>16. ParksStep /\ DropsStep
    BY <1>10, <1>14, <1>15, <1>18, <2>10, <2>11, <2>12, <2>13, <2>14, <2>15, ClaimSteps
  <2>. QED  BY <2>8, <2>16
<1>25. CASE claim.slot = 0 /\ store' = claim.store /\ UNCHANGED <<kv, turn>>
  <2>1. store' = cs /\ kv' = kv /\ turn' = NoTurn
    BY <1>6, <1>8, <1>25
  <2>2. IInv'
    BY <1>10, <1>16, <2>1, IdleHolds DEF IInv, BudgetKept
  <2>3. HInv => Honest(store, kv)'
    BY <1>14, <1>16, <2>1 DEF HInv, Honest
  <2>. QED  BY <1>23, <2>1, <2>2, <2>3, IdleHolds
<1>26. CASE /\ claim.slot # 0
            /\ restore
            /\ Len(s.parked) = Len(s.tokens)
            /\ Begin(claim.store, id, claim.slot, n, prompt)
            /\ kv' = [kv EXCEPT ![claim.slot] = Import(@, s.parked)]
  <2>1. slot # 0 /\ Begin(cs, id, slot, n, prompt)
    BY <1>8, <1>9, <1>26
  <2>2. kv' = [kv EXCEPT ![slot] = Import(kv[slot], s.parked)]
    BY <1>9, <1>26
  <2>3. slot \in SessionSlots /\ \A other \in Ids : cs.map[other].slot # slot
    BY <1>17, <2>1
  <2>4. Import(kv[slot], s.parked) \in Row
    BY <1>10, <1>11, <1>16, ImportOf
  <2>5. kv' \in [Slots -> Row] /\ kv'[slot] = Import(kv[slot], s.parked)
        /\ \A o \in Slots \ {slot} : kv'[o] = kv[o]
    BY <1>10, <1>16, <2>2, <2>4
  <2>6. /\ Sound(store') /\ BudgetKept' /\ TurnType' /\ TurnHolds'
        /\ store'.map[id] = [tokens |-> SubSeq(cs.map[id].tokens, 1, n), slot |-> slot,
                             parked |-> <<>>]
        /\ \A other \in Ids \ {id} : store'.map[other] = cs.map[other]
        /\ turn' = [id |-> id, slot |-> slot, ctx |-> prompt, pos |-> n]
        /\ ParksStep /\ DropsStep
    BY <1>20, <1>24, <2>1
  <2>7. IInv'
    BY <2>5, <2>6 DEF IInv
  <2>8. ASSUME HInv
        PROVE  Honest(store, kv)' /\ TurnOnOwnContext'
    <3>1. Honest(cs, kv)
      BY <1>14, <1>16, <2>8 DEF HInv
    <3>2. \A i \in 1 .. Len(s.tokens) : s.parked[i] = SubSeq(s.tokens, 1, i)
      BY <1>1, <1>4, <1>26, <2>8 DEF HInv, Honest
    <3>3. Holds(Import(kv[slot], s.parked), s.tokens)
      BY <1>10, <1>11, <1>16, <1>26, <3>2, ImportOf
    <3>4. Holds(kv'[slot], SubSeq(s.tokens, 1, n))
      BY <1>11, <1>20, <2>5, <3>3, HoldsFront
    <3>5. Holds(kv'[slot], SubSeq(cs.map[id].tokens, 1, n))
      BY <1>21, <3>4
    <3>6. SubSeq(prompt, 1, n) = SubSeq(cs.map[id].tokens, 1, n)
      BY <1>20, <1>21
    <3>7. slot \in SessionSlots
      BY <2>3
    <3>8. \A other \in Ids \ {id} : cs.map[other].slot # slot
      BY <2>3
    <3>9. \A o \in Slots \ {slot} : kv'[o] = kv[o]
      BY <2>5
    <3>10. store'.map[id] = [tokens |-> SubSeq(cs.map[id].tokens, 1, n), slot |-> slot,
                             parked |-> <<>>]
      BY <2>6
    <3>11. \A other \in Ids \ {id} : store'.map[other] = cs.map[other]
      BY <2>6
    <3>12. turn' = [id |-> id, slot |-> slot, ctx |-> prompt, pos |-> n]
      BY <2>6
    <3>. QED  BY <1>22, <3>1, <3>5, <3>6, <3>7, <3>8, <3>9, <3>10, <3>11, <3>12, BeginHonest
  <2>. QED  BY <2>6, <2>7, <2>8
<1>27. CASE /\ claim.slot # 0
            /\ ~restore
            /\ Begin(claim.store, id, claim.slot, 0, prompt)
            /\ UNCHANGED kv
  <2>1. PICK z \in Nat : z = 0
    OBVIOUS
  <2>2. slot # 0 /\ Begin(cs, id, slot, z, prompt) /\ kv' = kv
    BY <1>8, <1>9, <1>27, <2>1
  <2>3. slot \in SessionSlots /\ \A other \in Ids : cs.map[other].slot # slot
    BY <1>17, <2>2
  <2>4. z <= Len(s.tokens) /\ z <= Len(prompt)
    BY <1>11, <1>19, <2>1, LenProperties
  <2>5. /\ Sound(store') /\ BudgetKept' /\ TurnType' /\ TurnHolds'
        /\ store'.map[id] = [tokens |-> SubSeq(cs.map[id].tokens, 1, z), slot |-> slot,
                             parked |-> <<>>]
        /\ \A other \in Ids \ {id} : store'.map[other] = cs.map[other]
        /\ turn' = [id |-> id, slot |-> slot, ctx |-> prompt, pos |-> z]
        /\ ParksStep /\ DropsStep
    BY <1>24, <2>2, <2>4
  <2>6. IInv'
    BY <1>10, <2>2, <2>5 DEF IInv
  <2>7. ASSUME HInv
        PROVE  Honest(store, kv)' /\ TurnOnOwnContext'
    <3>1. Honest(cs, kv)
      BY <1>14, <1>16, <2>7 DEF HInv
    <3>2. SubSeq(prompt, 1, z) = <<>> /\ SubSeq(cs.map[id].tokens, 1, z) = <<>>
      BY <1>11, <1>19, <1>21, <2>1, SubSeqEmpty
    <3>3. Holds(kv'[slot], SubSeq(cs.map[id].tokens, 1, z))
      BY <1>19, <3>2, HoldsNothing
    <3>4. SubSeq(prompt, 1, z) = SubSeq(cs.map[id].tokens, 1, z)
      BY <3>2
    <3>5. \A o \in Slots \ {slot} : kv'[o] = kv[o]
      BY <2>2
    <3>. QED  BY <1>22, <2>3, <2>5, <3>1, <3>3, <3>4, <3>5, BeginHonest
  <2>. QED  BY <2>5, <2>6, <2>7
<1>28. CASE /\ claim.slot # 0
            /\ restore
            /\ store' = claim.store
            /\ kv' = [kv EXCEPT ![claim.slot] = Torn(@, 0, Len(s.parked))]
            /\ UNCHANGED turn
  <2>1. store' = cs /\ turn' = NoTurn /\ slot # 0
    BY <1>6, <1>8, <1>9, <1>28
  <2>2. kv' = [kv EXCEPT ![slot] = Torn(kv[slot], 0, Len(s.parked))]
    BY <1>9, <1>28
  <2>3. slot \in SessionSlots /\ \A other \in Ids : cs.map[other].slot # slot
    BY <1>17, <2>1
  <2>4. Torn(kv[slot], 0, Len(s.parked)) \in Row
    BY <1>10, <1>11, <1>16, TornType
  <2>5. kv' \in [Slots -> Row] /\ \A o \in Slots \ {slot} : kv'[o] = kv[o]
    BY <1>10, <1>16, <2>2, <2>4
  <2>6. IInv'
    BY <1>16, <2>1, <2>5, IdleHolds DEF IInv, BudgetKept
  <2>7. ASSUME HInv
        PROVE  Honest(store, kv)'
    <3>1. Honest(cs, kv)
      BY <1>14, <1>16, <2>7 DEF HInv
    <3>2. \A other \in Ids : kv'[cs.map[other].slot] = kv[cs.map[other].slot]
      BY <1>22, <2>3, <2>5
    <3>. QED  BY <2>1, <3>1, <3>2 DEF Honest
  <2>. QED  BY <1>23, <2>1, <2>6, <2>7, IdleHolds
<1>. QED  BY <1>7, <1>25, <1>26, <1>27, <1>28

(* A step that leaves the store alone parks and drops nothing.             *)
LEMMA SameStore ==
  ASSUME IInv, store' = store
  PROVE  Sound(store)' /\ BudgetKept' /\ ParksStep /\ DropsStep
<1>1. Dropped = {}
  BY DEF Dropped, NoSession
<1>. QED  BY <1>1 DEF IInv, BudgetKept, ParksStep, DropsStep

(* A request without a session.                                            *)
LEMMA AnonymousStep ==
  ASSUME IInv, NEW prompt \in AnonymousPrompts, BeginAnonymous(prompt)
  PROVE  IInv' /\ ParksStep /\ DropsStep /\ (HInv => Honest(store, kv)' /\ TurnOnOwnContext')
<1>1. store' = store /\ kv' = kv /\ turn' = [id |-> NoId, slot |-> 0, ctx |-> prompt, pos |-> 0]
  BY DEF BeginAnonymous
<1>2. prompt \in Seq(Tokens) /\ Len(prompt) \in Nat
  BY SessionsAssumption, LenProperties
<1>3. 0 \in Slots /\ MaxSeq \in Nat
  BY SessionsAssumption DEF Slots
<1>4. TurnType'
  BY <1>1, <1>2, <1>3 DEF TurnType
<1>5. TurnHolds'
  BY <1>1 DEF TurnHolds
<1>6. IInv'
  BY <1>1, <1>4, <1>5, SameStore DEF IInv
<1>7. HInv => Honest(store, kv)'
  BY <1>1 DEF HInv, Honest
<1>8. TurnOnOwnContext'
  <2>1. turn'.slot = 0 /\ turn'.ctx = prompt /\ turn'.pos = 0
    BY <1>1
  <2>2. Holds(kv'[0], SubSeq(prompt, 1, 0))
    BY <1>2, HoldsNothing
  <2>. QED  BY <2>1, <2>2 DEF TurnOnOwnContext
<1>. QED  BY <1>1, <1>6, <1>7, <1>8, SameStore

(* A turn writes behind what its session claims, and into no other slot.   *)
LEMMA TurnWrites ==
  ASSUME IInv, NEW row \in Row, kv' = [kv EXCEPT ![turn.slot] = row], store' = store,
         \A i \in Positions : i < turn.pos => row[i] = kv[turn.slot][i]
  PROVE  /\ kv' \in [Slots -> Row] /\ kv'[turn.slot] = row
         /\ Honest(store, kv) => Honest(store, kv)'
<1>1. turn.slot \in Slots /\ kv \in [Slots -> Row] /\ turn.pos \in Nat /\ Sound(store)
  BY DEF IInv, TurnType
<1>2. /\ kv' \in [Slots -> Row] /\ kv'[turn.slot] = row
      /\ \A s \in Slots \ {turn.slot} : kv'[s] = kv[s]
  BY <1>1
<1>3. ASSUME Honest(store, kv), NEW id \in Ids, store.map[id].slot # 0
      PROVE  Holds(kv'[store.map[id].slot], store.map[id].tokens)
  <2>1. PICK s : s = store.map[id]
    OBVIOUS
  <2>2. /\ s.slot \in Slots /\ s.slot # 0 /\ store.owner[s.slot] = id
        /\ s.tokens \in Seq(Tokens) /\ Len(s.tokens) \in Nat /\ Len(s.tokens) <= MaxSeq
    BY <1>1, <1>3, <2>1, SessionOf DEF Sound, Owned
  <2>3. Holds(kv[s.slot], s.tokens)
    BY <1>3, <2>1 DEF Honest
  <2>4. CASE s.slot # turn.slot
    BY <1>2, <2>1, <2>2, <2>3, <2>4
  <2>5. CASE s.slot = turn.slot
    <3>1. turn.id # NoId
      BY <2>2, <2>5 DEF IInv, TurnHolds
    <3>2. turn.id \in Ids
      BY <3>1 DEF IInv, TurnType
    <3>3. store.map[turn.id].slot = turn.slot /\ Len(store.map[turn.id].tokens) <= turn.pos
      BY <3>1 DEF IInv, TurnHolds
    <3>4. store.owner[turn.slot] = turn.id
      BY <1>1, <2>2, <2>5, <3>2, <3>3 DEF Sound, Owned
    <3>5. turn.id = id
      BY <2>2, <2>5, <3>4
    <3>6. Len(s.tokens) <= turn.pos
      BY <2>1, <3>3, <3>5
    <3>7. ASSUME NEW i \in 0 .. Len(s.tokens) - 1
          PROVE  row[i] = kv[turn.slot][i]
      <4>1. i \in Positions /\ i < turn.pos
        BY <1>1, <2>2, <3>6, SessionsAssumption DEF Positions
      <4>. QED  BY <4>1
    <3>8. Holds(kv[turn.slot], s.tokens)
      BY <2>3, <2>5
    <3>9. Holds(row, s.tokens)
      BY <2>2, <3>7, <3>8, HoldsSame
    <3>. QED  BY <1>2, <2>1, <2>5, <3>9
  <2>. QED  BY <2>4, <2>5
<1>4. Honest(store, kv) => Honest(store, kv)'
  BY <1>3 DEF Honest
<1>. QED  BY <1>2, <1>4

(* A piece of a context.                                                   *)
LEMMA PieceOf ==
  ASSUME NEW c \in Seq(Tokens), NEW pos \in Nat, NEW m \in Nat, pos <= m, m <= Len(c)
  PROVE  SubSeq(c, pos + 1, m) \in Seq(Tokens) /\ Len(SubSeq(c, pos + 1, m)) = m - pos
<1>1. pos + 1 \in Int /\ m \in Int /\ \A i \in pos + 1 .. m : c[i] \in Tokens
  BY LenProperties
<1>2. /\ SubSeq(c, pos + 1, m) \in Seq(Tokens)
      /\ Len(SubSeq(c, pos + 1, m)) = IF pos + 1 <= m THEN m - (pos + 1) + 1 ELSE 0
  BY <1>1, SubSeqProperties
<1>. QED  BY <1>2

(* A step of the decoder over the turn's context, from its position on.    *)
LEMMA RunStep ==
  ASSUME IInv, NEW c \in Seq(Tokens), NEW m \in Nat, turn.pos <= m, m <= Len(c), m <= MaxSeq,
         turn.pos <= Len(turn.ctx), SubSeq(c, 1, turn.pos) = SubSeq(turn.ctx, 1, turn.pos),
         kv' = [kv EXCEPT ![turn.slot] = Run(@, turn.pos, SubSeq(c, turn.pos + 1, m))],
         store' = store, turn' = [turn EXCEPT !.ctx = c, !.pos = m]
  PROVE  IInv' /\ ParksStep /\ DropsStep /\ (HInv => Honest(store, kv)' /\ TurnOnOwnContext')
<1>1. /\ turn \in [id : Ids \cup {NoId}, slot : Slots, ctx : Seq(Tokens), pos : Nat]
      /\ turn.slot \in Slots /\ turn.pos \in Nat /\ kv[turn.slot] \in Row
  BY DEF IInv, TurnType
<1>2. PICK new : new = turn'
  OBVIOUS
<1>3. /\ new \in [id : Ids \cup {NoId}, slot : Slots, ctx : Seq(Tokens), pos : Nat]
      /\ new.id = turn.id /\ new.slot = turn.slot /\ new.ctx = c /\ new.pos = m
  BY <1>1, <1>2
<1>4. PICK chunk : chunk = SubSeq(c, turn.pos + 1, m)
  OBVIOUS
<1>5. chunk \in Seq(Tokens) /\ Len(chunk) = m - turn.pos
  BY <1>1, <1>4, PieceOf
<1>6. turn.pos + Len(chunk) <= MaxSeq
  BY <1>1, <1>5
<1>7. PICK row : row = Run(kv[turn.slot], turn.pos, chunk)
  OBVIOUS
<1>8. row \in Row /\ \A i \in Positions : i < turn.pos => row[i] = kv[turn.slot][i]
  BY <1>1, <1>5, <1>6, <1>7, RunType
<1>9. kv' = [kv EXCEPT ![turn.slot] = row]
  BY <1>4, <1>7
<1>10. /\ kv' \in [Slots -> Row] /\ kv'[turn.slot] = row
       /\ Honest(store, kv) => Honest(store, kv)'
  BY <1>8, <1>9, TurnWrites
<1>11. TurnType'
  BY <1>2, <1>3 DEF TurnType
<1>12. TurnHolds'
  <2>1. CASE turn.id = NoId
    BY <1>2, <1>3, <2>1 DEF IInv, TurnHolds
  <2>2. CASE turn.id # NoId
    <3>1. /\ turn.id \in store.live /\ store.map[turn.id].slot = turn.slot /\ turn.slot # 0
          /\ Len(store.map[turn.id].tokens) <= turn.pos
      BY <2>2 DEF IInv, TurnHolds
    <3>2. turn.id \in Ids
      BY <1>1, <2>2
    <3>3. Len(store.map[turn.id].tokens) \in Nat
      BY <3>2, SessionOf DEF IInv, Sound
    <3>4. Len(store.map[turn.id].tokens) <= m
      BY <1>1, <3>1, <3>3
    <3>. QED  BY <1>2, <1>3, <2>2, <3>1, <3>4 DEF TurnHolds
  <2>. QED  BY <2>1, <2>2
<1>13. IInv'
  BY <1>10, <1>11, <1>12, SameStore DEF IInv
<1>14. ASSUME HInv
       PROVE  TurnOnOwnContext'
  <2>1. Holds(kv[turn.slot], SubSeq(c, 1, turn.pos))
    BY <1>14 DEF HInv, TurnOnOwnContext
  <2>2. Holds(row, SubSeq(c, 1, m))
    BY <1>1, <1>4, <1>7, <2>1, RunHolds
  <2>. QED  BY <1>2, <1>3, <1>10, <2>2 DEF TurnOnOwnContext
<1>. QED  BY <1>10, <1>13, <1>14, SameStore DEF HInv

(* A chunk of the prompt.                                                  *)
LEMMA PrefillStep ==
  ASSUME IInv, Prefill
  PROVE  IInv' /\ ParksStep /\ DropsStep /\ (HInv => Honest(store, kv)' /\ TurnOnOwnContext')
<1>1. /\ turn \in [id : Ids \cup {NoId}, slot : Slots, ctx : Seq(Tokens), pos : Nat]
      /\ turn.ctx \in Seq(Tokens) /\ turn.pos \in Nat /\ Len(turn.ctx) \in Nat
  BY LenProperties DEF IInv, TurnType
<1>2. turn.pos < Len(turn.ctx) /\ turn.pos + Len(Chunk) <= MaxSeq /\ store' = store
  BY DEF Prefill, Prefilling
<1>3. PICK m : m = Min({turn.pos + ChunkCap, Len(turn.ctx)})
  OBVIOUS
<1>4. m \in {turn.pos + ChunkCap, Len(turn.ctx)} /\ m <= Len(turn.ctx)
  <2>1. turn.pos + ChunkCap \in Nat
    BY <1>1, SessionsAssumption
  <2>. QED  BY <1>1, <1>3, <2>1, MinOfTwo
<1>5. m \in Nat /\ turn.pos <= m
  BY <1>1, <1>2, <1>4, SessionsAssumption
<1>6. Chunk = SubSeq(turn.ctx, turn.pos + 1, m)
  BY <1>3 DEF Chunk
<1>7. Len(Chunk) = m - turn.pos
  BY <1>1, <1>4, <1>5, <1>6, PieceOf
<1>8. m <= MaxSeq /\ turn.pos + Len(Chunk) = m
  BY <1>1, <1>2, <1>5, <1>7
<1>9. kv' = [kv EXCEPT ![turn.slot] = Run(@, turn.pos, SubSeq(turn.ctx, turn.pos + 1, m))]
  BY <1>6 DEF Prefill
<1>10. turn' = [turn EXCEPT !.ctx = turn.ctx, !.pos = m]
  <2>1. turn' = [turn EXCEPT !.pos = m]
    BY <1>8 DEF Prefill
  <2>. QED  BY <1>1, <2>1
<1>11. turn.pos <= Len(turn.ctx)
  BY <1>1, <1>2
<1>. QED  BY <1>1, <1>2, <1>4, <1>5, <1>8, <1>9, <1>10, <1>11, RunStep

(* A sampled token that is fed back.                                       *)
LEMMA FeedStep ==
  ASSUME IInv, NEW t \in Samples, FeedBack(t)
  PROVE  IInv' /\ ParksStep /\ DropsStep /\ (HInv => Honest(store, kv)' /\ TurnOnOwnContext')
<1>1. /\ turn \in [id : Ids \cup {NoId}, slot : Slots, ctx : Seq(Tokens), pos : Nat]
      /\ turn.ctx \in Seq(Tokens) /\ turn.pos \in Nat /\ Len(turn.ctx) \in Nat
  BY LenProperties DEF IInv, TurnType
<1>2. turn.pos = Len(turn.ctx) /\ turn.pos + 1 < MaxSeq /\ store' = store /\ t \in Tokens
  BY SessionsAssumption DEF FeedBack, Decoding
<1>3. PICK m \in Nat : m = turn.pos + 1
  BY <1>1
<1>4. PICK c : c = Append(turn.ctx, t)
  OBVIOUS
<1>5. /\ c \in Seq(Tokens) /\ Len(c) = m /\ c[m] = t
      /\ \A i \in 1 .. turn.pos : c[i] = turn.ctx[i]
  BY <1>1, <1>2, <1>3, <1>4, AppendProperties
<1>6. SubSeq(c, 1, turn.pos) = SubSeq(turn.ctx, 1, turn.pos)
  <2>1. turn.pos <= Len(c) /\ turn.pos <= Len(turn.ctx)
    BY <1>1, <1>2, <1>3, <1>5
  <2>2. /\ SubSeq(c, 1, turn.pos) \in Seq(Tokens) /\ Len(SubSeq(c, 1, turn.pos)) = turn.pos
        /\ \A i \in 1 .. turn.pos : SubSeq(c, 1, turn.pos)[i] = c[i]
    BY <1>1, <1>5, <2>1, FrontOf
  <2>3. /\ SubSeq(turn.ctx, 1, turn.pos) \in Seq(Tokens)
        /\ Len(SubSeq(turn.ctx, 1, turn.pos)) = turn.pos
        /\ \A i \in 1 .. turn.pos : SubSeq(turn.ctx, 1, turn.pos)[i] = turn.ctx[i]
    BY <1>1, <2>1, FrontOf
  <2>. QED  BY <1>5, <2>2, <2>3, SeqEqual
<1>7. SubSeq(c, turn.pos + 1, m) = <<t>>
  <2>1. m \in Int /\ \A i \in m .. m : c[i] \in Tokens
    BY <1>2, <1>5
  <2>2. /\ SubSeq(c, m, m) \in Seq(Tokens)
        /\ Len(SubSeq(c, m, m)) = IF m <= m THEN m - m + 1 ELSE 0
        /\ \A i \in 1 .. m - m + 1 : SubSeq(c, m, m)[i] = c[m + i - 1]
    BY <2>1, SubSeqProperties
  <2>3. m - m + 1 = 1 /\ m + 1 - 1 = m
    OBVIOUS
  <2>4. SubSeq(c, m, m)[1] = t /\ Len(SubSeq(c, m, m)) = 1
    BY <1>5, <2>2, <2>3
  <2>5. t \in Tokens
    BY <1>2
  <2>6. <<t>> \in Seq(Tokens) /\ Len(<<t>>) = 1 /\ <<t>>[1] = t
    BY <2>5
  <2>7. \A i \in 1 .. 1 : SubSeq(c, m, m)[i] = <<t>>[i]
    BY <2>4, <2>6
  <2>. QED  BY <1>3, <2>2, <2>4, <2>6, <2>7, SeqEqual
<1>8. kv' = [kv EXCEPT ![turn.slot] = Run(@, turn.pos, SubSeq(c, turn.pos + 1, m))]
  BY <1>7 DEF FeedBack
<1>9. turn' = [turn EXCEPT !.ctx = c, !.pos = m]
  <2>1. turn' = [turn EXCEPT !.ctx = Append(turn.ctx, t), !.pos = turn.pos + 1]
    BY <1>1 DEF FeedBack
  <2>. QED  BY <1>3, <1>4, <2>1
<1>10. turn.pos <= m /\ m <= Len(c) /\ m <= MaxSeq /\ turn.pos <= Len(turn.ctx)
  BY <1>1, <1>2, <1>3, <1>5, SessionsAssumption
<1>. QED  BY <1>2, <1>5, <1>6, <1>8, <1>9, <1>10, RunStep

(* A generation that ends: its whole context is committed.                 *)
LEMMA FinishStep ==
  ASSUME IInv, Finish
  PROVE  IInv' /\ ParksStep /\ DropsStep /\ (HInv => Honest(store, kv)' /\ TurnOnOwnContext')
<1>1. /\ turn.id \in Ids \cup {NoId} /\ turn.ctx \in Seq(Tokens) /\ turn.pos \in Nat
      /\ turn.pos <= MaxSeq /\ Sound(store)
  BY DEF IInv, TurnType
<1>2. turn.pos = Len(turn.ctx) /\ kv' = kv /\ turn' = NoTurn
  BY DEF Finish, Decoding
<1>3. kv' \in [Slots -> Row]
  BY <1>2 DEF IInv
<1>4. CASE turn.id = NoId
  <2>1. store' = store
    BY <1>4 DEF Finish
  <2>2. IInv' /\ ParksStep /\ DropsStep
    BY <1>2, <1>3, <2>1, SameStore, IdleHolds DEF IInv
  <2>3. HInv => Honest(store, kv)'
    BY <1>2, <2>1 DEF HInv, Honest
  <2>. QED  BY <1>2, <2>2, <2>3, IdleHolds
<1>5. CASE turn.id # NoId
  <2>1. PICK id \in Ids : id = turn.id
    BY <1>1, <1>5
  <2>2. id \in store.live /\ store.map[id].slot = turn.slot /\ turn.slot # 0
    BY <1>5, <2>1 DEF IInv, TurnHolds
  <2>3. turn.ctx \in Contexts
    BY <1>1, <1>2, ContextsAre
  <2>4. PICK st : st = Touch(store, id)
    OBVIOUS
  <2>5. /\ Sound(st) /\ st \in StoreType /\ st.map = store.map /\ st.owner = store.owner
        /\ st.live = store.live \cup {id}
    BY <1>1, <2>4, TouchOf DEF Sound
  <2>6. /\ st.map[id].slot = turn.slot /\ turn.slot \in Slots /\ turn.slot \in SessionSlots
        /\ st.owner[turn.slot] = id /\ st.map[id].parked = <<>>
    BY <2>2, <2>5, SessionOf DEF Sound, Owned
  <2>7. PICK new : new = store'
    OBVIOUS
  <2>8. new = Committed(st, id, turn.ctx)
    BY <1>5, <2>1, <2>4, <2>7 DEF Finish, Commit, Committed
  <2>9. PICK s : s = [tokens |-> turn.ctx, slot |-> turn.slot, parked |-> <<>>]
    OBVIOUS
  <2>10. /\ s \in Session /\ s.tokens = turn.ctx /\ s.slot = turn.slot /\ s.parked = <<>>
    BY <2>3, <2>6, <2>9, EmptyFits DEF Session
  <2>11. new = Revise(st, id, s, st.owner)
    BY <2>3, <2>5, <2>6, <2>8, <2>9, CommitRevises
  <2>12. /\ st.owner \in [SessionSlots -> Ids \cup {NoId}]
         /\ \A other \in Ids \ {id} : st.map[other].slot # 0 => st.owner[st.map[other].slot] = other
    BY <2>5 DEF StoreType, Sound, Owned
  <2>13. id \in st.live
    BY <2>5
  <2>14. /\ Sound(new) /\ new.map[id] = s /\ new.live = st.live
         /\ \A other \in Ids \ {id} : new.map[other] = st.map[other]
    BY <2>5, <2>6, <2>10, <2>11, <2>12, <2>13, ReviseOf
  <2>15. \A other \in Ids : new.map[other].parked = store.map[other].parked
                            /\ new.map[other].slot = store.map[other].slot
    BY <2>2, <2>5, <2>6, <2>10, <2>14
  <2>16. ParkedBytes(new) = ParkedBytes(store)
    BY <2>15 DEF ParkedBytes
  <2>17. IInv'
    BY <1>2, <1>3, <2>7, <2>14, <2>16, IdleHolds DEF IInv, BudgetKept
  <2>18. store.live \subseteq Ids
    BY <1>1 DEF Sound, LastUsedOrders
  <2>19. ParksStep
    BY <2>7, <2>15, <2>18 DEF ParksStep
  <2>20. Dropped = {}
    <3>1. SUFFICES ASSUME NEW other \in Dropped
                   PROVE  FALSE
      OBVIOUS
    <3>2. other \in Ids /\ store.map[other].tokens # <<>> /\ new.map[other] = NoSession
      BY <2>7, <2>18, <3>1 DEF Dropped
    <3>3. other # id
      BY <2>2, <2>10, <2>14, <3>2 DEF NoSession
    <3>. QED  BY <2>5, <2>14, <3>2, <3>3 DEF NoSession
  <2>21. ASSUME HInv
         PROVE  Honest(store, kv)'
    <3>1. Holds(kv[turn.slot], turn.ctx)
      <4>1. SubSeq(turn.ctx, 1, turn.pos) = turn.ctx
        BY <1>1, <1>2, SubSeqFull
      <4>. QED  BY <2>21, <4>1 DEF HInv, TurnOnOwnContext
    <3>2. ASSUME NEW other \in Ids
          PROVE  /\ new.map[other].slot # 0 => Holds(kv[new.map[other].slot], new.map[other].tokens)
                 /\ new.map[other].parked # <<>> =>
                      \A i \in 1 .. Len(new.map[other].tokens) :
                        new.map[other].parked[i] = SubSeq(new.map[other].tokens, 1, i)
      <4>1. CASE other = id
        BY <2>10, <2>14, <3>1, <4>1
      <4>2. CASE other # id
        BY <2>5, <2>14, <2>21, <4>2 DEF HInv, Honest
      <4>. QED  BY <4>1, <4>2
    <3>. QED  BY <1>2, <2>7, <3>2 DEF Honest
  <2>22. DropsStep
    BY <2>20 DEF DropsStep
  <2>. QED  BY <1>2, <2>17, <2>19, <2>21, <2>22, IdleHolds
<1>. QED  BY <1>4, <1>5

(* A generation that fails.                                                *)
LEMMA FailStep ==
  ASSUME IInv, Fail
  PROVE  IInv' /\ ParksStep /\ DropsStep /\ (HInv => Honest(store, kv)' /\ TurnOnOwnContext')
<1>1. /\ turn.ctx \in Seq(Tokens) /\ turn.pos \in Nat /\ Len(turn.ctx) \in Nat
      /\ turn.slot \in Slots /\ kv \in [Slots -> Row] /\ kv[turn.slot] \in Row
  BY LenProperties DEF IInv, TurnType
<1>2. store' = store /\ turn' = NoTurn
  BY DEF Fail
<1>3. kv' = kv \/ \E n \in Nat : kv' = [kv EXCEPT ![turn.slot] = Torn(@, turn.pos, n)]
  <2>1. CASE Prefilling
    <3>1. PICK m : m = Min({turn.pos + ChunkCap, Len(turn.ctx)})
      OBVIOUS
    <3>2. m \in {turn.pos + ChunkCap, Len(turn.ctx)} /\ m <= Len(turn.ctx)
      <4>1. turn.pos + ChunkCap \in Nat
        BY <1>1, SessionsAssumption
      <4>. QED  BY <1>1, <3>1, <4>1, MinOfTwo
    <3>3. m \in Nat /\ turn.pos <= m
      BY <1>1, <2>1, <3>2, SessionsAssumption DEF Prefilling
    <3>4. Chunk = SubSeq(turn.ctx, turn.pos + 1, m)
      BY <3>1 DEF Chunk
    <3>5. Len(Chunk) = m - turn.pos
      BY <1>1, <3>2, <3>3, <3>4, PieceOf
    <3>6. Len(Chunk) \in Nat
      BY <1>1, <3>3, <3>5
    <3>. QED  BY <3>6 DEF Fail
  <2>2. CASE ~Prefilling
    BY <2>2 DEF Fail
  <2>. QED  BY <2>1, <2>2
<1>4. kv' \in [Slots -> Row] /\ (Honest(store, kv) => Honest(store, kv)')
  <2>1. CASE kv' = kv
    BY <1>1, <1>2, <2>1 DEF Honest
  <2>2. CASE \E n \in Nat : kv' = [kv EXCEPT ![turn.slot] = Torn(@, turn.pos, n)]
    <3>1. PICK n \in Nat : kv' = [kv EXCEPT ![turn.slot] = Torn(@, turn.pos, n)]
      BY <2>2
    <3>2. PICK row : row = Torn(kv[turn.slot], turn.pos, n)
      OBVIOUS
    <3>3. row \in Row /\ \A i \in Positions : i < turn.pos => row[i] = kv[turn.slot][i]
      BY <1>1, <3>2, TornType
    <3>4. kv' = [kv EXCEPT ![turn.slot] = row]
      BY <3>1, <3>2
    <3>. QED  BY <1>2, <3>3, <3>4, TurnWrites
  <2>. QED  BY <1>3, <2>1, <2>2
<1>5. IInv' /\ ParksStep /\ DropsStep
  BY <1>2, <1>4, SameStore, IdleHolds DEF IInv
<1>. QED  BY <1>2, <1>4, <1>5, IdleHolds DEF HInv

(* A batch. Where batches leave the slots of sessions alone, so does this. *)
LEMMA BatchStep ==
  ASSUME IInv, NEW n \in 2 .. BatchCap, NEW streams \in [1 .. n -> BatchContexts],
         Batch(streams)
  PROVE  /\ IInv' /\ ParksStep /\ DropsStep
         /\ HInv /\ BatchesAvoidSessions => Honest(store, kv)' /\ TurnOnOwnContext'
<1>1. /\ Sound(store) /\ store' = store /\ turn' = NoTurn /\ kv \in [Slots -> Row]
      /\ BatchesAvoidSessions =>
           \A s \in SessionSlots : s < Len(streams) => store.owner[s] = NoId
  BY DEF Batch, IInv, Idle
<1>2. n \in Nat /\ BatchCap \in Nat
  BY SessionsAssumption
<1>3. streams \in Seq(BatchContexts) /\ Len(streams) = n
  BY <1>2
<1>4. PICK done \in 1 .. n :
        kv' = [s \in Slots |->
                 IF s < done THEN Run(kv[s], 0, streams[s + 1])
                 ELSE IF s = done /\ s < n THEN Torn(kv[s], 0, Len(streams[s + 1]))
                      ELSE kv[s]]
  BY <1>3 DEF Batch
<1>5. ASSUME NEW s \in Slots, s < n
      PROVE  streams[s + 1] \in Seq(Tokens) /\ Len(streams[s + 1]) \in Nat
             /\ 0 + Len(streams[s + 1]) <= MaxSeq
  <2>1. s + 1 \in 1 .. n
    BY <1>2, <1>5 DEF Slots
  <2>2. streams[s + 1] \in Contexts
    BY <2>1, SessionsAssumption DEF Contexts, SeqsUpTo
  <2>3. streams[s + 1] \in Seq(Tokens) /\ Len(streams[s + 1]) <= MaxSeq
    BY <2>2, ContextsAre
  <2>4. Len(streams[s + 1]) \in Nat
    BY <2>3, LenProperties
  <2>. QED  BY <2>3, <2>4
<1>6. ASSUME NEW s \in Slots
      PROVE  kv'[s] \in Row
  <2>1. kv[s] \in Row /\ s \in Nat /\ done \in Nat /\ done <= n
    BY <1>1, <1>2 DEF Slots
  <2>2. CASE s < done
    <3>1. kv'[s] = Run(kv[s], 0, streams[s + 1])
      BY <1>4, <2>2
    <3>2. s < n
      BY <1>2, <2>1, <2>2
    <3>. QED  BY <1>5, <2>1, <3>1, <3>2, RunType
  <2>3. CASE ~(s < done) /\ s = done /\ s < n
    <3>1. kv'[s] = Torn(kv[s], 0, Len(streams[s + 1]))
      BY <1>4, <2>3
    <3>. QED  BY <1>5, <2>1, <2>3, <3>1, TornType
  <2>4. CASE ~(s < done) /\ ~(s = done /\ s < n)
    <3>1. kv'[s] = kv[s]
      BY <1>4, <2>4
    <3>. QED  BY <2>1, <3>1
  <2>. QED  BY <2>2, <2>3, <2>4
<1>7. kv' \in [Slots -> Row]
  BY <1>4, <1>6
<1>8. IInv' /\ ParksStep /\ DropsStep
  BY <1>1, <1>7, SameStore, IdleHolds DEF IInv
<1>9. ASSUME HInv, BatchesAvoidSessions
      PROVE  Honest(store, kv)'
  <2>1. ASSUME NEW id \in Ids, store.map[id].slot # 0
        PROVE  kv'[store.map[id].slot] = kv[store.map[id].slot]
    <3>1. PICK s \in SessionSlots : s = store.map[id].slot /\ store.owner[s] = id
      BY <1>1, <2>1, SessionOf DEF Sound, Owned
    <3>2. ~(s < n)
      BY <1>1, <1>3, <1>9, <3>1, SessionsAssumption
    <3>3. s \in Slots /\ s \in Nat
      BY <1>2 DEF SessionSlots, Slots
    <3>4. ~(s < done)
      BY <1>2, <3>2, <3>3
    <3>. QED  BY <1>4, <3>1, <3>2, <3>3, <3>4
  <2>. QED  BY <1>1, <1>9, <2>1 DEF HInv, Honest
<1>. QED  BY <1>1, <1>8, <1>9, IdleHolds

(* A session that is forgotten.                                            *)
LEMMA ForgetStep ==
  ASSUME IInv, NEW id \in Ids, Forget(id)
  PROVE  IInv' /\ ParksStep /\ DropsStep /\ (HInv => Honest(store, kv)' /\ TurnOnOwnContext')
<1>1. Sound(store) /\ store \in StoreType /\ turn' = NoTurn /\ kv' = kv /\ kv' \in [Slots -> Row]
  BY DEF IInv, Sound, Forget, Idle
<1>2. PICK new : new = store'
  OBVIOUS
<1>3. PICK o : o = [k \in SessionSlots |-> IF k = store.map[id].slot THEN NoId ELSE store.owner[k]]
  OBVIOUS
<1>4. new = [map |-> [store.map EXCEPT ![id] = NoSession], live |-> store.live \ {id},
             before |-> Unordered(store, id), owner |-> o]
  BY <1>2, <1>3 DEF Forget
<1>5. /\ new.live = store.live \ {id} /\ new.before = Unordered(store, id) /\ new.owner = o
      /\ new.map = [store.map EXCEPT ![id] = NoSession]
  BY <1>4
<1>6. new.map[id] = NoSession /\ \A other \in Ids \ {id} : new.map[other] = store.map[other]
  BY <1>1, <1>5 DEF StoreType
<1>7. new \in StoreType
  <2>1. new.map \in [Ids -> Session]
    BY <1>1, <1>5, SessionIs DEF StoreType
  <2>2. o \in [SessionSlots -> Ids \cup {NoId}]
    BY <1>1, <1>3 DEF StoreType
  <2>3. new.live \in SUBSET Ids /\ new.before \in SUBSET (Ids \X Ids)
    BY <1>1, <1>5 DEF StoreType, Unordered
  <2>. QED  BY <1>4, <1>5, <2>1, <2>2, <2>3 DEF StoreType
<1>8. LastUsedOrders(new)
  <2>1. \A a, b : <<a, b>> \in new.before <=> <<a, b>> \in store.before /\ a # id /\ b # id
    BY <1>5 DEF Unordered
  <2>2. new.before \subseteq {p \in new.live \X new.live : p[1] # p[2]}
    BY <1>1, <1>5 DEF Unordered, Sound, LastUsedOrders
  <2>3. /\ store.live \subseteq Ids
        /\ \A a, b \in store.live :
             a = b \/ (<<a, b>> \in store.before <=> ~(<<b, a>> \in store.before))
        /\ \A a, b, c \in store.live :
             <<a, b>> \in store.before /\ <<b, c>> \in store.before => <<a, c>> \in store.before
    BY <1>1 DEF Sound, LastUsedOrders, Before
  <2>4. /\ \A a, b \in new.live :
             a = b \/ (<<a, b>> \in new.before <=> ~(<<b, a>> \in new.before))
        /\ \A a, b, c \in new.live :
             <<a, b>> \in new.before /\ <<b, c>> \in new.before => <<a, c>> \in new.before
    BY <1>5, <2>1, <2>3
  <2>. QED  BY <1>5, <2>2, <2>3, <2>4 DEF LastUsedOrders, Before
<1>9. Listed(new) /\ Measured(new)
  BY <1>1, <1>5, <1>6 DEF Sound, Listed, Measured, NoSession
<1>10. Owned(new)
  <2>1. SUFFICES ASSUME NEW other \in Ids, new.map[other].slot # 0
                 PROVE  new.owner[new.map[other].slot] = other /\ new.map[other].parked = <<>>
    BY DEF Owned
  <2>2. other # id
    BY <1>6, <2>1 DEF NoSession
  <2>3. PICK k \in SessionSlots : k = store.map[other].slot /\ k # 0
    BY <1>1, <1>6, <2>1, <2>2, SessionOf
  <2>4. store.owner[k] = other /\ store.map[other].parked = <<>>
    BY <1>1, <2>3 DEF Sound, Owned
  <2>5. k # store.map[id].slot
    BY <1>1, <2>2, <2>3, <2>4 DEF Sound, Owned
  <2>6. o[k] = other
    BY <1>3, <2>4, <2>5
  <2>. QED  BY <1>5, <1>6, <2>2, <2>3, <2>4, <2>6
<1>11. Sound(new)
  BY <1>7, <1>8, <1>9, <1>10 DEF Sound
<1>12. ParkedBytes(new) <= RamBudget
  <2>1. ASSUME NEW other \in Ids
        PROVE  Len(new.map[other].parked) <= Len(store.map[other].parked)
    <3>1. Len(store.map[other].parked) \in Nat /\ Len(<<>>) = 0
      BY <1>1, SessionOf, EmptySeq
    <3>2. new.map[other].parked = store.map[other].parked \/ new.map[other].parked = <<>>
      BY <1>6 DEF NoSession
    <3>. QED  BY <3>1, <3>2
  <2>2. /\ ParkedBytes(new) <= ParkedBytes(store) /\ ParkedBytes(new) \in Nat
        /\ ParkedBytes(store) \in Nat
    BY <1>1, <1>7, <2>1, BytesOf
  <2>. QED  BY <2>2, SessionsAssumption DEF IInv, BudgetKept
<1>13. IInv'
  BY <1>1, <1>2, <1>11, <1>12, IdleHolds DEF IInv, BudgetKept
<1>14. store.live \subseteq Ids
  BY <1>1 DEF Sound, LastUsedOrders
<1>15. ParksStep
  BY <1>2, <1>5, <1>6, <1>14 DEF ParksStep
<1>16. Dropped = {}
  BY <1>2, <1>5, <1>6, <1>14 DEF Dropped, NoSession
<1>17. DropsStep
  BY <1>16 DEF DropsStep
<1>18. ASSUME HInv
       PROVE  Honest(store, kv)'
  <2>1. ASSUME NEW other \in Ids
        PROVE  /\ new.map[other].slot # 0 => Holds(kv[new.map[other].slot], new.map[other].tokens)
               /\ new.map[other].parked # <<>> =>
                    \A i \in 1 .. Len(new.map[other].tokens) :
                      new.map[other].parked[i] = SubSeq(new.map[other].tokens, 1, i)
    <3>1. CASE other = id
      BY <1>6, <3>1 DEF NoSession
    <3>2. CASE other # id
      BY <1>6, <1>18, <3>2 DEF HInv, Honest
    <3>. QED  BY <3>1, <3>2
  <2>. QED  BY <1>1, <1>2, <2>1 DEF Honest
<1>. QED  BY <1>1, <1>13, <1>15, <1>17, <1>18, IdleHolds

-----------------------------------------------------------------------------
(* Every step.                                                             *)

(* The store starts empty.                                                 *)
LEMMA InitHolds == Init => HInv
<1>1. SUFFICES ASSUME Init
               PROVE  HInv
  OBVIOUS
<1>2. /\ store.map = [id \in Ids |-> NoSession] /\ store.live = {} /\ store.before = {}
      /\ store.owner = [s \in SessionSlots |-> NoId]
      /\ store = [map |-> store.map, live |-> store.live, before |-> store.before,
                  owner |-> store.owner]
      /\ kv = [s \in Slots |-> [i \in Positions |-> <<>>]] /\ turn = NoTurn
  BY <1>1 DEF Init
<1>3. \A id \in Ids : store.map[id] = NoSession
  BY <1>2
<1>4. store \in StoreType
  BY <1>2, SessionIs DEF StoreType
<1>5. Sound(store)
  BY <1>2, <1>3, <1>4 DEF Sound, LastUsedOrders, Listed, Owned, Measured, NoSession, Before
<1>6. BudgetKept
  <2>1. \A id \in Ids : Len(store.map[id].parked) = 0
    BY <1>3, EmptySeq DEF NoSession
  <2>2. ParkedBytes(store) = 0
    BY <1>4, <2>1, BytesOf
  <2>. QED  BY <2>2, SessionsAssumption DEF BudgetKept
<1>7. kv \in [Slots -> Row]
  BY <1>2, EmptyFits DEF Row
<1>8. turn.id = NoId /\ turn.slot = 0 /\ turn.ctx = <<>> /\ turn.pos = 0
  BY <1>2 DEF NoTurn
<1>9. TurnType
  <2>1. 0 \in Slots /\ MaxSeq \in Nat
    BY SessionsAssumption DEF Slots
  <2>2. <<>> \in Seq(Tokens) /\ Len(<<>>) = 0
    BY EmptySeq
  <2>. QED  BY <1>2, <1>8, <2>1, <2>2 DEF TurnType, NoTurn
<1>10. TurnHolds
  BY <1>8 DEF TurnHolds
<1>11. Honest(store, kv)
  BY <1>3 DEF Honest, NoSession
<1>12. TurnOnOwnContext
  <2>1. <<>> \in Seq(Tokens) /\ SubSeq(<<>>, 1, 0) = <<>>
    BY EmptySeq, SubSeqEmpty
  <2>. QED  BY <1>8, <2>1, HoldsNothing DEF TurnOnOwnContext
<1>. QED  BY <1>5, <1>6, <1>7, <1>9, <1>10, <1>11, <1>12 DEF IInv, HInv

(* Every step keeps the invariant, and parks and drops as promised.        *)
LEMMA NextKeeps ==
  ASSUME IInv, [Next]_vars
  PROVE  /\ IInv' /\ ParksStep /\ DropsStep
         /\ HInv /\ BatchesAvoidSessions => HInv'
<1>1. CASE \E id \in Ids, prompt \in Prompts : AcquireResident(id, prompt)
  BY <1>1, ResidentStep DEF HInv
<1>2. CASE \E id \in Ids, prompt \in Prompts : Acquire(id, prompt)
  BY <1>2, AcquireStep DEF HInv
<1>3. CASE \E prompt \in AnonymousPrompts : BeginAnonymous(prompt)
  BY <1>3, AnonymousStep DEF HInv
<1>4. CASE Prefill
  BY <1>4, PrefillStep DEF HInv
<1>5. CASE \E t \in Samples : FeedBack(t)
  BY <1>5, FeedStep DEF HInv
<1>6. CASE Finish
  BY <1>6, FinishStep DEF HInv
<1>7. CASE Fail
  BY <1>7, FailStep DEF HInv
<1>8. CASE \E n \in 2 .. BatchCap : \E streams \in [1 .. n -> BatchContexts] : Batch(streams)
  BY <1>8, BatchStep DEF HInv
<1>9. CASE \E id \in Ids : Forget(id)
  BY <1>9, ForgetStep DEF HInv
<1>10. CASE UNCHANGED vars
  <2>1. store' = store /\ kv' = kv /\ turn' = turn
    BY <1>10 DEF vars
  <2>2. IInv'
    BY <2>1, SameStore DEF IInv, TurnType, TurnHolds
  <2>3. HInv => HInv'
    BY <2>1, <2>2 DEF HInv, Honest, TurnOnOwnContext
  <2>. QED  BY <2>1, <2>2, <2>3, SameStore
<1>. QED  BY <1>1, <1>2, <1>3, <1>4, <1>5, <1>6, <1>7, <1>8, <1>9, <1>10 DEF Next

(* The inductive invariant is one.                                         *)
LEMMA Invariant == Spec => []IInv
<1>1. Init => IInv
  BY InitHolds DEF HInv
<1>2. IInv /\ [Next]_vars => IInv'
  BY NextKeeps
<1>. QED  BY <1>1, <1>2, PTL DEF Spec

(* Every field of the session store and every session has its type,        *)
(* last_used orders exactly the sessions in the map, and a turn stays in   *)
(* its slot's positions (SessionStore, generate).                          *)
THEOREM SessionsTyped == Spec => []TypeOK
<1>1. ASSUME IInv
      PROVE  TypeOK
  <2>1. /\ store \in StoreType /\ LastUsedOrders(store)
        /\ \A id \in Ids \ store.live : store.map[id] = NoSession
    BY <1>1 DEF IInv, Sound, Listed
  <2>2. store.map \in [Ids -> Session] /\ store.owner \in [SessionSlots -> Ids \cup {NoId}]
    BY <2>1 DEF StoreType
  <2>3. /\ turn.id \in Ids \cup {NoId} /\ turn.slot \in Slots
        /\ turn.pos <= Len(turn.ctx) /\ turn.pos <= MaxSeq
    BY <1>1 DEF IInv, TurnType
  <2>. QED  BY <1>1, <2>1, <2>2, <2>3 DEF TypeOK, IInv
<1>. QED  BY <1>1, Invariant, PTL

(* No two sessions think they have the same slot, and none keeps a parked  *)
(* copy beside its slot (claim_slot, park, forget), whatever failed        *)
(* before: an import that fails leaves an owner that does not know it.     *)
THEOREM OneSessionPerSlot == Spec => []SlotsExclusive
<1>1. IInv => SlotsExclusive
  BY DEF IInv, Sound, Owned, SlotsExclusive
<1>. QED  BY <1>1, Invariant, PTL

(* Parked KV never exceeds the budget (enforce_budget).                    *)
THEOREM ParkedWithinBudget == Spec => []BudgetKept
<1>1. IInv => BudgetKept
  BY DEF IInv
<1>. QED  BY <1>1, Invariant, PTL

(* Only the least recently used of the sessions that own a slot is parked, *)
(* and only when no slot is free (claim_slot).                             *)
THEOREM LeastRecentIsParked == Spec => ParksLeastRecent
<1>1. IInv /\ [Next]_vars =>
        \A id \in store.live \cap store'.live :
          store.map[id].slot # 0 /\ store'.map[id].slot = 0 =>
            /\ FreeSlots(store) = {}
            /\ \A s \in SessionSlots : ~Before(store', store.owner[s], id)
  BY NextKeeps DEF ParksStep
<1>. QED  BY <1>1, Invariant, PTL DEF Spec, ParksLeastRecent

(* A context is given up only for the room the budget lacks, and never     *)
(* before a less recent one that is parked (enforce_budget).               *)
THEOREM OldestIsDropped == Spec => DropsOldestForBudget
<1>1. IInv /\ [Next]_vars =>
        (Dropped # {} =>
           /\ \E id \in Dropped :
                ParkedBytes(store') + Len(store.map[id].tokens) > RamBudget
           /\ \A id \in Dropped, other \in store'.live :
                store'.map[other].parked # <<>> => Before(store', id, other))
  BY NextKeeps DEF DropsStep
<1>. QED  BY <1>1, Invariant, PTL DEF Spec, DropsOldestForBudget

(* What holds of the KV when batches leave the slots of sessions alone.    *)
LEMMA HonestInvariant ==
  ASSUME BatchesAvoidSessions
  PROVE  Spec => []HInv
<1>1. Init => HInv
  BY InitHolds
<1>2. HInv /\ [Next]_vars => HInv'
  BY NextKeeps DEF HInv
<1>. QED  BY <1>1, <1>2, PTL DEF Spec

(* A session holds the KV of exactly the tokens it claims, in its slot or  *)
(* in its blob, also after turns that failed (acquire's truncate), unless  *)
(* a batch decoded over its slot.                                          *)
THEOREM SessionsHonest ==
  ASSUME BatchesAvoidSessions
  PROVE  Spec => []ContextsHonest
<1>1. HInv => ContextsHonest
  BY DEF HInv, IInv, Sound, Measured, Honest, ContextsHonest
<1>. QED  BY <1>1, HonestInvariant, PTL

(* Every token is computed over the state of its own context, whatever the *)
(* slot held before (acquire, step_chunk), unless a batch decoded over a   *)
(* session's slot.                                                         *)
THEOREM TurnsOnOwnContext ==
  ASSUME BatchesAvoidSessions
  PROVE  Spec => []TurnOnOwnContext
<1>1. HInv => TurnOnOwnContext
  BY DEF HInv
<1>. QED  BY <1>1, HonestInvariant, PTL

=============================================================================
