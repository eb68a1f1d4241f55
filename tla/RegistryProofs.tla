--------------------------- MODULE RegistryProofs ---------------------------
(***************************************************************************)
(* Proofs about Registry, for every set of models and every card: its      *)
(* memory is accounted for, the warm set bounded, and the sizes of the     *)
(* caches are what is reported, reserved and shared.                       *)
(***************************************************************************)
EXTENDS Registry, Functions, FiniteSetTheorems, SequenceTheorems, TLAPS

-----------------------------------------------------------------------------
(* The lemmas about sums and least elements do not depend on the cache     *)
(* record that their module is also about: any parameters will do.         *)
Shared == INSTANCE SharedProofs WITH
  Parts <- 1, SlotsPerPart <- 1, IdsPerPart <- 1, NumIds <- 1,
  DecayInterval <- 1, MaxFreq <- 1

(* The names of the lemmas are those of the specification.                 *)
LEMMA SharedNames ==
  /\ 1 \in Nat \ {0}
  /\ \A T : IsFiniteSet(T) <=> Shared!IsFiniteSet(T)
  /\ \A f, T : SumFunctionOnSet(f, T) = Shared!SumFunctionOnSet(f, T)
<1>1. \A T : IsFiniteSet(T) <=> Shared!IsFiniteSet(T)
  BY DEF IsFiniteSet, Shared!IsFiniteSet
<1>2. \A f, T : SumFunctionOnSet(f, T) = Shared!SumFunctionOnSet(f, T)
  BY DEF SumFunctionOnSet, FoldFunctionOnSet, MapThenFoldSet,
         Shared!SumFunctionOnSet, Shared!FoldFunctionOnSet, Shared!MapThenFoldSet
<1>. QED  BY <1>1, <1>2

Engine == [name : Models, pager : Nat, cur_slots : Nat, reserve : Nat]

-----------------------------------------------------------------------------
(* What engines hold.                                                      *)

(* The memory of an engine.                                                *)
LEMMA HeldType ==
  ASSUME NEW e \in Engine
  PROVE  /\ Layers[e.name] \in Nat \ {0} /\ Core[e.name] \in Nat /\ Kv[e.name] \in Nat
         /\ Arenas(e) \in Nat /\ Held(e) \in Nat
<1>1. e.name \in Models /\ e.pager \in Nat
  BY DEF Engine
<1>2. Layers[e.name] \in Nat \ {0} /\ Core[e.name] \in Nat /\ Kv[e.name] \in Nat
  BY <1>1, RegistryAssumption
<1>3. \A a, b \in Nat : a * b \in Nat
  OBVIOUS
<1>4. Arenas(e) \in Nat
  BY <1>1, <1>2, <1>3 DEF Arenas
<1>. QED  BY <1>2, <1>4 DEF Held

(* The sum that HeldBy is, and its terms.                                  *)
LEMMA HeldByType ==
  ASSUME NEW s \in Seq(Engine)
  PROVE  /\ HeldBy(s) = SumFunctionOnSet([i \in 1 .. Len(s) |-> Held(s[i])], 1 .. Len(s))
         /\ Len(s) \in Nat /\ IsFiniteSet(1 .. Len(s))
         /\ \A i \in 1 .. Len(s) : s[i] \in Engine /\ Held(s[i]) \in Nat
         /\ HeldBy(s) \in Nat
<1>1. Len(s) \in Nat /\ DOMAIN s = 1 .. Len(s) /\ \A i \in 1 .. Len(s) : s[i] \in Engine
  OBVIOUS
<1>2. IsFiniteSet(1 .. Len(s))
  BY <1>1, FS_Interval
<1>3. \A i \in 1 .. Len(s) : Held(s[i]) \in Nat
  BY <1>1, HeldType
<1>. DEFINE f == [i \in 1 .. Len(s) |-> Held(s[i])]
<1>4. HeldBy(s) = SumFunctionOnSet(f, 1 .. Len(s))
  <2>1. DOMAIN f = 1 .. Len(s)
    OBVIOUS
  <2>. QED  BY <1>1, <2>1 DEF HeldBy, SumFunction
<1>5. \A i \in 1 .. Len(s) : f[i] \in Nat
  BY <1>3
<1>6. SumFunctionOnSet(f, 1 .. Len(s)) \in Nat
  <2>. HIDE DEF f
  <2>. QED  BY <1>2, <1>5, Shared!SumType, SharedNames
<1>. QED  BY <1>1, <1>2, <1>3, <1>4, <1>6

(* No engines hold nothing.                                                *)
LEMMA HeldByNone == HeldBy(<<>>) = 0
<1>1. <<>> \in Seq(Engine) /\ Len(<<>>) = 0 /\ 1 .. 0 = {}
  OBVIOUS
<1>. QED  BY <1>1, HeldByType, Shared!SumEmpty, SharedNames

(* An engine in front adds what it holds.                                  *)
LEMMA HeldByCons ==
  ASSUME NEW s \in Seq(Engine), NEW e \in Engine
  PROVE  /\ <<e>> \o s \in Seq(Engine) /\ Len(<<e>> \o s) = Len(s) + 1
         /\ (<<e>> \o s)[1] = e
         /\ \A i \in 1 .. Len(s) : (<<e>> \o s)[i + 1] = s[i]
         /\ HeldBy(<<e>> \o s) = Held(e) + HeldBy(s)
<1>. DEFINE n == Len(s)
            t == <<e>> \o s
            f == [i \in 1 .. n + 1 |-> Held(t[i])]
            h == [i \in 1 .. n |-> Held(s[i])]
            p == [i \in 2 .. n + 1 |-> i - 1]
<1>1. /\ t \in Seq(Engine) /\ Len(t) = n + 1 /\ n \in Nat
      /\ t[1] = e /\ \A i \in 1 .. n : t[i + 1] = s[i]
  OBVIOUS
<1>. HIDE DEF t
<1>2. /\ HeldBy(t) = SumFunctionOnSet(f, 1 .. n + 1) /\ IsFiniteSet(1 .. n + 1)
      /\ HeldBy(s) = SumFunctionOnSet(h, 1 .. n) /\ IsFiniteSet(1 .. n)
      /\ \A i \in 1 .. n + 1 : f[i] \in Nat
  BY <1>1, HeldByType
<1>3. (1 .. n + 1) \ {1} = 2 .. n + 1 /\ IsFiniteSet(2 .. n + 1) /\ 1 \in 1 .. n + 1
  <2>1. n \in Nat
    BY <1>1
  <2>2. IsFiniteSet(2 .. n + 1)
    BY <2>1, FS_Interval
  <2>3. (1 .. n + 1) \ {1} = 2 .. n + 1 /\ 1 \in 1 .. n + 1
    BY <2>1
  <2>. QED  BY <2>2, <2>3
<1>4. Shared!Renames(p, 2 .. n + 1, 1 .. n)
  <2>1. ASSUME NEW i \in 1 .. n
        PROVE  i + 1 \in 2 .. n + 1 /\ p[i + 1] = i
    BY <1>1
  <2>2. p \in [2 .. n + 1 -> 1 .. n]
    BY <1>1
  <2>3. \A x, y \in 2 .. n + 1 : p[x] = p[y] => x = y
    BY <1>1
  <2>. HIDE DEF p
  <2>. QED  BY <2>1, <2>2, <2>3 DEF Shared!Renames
<1>5. \A x \in 2 .. n + 1 : f[x] \in Nat /\ f[x] = h[p[x]]
  <2>. SUFFICES ASSUME NEW x \in 2 .. n + 1
                PROVE  f[x] \in Nat /\ f[x] = h[p[x]]
    OBVIOUS
  <2>1. x - 1 \in 1 .. n /\ x \in 1 .. n + 1 /\ t[(x - 1) + 1] = s[x - 1] /\ (x - 1) + 1 = x
    BY <1>1
  <2>2. p[x] = x - 1 /\ f[x] = Held(t[x]) /\ h[x - 1] = Held(s[x - 1])
    BY <2>1
  <2>. QED  BY <1>2, <2>1, <2>2
<1>6. f[1] = Held(e)
  BY <1>1, <1>3
<1>. HIDE DEF f, h, p
<1>7. SumFunctionOnSet(f, 1 .. n + 1) = f[1] + SumFunctionOnSet(f, 2 .. n + 1)
  BY <1>2, <1>3, Shared!SumRemove, SharedNames
<1>8. SumFunctionOnSet(f, 2 .. n + 1) = SumFunctionOnSet(h, 1 .. n)
  BY <1>2, <1>3, <1>4, <1>5, Shared!SumRenamed, SharedNames
<1>. QED  BY <1>1, <1>2, <1>6, <1>7, <1>8 DEF t

(* The last engine takes away what it holds.                               *)
LEMMA HeldByFront ==
  ASSUME NEW s \in Seq(Engine), s # <<>>
  PROVE  /\ Front(s) \in Seq(Engine) /\ Len(Front(s)) = Len(s) - 1 /\ Last(s) \in Engine
         /\ \A i \in 1 .. Len(s) - 1 : Front(s)[i] = s[i]
         /\ HeldBy(s) = HeldBy(Front(s)) + Held(Last(s))
<1>. DEFINE n == Len(s)
            t == Front(s)
            f == [i \in 1 .. n |-> Held(s[i])]
            h == [i \in 1 .. n - 1 |-> Held(t[i])]
<1>1. n \in Nat \ {0} /\ Last(s) = s[n] /\ s[n] \in Engine
  BY EmptySeq DEF Last
<1>2. t \in Seq(Engine) /\ Len(t) = n - 1 /\ \A i \in 1 .. n - 1 : t[i] = s[i]
  <2>1. \A i \in 1 .. n - 1 : s[i] \in Engine
    BY <1>1
  <2>2. /\ SubSeq(s, 1, n - 1) \in Seq(Engine)
        /\ Len(SubSeq(s, 1, n - 1)) = IF 1 <= n - 1 THEN (n - 1) - 1 + 1 ELSE 0
        /\ \A i \in 1 .. (n - 1) - 1 + 1 : SubSeq(s, 1, n - 1)[i] = s[1 + i - 1]
    BY <1>1, <2>1, SubSeqProperties
  <2>3. t = SubSeq(s, 1, n - 1)
    BY DEF Front
  <2>4. ASSUME NEW i \in 1 .. n - 1
        PROVE  SubSeq(s, 1, n - 1)[i] = s[i]
    <3>1. i \in 1 .. (n - 1) - 1 + 1 /\ 1 + i - 1 = i
      BY <1>1
    <3>. QED  BY <2>2, <3>1
  <2>5. Len(SubSeq(s, 1, n - 1)) = n - 1
    <3>. HIDE DEF n
    <3>. QED  BY <1>1, <2>2
  <2>. HIDE DEF t
  <2>. QED  BY <2>2, <2>3, <2>4, <2>5
<1>. HIDE DEF t
<1>3. /\ HeldBy(s) = SumFunctionOnSet(f, 1 .. n) /\ IsFiniteSet(1 .. n)
      /\ HeldBy(t) = SumFunctionOnSet(h, 1 .. n - 1) /\ IsFiniteSet(1 .. n - 1)
      /\ \A i \in 1 .. n : f[i] \in Nat
  BY <1>1, <1>2, HeldByType
<1>4. (1 .. n) \ {n} = 1 .. n - 1 /\ n \in 1 .. n
  BY <1>1
<1>5. f[n] = Held(s[n]) /\ \A i \in 1 .. n - 1 : f[i] = h[i]
  BY <1>1, <1>2
<1>. HIDE DEF f, h
<1>6. SumFunctionOnSet(f, 1 .. n) = f[n] + SumFunctionOnSet(f, 1 .. n - 1)
  BY <1>3, <1>4, Shared!SumRemove, SharedNames
<1>7. SumFunctionOnSet(f, 1 .. n - 1) = SumFunctionOnSet(h, 1 .. n - 1)
  BY <1>3, <1>5, Shared!SumSame, SharedNames
<1>8. HeldBy(t) \in Nat /\ Held(s[n]) \in Nat
  BY <1>1, <1>2, HeldByType, HeldType
<1>. QED  BY <1>1, <1>2, <1>3, <1>5, <1>6, <1>7, <1>8 DEF t

(* An engine that is replaced changes the sum by the difference.           *)
LEMMA HeldByExcept ==
  ASSUME NEW s \in Seq(Engine), NEW k \in 1 .. Len(s), NEW e \in Engine
  PROVE  /\ [s EXCEPT ![k] = e] \in Seq(Engine) /\ Len([s EXCEPT ![k] = e]) = Len(s)
         /\ HeldBy([s EXCEPT ![k] = e]) + Held(s[k]) = HeldBy(s) + Held(e)
<1>. DEFINE n == Len(s)
            t == [s EXCEPT ![k] = e]
            f == [i \in 1 .. n |-> Held(s[i])]
            h == [i \in 1 .. n |-> Held(t[i])]
<1>1. /\ t \in Seq(Engine) /\ Len(t) = n /\ n \in Nat
      /\ \A i \in 1 .. n : t[i] = IF i = k THEN e ELSE s[i]
  BY ExceptSeq
<1>. HIDE DEF t
<1>2. /\ HeldBy(s) = SumFunctionOnSet(f, 1 .. n) /\ IsFiniteSet(1 .. n)
      /\ HeldBy(t) = SumFunctionOnSet(h, 1 .. n)
      /\ \A i \in 1 .. n : f[i] \in Nat /\ h[i] \in Nat
  BY <1>1, HeldByType
<1>3. f[k] = Held(s[k]) /\ h[k] = Held(e) /\ \A i \in 1 .. n : i # k => h[i] = f[i]
  BY <1>1
<1>. HIDE DEF f, h
<1>4. SumFunctionOnSet(h, 1 .. n) + f[k] = SumFunctionOnSet(f, 1 .. n) + h[k]
  BY <1>2, <1>3, Shared!SumChange, SharedNames
<1>. QED  BY <1>1, <1>2, <1>3, <1>4 DEF t

(* An engine that is pulled to the front leaves the sum as it is.          *)
LEMMA HeldByToFront ==
  ASSUME NEW s \in Seq(Engine), NEW k \in 1 .. Len(s)
  PROVE  LET t == <<s[k]>> \o RemoveAt(s, k)
             p == [j \in 1 .. Len(s) |-> IF j = 1 THEN k ELSE IF j <= k THEN j - 1 ELSE j]
         IN  /\ t \in Seq(Engine) /\ Len(t) = Len(s)
             /\ Shared!Renames(p, 1 .. Len(s), 1 .. Len(s))
             /\ \A j \in 1 .. Len(s) : t[j] = s[p[j]]
             /\ HeldBy(t) = HeldBy(s)
<1>. DEFINE n == Len(s)
            r == RemoveAt(s, k)
            t == <<s[k]>> \o r
            p == [j \in 1 .. n |-> IF j = 1 THEN k ELSE IF j <= k THEN j - 1 ELSE j]
            f == [i \in 1 .. n |-> Held(s[i])]
            h == [i \in 1 .. n |-> Held(t[i])]
<1>1. n \in Nat \ {0} /\ k \in 1 .. n /\ \A i \in 1 .. n : s[i] \in Engine
  OBVIOUS
<1>2. /\ r \in Seq(Engine) /\ Len(r) = n - 1
      /\ \A i \in 1 .. n - 1 : r[i] = IF i < k THEN s[i] ELSE s[i + 1]
  <2>. DEFINE u == SubSeq(s, 1, k - 1)
              v == SubSeq(s, k + 1, n)
  <2>1. u \in Seq(Engine) /\ Len(u) = k - 1 /\ \A i \in 1 .. k - 1 : u[i] = s[i]
    OBVIOUS
  <2>2. v \in Seq(Engine) /\ Len(v) = n - k /\ \A i \in 1 .. n - k : v[i] = s[i + k]
    OBVIOUS
  <2>3. r = u \o v
    BY DEF RemoveAt
  <2>. HIDE DEF u, v, r, n
  <2>4. r \in Seq(Engine) /\ Len(r) = n - 1
    BY <1>1, <2>1, <2>2, <2>3
  <2>5. ASSUME NEW i \in 1 .. n - 1
        PROVE  r[i] = IF i < k THEN s[i] ELSE s[i + 1]
    <3>1. CASE i < k
      BY <1>1, <2>1, <2>2, <2>3, <3>1
    <3>2. CASE ~(i < k)
      <4>1. i - (k - 1) \in 1 .. n - k /\ (i - (k - 1)) + k = i + 1
        BY <1>1, <3>2
      <4>2. r[i] = v[i - (k - 1)]
        BY <1>1, <2>1, <2>2, <2>3, <3>2
      <4>. QED  BY <2>2, <3>2, <4>1, <4>2
    <3>. QED  BY <3>1, <3>2
  <2>. QED  BY <2>4, <2>5
<1>. HIDE DEF n, r
<1>3. t \in Seq(Engine) /\ Len(t) = n /\ t[1] = s[k] /\ \A j \in 2 .. n : t[j] = r[j - 1]
  BY <1>1, <1>2
<1>. HIDE DEF t
<1>4. Shared!Renames(p, 1 .. n, 1 .. n)
  <2>1. p \in [1 .. n -> 1 .. n]
    BY <1>1
  <2>2. \A x, y \in 1 .. n : p[x] = p[y] => x = y
    BY <1>1
  <2>3. ASSUME NEW u \in 1 .. n
        PROVE  \E x \in 1 .. n : p[x] = u
    <3>1. CASE u = k
      BY <1>1, <3>1
    <3>2. CASE u < k
      <4>1. u + 1 \in 1 .. n /\ p[u + 1] = u
        BY <1>1, <3>2
      <4>. HIDE DEF p
      <4>. QED  BY <4>1
    <3>3. CASE u > k
      <4>1. p[u] = u
        BY <1>1, <3>3
      <4>. HIDE DEF p
      <4>. QED  BY <4>1
    <3>. QED  BY <1>1, <3>1, <3>2, <3>3
  <2>. HIDE DEF p
  <2>. QED  BY <2>1, <2>2, <2>3 DEF Shared!Renames
<1>5. ASSUME NEW j \in 1 .. n
      PROVE  t[j] = s[p[j]]
  <2>1. CASE j = 1
    BY <1>1, <1>3, <2>1
  <2>2. CASE j # 1
    <3>1. j - 1 \in 1 .. n - 1 /\ t[j] = r[j - 1]
      BY <1>1, <1>3, <2>2
    <3>2. t[j] = IF j - 1 < k THEN s[j - 1] ELSE s[(j - 1) + 1]
      BY <1>2, <3>1
    <3>. QED  BY <1>1, <2>2, <3>2
  <2>. QED  BY <2>1, <2>2
<1>6. /\ HeldBy(s) = SumFunctionOnSet(f, 1 .. n) /\ HeldBy(t) = SumFunctionOnSet(h, 1 .. n)
      /\ IsFiniteSet(1 .. n) /\ \A j \in 1 .. n : h[j] \in Nat
  BY <1>3, HeldByType DEF n
<1>7. \A j \in 1 .. n : h[j] = f[p[j]]
  <2>1. \A j \in 1 .. n : p[j] \in 1 .. n
    BY <1>1
  <2>. HIDE DEF p
  <2>. QED  BY <1>5, <2>1
<1>8. HeldBy(t) = HeldBy(s)
  <2>1. \A j \in 1 .. n : h[j] \in Nat /\ h[j] = f[p[j]]
    BY <1>6, <1>7
  <2>. HIDE DEF p, f, h
  <2>2. SumFunctionOnSet(h, 1 .. n) = SumFunctionOnSet(f, 1 .. n)
    <3>. DEFINE D == 1 .. n
    <3>1. IsFiniteSet(D) /\ Shared!Renames(p, D, D) /\ \A j \in D : h[j] \in Nat /\ h[j] = f[p[j]]
      BY <1>4, <1>6, <2>1
    <3>. HIDE DEF D
    <3>2. SumFunctionOnSet(h, D) = SumFunctionOnSet(f, D)
      BY <3>1, Shared!SumRenamed, SharedNames
    <3>. QED  BY <3>2 DEF D
  <2>. QED  BY <1>6, <2>2
<1>. QED  BY <1>3, <1>4, <1>5, <1>8 DEF t, n, r

-----------------------------------------------------------------------------
(* The inductive invariant.                                                *)

Ops == {"none", "start", "load", "touch", "admin"}
Request == [op : Ops, model : Models, target : Nat \cup {Nothing},
            reserve : Nat \cup {Nothing}]
Labels == {"idle", "evict", "shrink", "load", "grow", "retry", "generate", "admin"}
Steps == {"begin", "open", "arenas", "restore", "kv"}

Types ==
  /\ warm \in Seq(Engine)
  /\ free \in Nat /\ taken \in Nat /\ lost \in Nat
  /\ pc \in Labels /\ at \in Nat
  /\ req \in Request
  /\ last \in [req : Request, ok : BOOLEAN]
  /\ step \in Steps
  /\ slots \in Nat /\ arenas \in Nat /\ previous \in Nat
  /\ before \in Nat /\ seen \in Nat

\* What the request is for, by where it is.
Purpose ==
  /\ pc \in {"evict", "shrink", "load", "grow", "retry"} => req.op \in {"start", "load"}
  /\ pc = "generate" => req.op \in {"start", "load", "touch"}
  /\ pc = "admin" => req.op = "admin"
  /\ pc \in {"shrink", "grow", "admin"} => at >= 1

\* What there is of the pager that is being built.
Stages ==
  /\ step \in {"begin", "open"} => arenas = 0
  /\ step # "begin" => Resizing \/ Loading
  /\ step # "begin" /\ Resizing => at \in DOMAIN warm /\ warm[at].pager = NoPager
  /\ step = "restore" => Resizing /\ slots = previous
  /\ step = "kv" => Loading /\ arenas = Layers[Subject]
  /\ step \in {"arenas", "restore"} => arenas <= Layers[Subject]

Balance == free + taken + lost + HeldBy(warm) + Unfinished = Total

\* There is room for the model that is loaded, and it is not warm.
Room ==
  /\ pc \in {"shrink", "load"} => Len(warm) < MaxWarm \/ warm = <<>>
  /\ pc = "retry" => warm = <<>>
  /\ pc \in {"evict", "shrink", "load", "retry"} =>
       \A i \in DOMAIN warm : warm[i].name # req.model

Reported(e) == e.pager # NoPager => e.cur_slots = e.pager

\* A lost cache is taken for one of the shared size only if it has a reserve.
Squeezed(e) ==
  e.pager = NoPager => e.cur_slots # SlotsShared[e.name] \/ e.reserve > 0

\* An admin's resize is about to note another size.
Noting(i) == pc = "admin" /\ step # "begin" /\ i = at

Engines ==
  \A i \in DOMAIN warm : Reported(warm[i]) /\ (Squeezed(warm[i]) \/ Noting(i))

\* The new pager has the wanted size, or is clamped; the old one had the size
\* that is noted, and would still fit if nothing went elsewhere.
Sizing ==
  /\ step = "open" => slots = Wanted
  /\ step \in {"arenas", "kv"} =>
       slots > 0 /\ (slots = Wanted \/ (slots < Wanted /\ Reserve > 0))
  /\ step # "begin" /\ Resizing =>
       /\ previous # NoPager => warm[at].cur_slots = previous
       /\ before + HeldBy(warm) + Layers[Subject] * previous <= Total

Sized(e, count) ==
  \/ e.pager = Want(e.name, count)
  \/ e.pager < Want(e.name, count) /\ e.reserve > 0

\* rebalance has sized the engines before at, and the one just loaded was.
Grown ==
  /\ pc = "grow" =>
       /\ warm # <<>>
       /\ step = "begin" /\ at = 1 => warm[1].pager # NoPager /\ Sized(warm[1], Len(warm))
       /\ \A i \in DOMAIN warm : i < at => Sized(warm[i], Len(warm))
  /\ pc = "generate" /\ req.op \in {"start", "load"} =>
       \A i \in DOMAIN warm : Sized(warm[i], Len(warm))

\* The admin's loop leaves its reserve to the others after every model; until
\* then the arenas to come do.
Reserved ==
  pc = "admin" /\ req.reserve > 0 =>
    /\ step = "begin" /\ at > 1 => free + taken >= seen + req.reserve
    /\ step = "arenas" =>
         free + taken + arenas * slots >= seen + req.reserve + Layers[Subject] * slots

RegistryInv ==
  /\ Types /\ Purpose /\ Stages /\ Balance /\ Room /\ Sizing /\ Grown /\ Reserved
  /\ WarmBounded /\ Engines
  /\ ReserveHonoured /\ SizedForCount

-----------------------------------------------------------------------------
(* Facts the steps share.                                                  *)

(* A whole number of equal parts fits into what it divides.                *)
LEMMA Parts ==
  ASSUME NEW x \in Nat, NEW n \in Nat \ {0}
  PROVE  x \div n \in Nat /\ (x \div n) * n <= x
OBVIOUS

(* The sizes a model may want.                                             *)
LEMMA WantType ==
  ASSUME NEW m \in Models, NEW count \in Nat
  PROVE  /\ Want(m, count) \in Nat \ {0}
         /\ count <= 1 => Want(m, count) = SlotsSolo[m]
         /\ count > 1 => Want(m, count) = SlotsShared[m]
BY RegistryAssumption DEF Want

(* The model whose pager is built, its reserve and the size it wants.      *)
LEMMA SubjectType ==
  ASSUME Types, Loading \/ (Resizing /\ at \in DOMAIN warm)
  PROVE  /\ Subject \in Models /\ Layers[Subject] \in Nat \ {0}
         /\ Core[Subject] \in Nat /\ Kv[Subject] \in Nat
         /\ Reserve \in Nat /\ Wanted \in Nat /\ Count \in Nat
         /\ pc # "admin" => Wanted = Want(Subject, Count)
         /\ Loading => Subject = req.model /\ Reserve = SpecReserve[req.model] /\ pc # "admin"
         /\ Resizing => /\ ~Loading /\ Subject = warm[at].name
                        /\ pc # "admin" => Reserve = warm[at].reserve
                        /\ pc = "admin" /\ req.reserve > 0 => Reserve = req.reserve
<1>1. /\ req.model \in Models /\ req.target \in Nat \cup {Nothing}
      /\ req.reserve \in Nat \cup {Nothing} /\ Len(warm) \in Nat
  BY DEF Types, Request
<1>2. Count \in Nat
  BY <1>1 DEF Count
<1>3. ~(Loading /\ Resizing) /\ (Loading => pc # "admin")
  BY DEF Loading, Resizing
<1>4. Resizing => warm[at] \in Engine
  BY <1>3 DEF Types
<1>5. Subject \in Models /\ (Loading => Subject = req.model) /\ (Resizing => Subject = warm[at].name)
  BY <1>1, <1>3, <1>4 DEF Subject, Engine
<1>6. /\ Loading => Reserve = SpecReserve[req.model]
      /\ Resizing /\ pc # "admin" => Reserve = warm[at].reserve
      /\ Resizing /\ pc = "admin" /\ req.reserve # Nothing => Reserve = req.reserve
      /\ Resizing /\ pc = "admin" /\ req.reserve = Nothing => Reserve = warm[at].reserve
  BY <1>3 DEF Reserve
<1>7. Reserve \in Nat
  <2>1. CASE Loading
    BY <1>1, <1>6, <2>1, RegistryAssumption
  <2>2. CASE Resizing
    <3>1. warm[at].reserve \in Nat
      BY <1>4, <2>2 DEF Engine
    <3>. QED  BY <1>1, <1>6, <2>2, <3>1
  <2>. QED  BY <2>1, <2>2
<1>8. pc # "admin" => Wanted = Want(Subject, Count)
  BY DEF Wanted
<1>9. Wanted \in Nat
  <2>1. CASE pc # "admin"
    BY <1>2, <1>5, <1>8, <2>1, WantType
  <2>2. CASE pc = "admin"
    <3>1. SlotsSolo[Subject] \in Nat
      BY <1>5, RegistryAssumption
    <3>2. Wanted = IF req.target # Nothing THEN req.target ELSE SlotsSolo[Subject]
      BY <2>2 DEF Wanted
    <3>. QED  BY <1>1, <3>1, <3>2
  <2>. QED  BY <2>1, <2>2
<1>10. /\ Layers[Subject] \in Nat \ {0} /\ Core[Subject] \in Nat /\ Kv[Subject] \in Nat
  BY <1>5, RegistryAssumption
<1>11. req.reserve > 0 => req.reserve # Nothing
  BY <1>1 DEF Nothing
<1>. QED  BY <1>2, <1>3, <1>5, <1>6, <1>7, <1>8, <1>9, <1>10, <1>11

(* A reserve clamps the slots to what fits beside it.                      *)
LEMMA ClampEffect ==
  ASSUME Types, Loading \/ (Resizing /\ at \in DOMAIN warm), NEW n \in Nat
  PROVE  /\ Clamped(n) \in Nat /\ Clamped(n) <= n
         /\ Clamped(n) < n => Reserve > 0
         /\ Reserve > 0 /\ Clamped(n) > 0 => Layers[Subject] * Clamped(n) + Reserve <= free
<1>. DEFINE L == Layers[Subject]
            fits == IF free > Reserve THEN (free - Reserve) \div L ELSE 0
            c == Clamped(n)
<1>1. L \in Nat \ {0} /\ Reserve \in Nat /\ free \in Nat
  BY SubjectType DEF Types
<1>2. c = IF Reserve > 0 THEN Least(n, fits) ELSE n
  BY DEF Clamped
<1>. HIDE DEF L, c
<1>3. fits \in Nat /\ (free > Reserve => fits * L <= free - Reserve)
  <2>1. CASE free > Reserve
    <3>1. free - Reserve \in Nat
      BY <1>1, <2>1
    <3>. QED  BY <1>1, <2>1, <3>1, Parts
  <2>2. CASE ~(free > Reserve)
    BY <2>2
  <2>. QED  BY <2>1, <2>2
<1>4. fits > 0 => free > Reserve
  OBVIOUS
<1>. HIDE DEF fits
<1>5. c \in Nat /\ c <= n /\ (c < n => Reserve > 0) /\ (Reserve > 0 => c <= fits)
  BY <1>1, <1>2, <1>3 DEF Least
<1>6. Reserve > 0 /\ c > 0 => L * c + Reserve <= free
  <2>. SUFFICES ASSUME Reserve > 0, c > 0
                PROVE  L * c + Reserve <= free
    OBVIOUS
  <2>1. free > Reserve
    BY <1>3, <1>4, <1>5
  <2>2. \A x, y, z \in Nat : x <= y => z * x <= y * z
    OBVIOUS
  <2>3. L * c <= fits * L
    BY <1>1, <1>3, <1>5, <2>2
  <2>4. L * c \in Nat /\ fits * L \in Nat
    BY <1>1, <1>3, <1>5
  <2>. QED  BY <1>1, <1>3, <2>1, <2>3, <2>4
<1>. QED  BY <1>5, <1>6 DEF L, c

(* What is unfinished.                                                     *)
LEMMA UnfinishedType ==
  ASSUME Types, Stages
  PROVE  /\ Unfinished \in Nat /\ arenas * slots \in Nat
         /\ step = "begin" => Unfinished = 0
         /\ step # "begin" /\ Loading => Unfinished = Core[req.model] + arenas * slots
         /\ ~Loading => Unfinished = arenas * slots
<1>1. req.model \in Models /\ arenas \in Nat /\ slots \in Nat
  BY DEF Types, Request
<1>2. Core[req.model] \in Nat
  BY <1>1, RegistryAssumption
<1>3. arenas * slots \in Nat
  BY <1>1
<1>4. step = "begin" => arenas * slots = 0
  BY <1>1 DEF Stages
<1>5. Unfinished = (IF Loading /\ step # "begin" THEN Core[req.model] ELSE 0) + arenas * slots
  BY DEF Unfinished
<1>. DEFINE p == arenas * slots
<1>. HIDE DEF p
<1>6. /\ p \in Nat /\ (step = "begin" => p = 0)
      /\ Unfinished = (IF Loading /\ step # "begin" THEN Core[req.model] ELSE 0) + p
  BY <1>3, <1>4, <1>5 DEF p
<1>7. /\ Unfinished \in Nat /\ (step = "begin" => Unfinished = 0)
      /\ step # "begin" /\ Loading => Unfinished = Core[req.model] + p
      /\ ~Loading => Unfinished = p
  BY <1>2, <1>6
<1>. QED  BY <1>3, <1>7 DEF p

(* One engine's record changes, its name does not.                         *)
LEMMA Replaced ==
  ASSUME Types, NEW k \in DOMAIN warm, NEW e \in Engine, e.name = warm[k].name,
         warm' = [warm EXCEPT ![k] = e]
  PROVE  /\ warm' \in Seq(Engine) /\ Len(warm') = Len(warm) /\ DOMAIN warm' = DOMAIN warm
         /\ \A i \in DOMAIN warm : warm'[i] = IF i = k THEN e ELSE warm[i]
         /\ \A i \in DOMAIN warm : warm'[i].name = warm[i].name
         /\ HeldBy(warm') \in Nat /\ HeldBy(warm) \in Nat
         /\ Arenas(e) \in Nat /\ Arenas(warm[k]) \in Nat
         /\ HeldBy(warm') + Arenas(warm[k]) = HeldBy(warm) + Arenas(e)
         /\ WarmBounded => WarmBounded'
<1>1. /\ warm \in Seq(Engine) /\ k \in 1 .. Len(warm) /\ warm[k] \in Engine
      /\ DOMAIN warm = 1 .. Len(warm)
  BY DEF Types
<1>2. /\ warm' \in Seq(Engine) /\ Len(warm') = Len(warm)
      /\ HeldBy(warm') + Held(warm[k]) = HeldBy(warm) + Held(e)
  BY <1>1, HeldByExcept
<1>3. \A i \in DOMAIN warm : warm'[i] = IF i = k THEN e ELSE warm[i]
  BY <1>1
<1>4. DOMAIN warm' = DOMAIN warm
  BY <1>1, <1>2
<1>5. \A i \in DOMAIN warm : warm'[i].name = warm[i].name
  BY <1>3
<1>6. WarmBounded => WarmBounded'
  BY <1>2, <1>4, <1>5 DEF WarmBounded
<1>. DEFINE rest == Core[e.name] + Kv[e.name]
<1>7. /\ Held(e) = rest + Arenas(e) /\ Held(warm[k]) = rest + Arenas(warm[k])
      /\ rest \in Nat /\ Arenas(e) \in Nat /\ Arenas(warm[k]) \in Nat
  <2>1. Held(e) = rest + Arenas(e)
    BY Zenon DEF Held
  <2>2. Held(warm[k]) = rest + Arenas(warm[k])
    BY Zenon DEF Held
  <2>3. Core[e.name] \in Nat /\ Kv[e.name] \in Nat /\ Arenas(e) \in Nat
    BY HeldType, Zenon
  <2>4. Arenas(warm[k]) \in Nat
    BY <1>1, HeldType, Zenon
  <2>5. rest \in Nat
    <3>1. \A x, y \in Nat : x + y \in Nat
      OBVIOUS
    <3>. QED  BY <2>3, <3>1, Zenon
  <2>. QED  BY <2>1, <2>2, <2>4, <2>3, <2>5, Zenon
<1>. HIDE DEF rest
<1>8. HeldBy(warm') \in Nat /\ HeldBy(warm) \in Nat
  BY <1>1, <1>2, HeldByType
<1>9. HeldBy(warm') + Arenas(warm[k]) = HeldBy(warm) + Arenas(e)
  <2>1. HeldBy(warm') + (rest + Arenas(warm[k])) = HeldBy(warm) + (rest + Arenas(e))
    BY <1>2, <1>7
  <2>. QED  BY <1>7, <1>8, <2>1
<1>. QED  BY <1>2, <1>3, <1>4, <1>5, <1>6, <1>7, <1>8, <1>9

(* The same of the next state, when no pager is being built there.         *)
LEMMA NothingUnfinished ==
  ASSUME step' = "begin", arenas' = 0, slots' \in Nat
  PROVE  Unfinished' = 0
<1>1. \A x \in Nat : 0 * x = 0
  OBVIOUS
<1>2. arenas' * slots' = 0
  BY <1>1
<1>3. Unfinished' = (IF Loading' /\ step' # "begin" THEN Core[req'.model] ELSE 0) + arenas' * slots'
  BY DEF Unfinished
<1>. DEFINE p == arenas' * slots'
<1>4. p = 0 /\ Unfinished' = 0 + p
  BY <1>2, <1>3
<1>. HIDE DEF p
<1>. QED  BY <1>4

(* A request that ends leaves a registry in order, when its result is.     *)
LEMMA FinishKeeps ==
  ASSUME NEW ok \in BOOLEAN, NEW dies, Finish(ok, dies), req \in Request,
         warm' \in Seq(Engine), free' \in Nat, taken' \in Nat, lost' \in Nat,
         step' = "begin", slots' \in Nat, arenas' = 0, previous' \in Nat,
         before' \in Nat, seen' \in Nat,
         free' + taken' + lost' + HeldBy(warm') = Total, WarmBounded',
         \A i \in DOMAIN warm' : Reported(warm[i])' /\ Squeezed(warm[i])',
         ok /\ req.op = "admin" /\ req.reserve > 0 /\ warm' # <<>> =>
           free' + taken' >= seen' + req.reserve,
         ok /\ req.op \in {"start", "load"} =>
           \A i \in DOMAIN warm' : Sized(warm[i], Len(warm))'
  PROVE  RegistryInv'
<1>1. /\ pc' = "idle" /\ at' = 0 /\ req' = Quiet /\ last' = [req |-> req, ok |-> ok]
  BY DEF Finish
<1>2. Quiet \in Request /\ 0 \in Nat
  BY RegistryAssumption DEF Quiet, Request, Ops
<1>3. Types'
  BY <1>1, <1>2 DEF Types, Labels, Steps
<1>4. ~Resizing' /\ ~Loading'
  BY <1>1 DEF Resizing, Loading
<1>5. Stages'
  BY DEF Stages
<1>6. Unfinished' = 0
  BY NothingUnfinished
<1>7. Balance'
  <2>1. HeldBy(warm') \in Nat
    BY HeldByType
  <2>. QED  BY <1>6, <2>1, SMTT(20) DEF Balance
<1>8. Purpose' /\ Room' /\ Grown' /\ Reserved' /\ Sizing'
  BY <1>1 DEF Purpose, Room, Grown, Reserved, Sizing
<1>9. ReserveHonoured'
  BY <1>1 DEF ReserveHonoured
<1>10. SizedForCount'
  BY <1>1 DEF SizedForCount, Sized
<1>11. Engines'
  BY DEF Engines
<1>. QED  BY <1>3, <1>5, <1>7, <1>8, <1>9, <1>10, <1>11 DEF RegistryInv

(* A load that fails leaves no engine, and loses what it got.              *)
LEMMA LoadFailsKeeps ==
  ASSUME RegistryInv, Loading, NEW gone \in Nat, gone <= free + Unfinished,
         LoadFails(gone), taken' = taken, seen' \in Nat
  PROVE  RegistryInv'
<1>1. /\ Types /\ Purpose /\ Stages /\ Balance /\ pc \in {"load", "retry"}
      /\ req \in Request /\ warm \in Seq(Engine)
      /\ free \in Nat /\ taken \in Nat /\ lost \in Nat
  BY DEF RegistryInv, Types, Loading
<1>2. /\ lost' = lost + gone /\ free' = free + Unfinished + HeldBy(warm) - gone /\ warm' = <<>>
      /\ step' = "begin" /\ slots' = 0 /\ arenas' = 0 /\ previous' = 0 /\ before' = 0
  BY DEF LoadFails, Rest, NoPager
<1>3. /\ warm' \in Seq(Engine) /\ Len(warm') = 0 /\ DOMAIN warm' = {}
  BY <1>2
<1>4. HeldBy(warm') = 0
  BY <1>2, HeldByNone, Zenon
<1>5. HeldBy(warm) \in Nat /\ Unfinished \in Nat
  BY <1>1, HeldByType, UnfinishedType
<1>6. /\ free' \in Nat /\ lost' \in Nat /\ taken' \in Nat
      /\ free' + taken' + lost' = Total
  <2>. DEFINE u == Unfinished
              h == HeldBy(warm)
  <2>1. /\ u \in Nat /\ h \in Nat /\ free + taken + lost + h + u = Total /\ gone <= free + u
        /\ free' = free + u + h - gone /\ lost' = lost + gone
    BY <1>1, <1>2, <1>5 DEF Balance
  <2>. HIDE DEF u, h
  <2>. QED  BY <1>1, <2>1
<1>7. free' + taken' + lost' + HeldBy(warm') = Total
  BY <1>4, <1>6
<1>8. WarmBounded'
  BY <1>3 DEF WarmBounded
<1>9. CASE warm = <<>>
  <2>1. Finish(FALSE, req.op = "start" /\ ~FALSE)
    BY <1>9 DEF LoadFails, Return
  <2>. QED  BY <1>1, <1>2, <1>3, <1>6, <1>7, <1>8, <2>1, FinishKeeps
<1>10. CASE warm # <<>>
  <2>1. pc' = "retry" /\ at' = 1 /\ UNCHANGED <<req, last>>
    BY <1>10 DEF LoadFails, Goto
  <2>2. Types'
    BY <1>1, <1>2, <1>3, <1>6, <2>1 DEF Types, Labels, Steps
  <2>3. Stages'
    BY <1>2 DEF Stages
  <2>4. Balance'
    <3>1. Unfinished' = 0
      BY <1>2, NothingUnfinished
    <3>. QED  BY <1>4, <1>6, <3>1 DEF Balance
  <2>5. req.op \in {"start", "load"}
    BY <1>1 DEF Purpose
  <2>6. Purpose' /\ Room' /\ Grown' /\ Reserved' /\ Sizing'
    BY <1>2, <1>3, <2>1, <2>5 DEF Purpose, Room, Grown, Reserved, Sizing
  <2>7. ReserveHonoured' /\ SizedForCount' /\ Engines'
    BY <1>3, <2>1 DEF ReserveHonoured, SizedForCount, Engines
  <2>. QED  BY <1>8, <2>2, <2>3, <2>4, <2>6, <2>7 DEF RegistryInv
<1>. QED  BY <1>9, <1>10

(* resize_cache returns with n slots: those it built, those it restored,   *)
(* those it never touched, or none.                                        *)
LEMMA EndResizeKeeps ==
  ASSUME RegistryInv, Resizing, at \in DOMAIN warm, NEW n \in Nat, NEW ok \in BOOLEAN,
         EndResize(n, ok),
         free' \in Nat, taken' \in Nat, lost' \in Nat, seen' \in Nat,
         free' + taken' + lost' + HeldBy(warm) + Layers[Subject] * n
           = Total + Arenas(warm[at]),
         ok => step = "arenas" /\ n = slots,
         ok /\ pc = "admin" /\ req.reserve > 0 => free' + taken' >= seen' + req.reserve,
         ~ok => \/ n = NoPager /\ step # "begin"
                \/ n = previous /\ step # "begin"
                \/ n = warm[at].pager /\ step = "begin"
  PROVE  RegistryInv'
<1>1. /\ Types /\ Purpose /\ Stages /\ Balance /\ Room /\ Sizing /\ Grown /\ Reserved
      /\ WarmBounded /\ Engines /\ ReserveHonoured /\ SizedForCount
  BY DEF RegistryInv
<1>2. /\ pc \in {"shrink", "grow", "admin"} /\ warm \in Seq(Engine) /\ Len(warm) \in Nat
      /\ DOMAIN warm = 1 .. Len(warm) /\ warm[at] \in Engine /\ req \in Request /\ at \in Nat
  BY <1>1 DEF Types, Resizing
<1>k. PICK k \in DOMAIN warm : k = at
  OBVIOUS
<1>e. PICK e \in Engine : e = warm[k]
  BY <1>2, <1>k
<1>3. /\ e.name \in Models /\ e.pager \in Nat /\ e.cur_slots \in Nat /\ e.reserve \in Nat
  BY DEF Engine
<1>4. /\ Subject = e.name /\ Reserve \in Nat /\ Wanted \in Nat /\ Count \in Nat
      /\ pc # "admin" => Wanted = Want(e.name, Count) /\ Reserve = e.reserve
  BY <1>1, <1>e, <1>k, SubjectType
<1>f. PICK f : f = [e EXCEPT !.pager = n,
                             !.cur_slots = IF ok \/ pc = "admin" THEN n ELSE e.cur_slots,
                             !.reserve = IF ok THEN Reserve ELSE e.reserve]
  OBVIOUS
<1>5. /\ f \in Engine /\ f.name = e.name /\ f.pager = n
      /\ f.cur_slots = IF ok \/ pc = "admin" THEN n ELSE e.cur_slots
      /\ f.reserve = IF ok THEN Reserve ELSE e.reserve
  BY <1>3, <1>4, <1>f DEF Engine
<1>6. /\ warm' = [warm EXCEPT ![k] = f] /\ Continue(ok) /\ Rest
  BY <1>e, <1>k, <1>f DEF EndResize
<1>7. /\ warm' \in Seq(Engine) /\ Len(warm') = Len(warm) /\ DOMAIN warm' = DOMAIN warm
      /\ \A i \in DOMAIN warm : warm'[i] = IF i = k THEN f ELSE warm[i]
      /\ \A i \in DOMAIN warm : warm'[i].name = warm[i].name
      /\ HeldBy(warm') \in Nat /\ HeldBy(warm) \in Nat
      /\ Arenas(f) \in Nat /\ Arenas(warm[k]) \in Nat
      /\ HeldBy(warm') + Arenas(warm[k]) = HeldBy(warm) + Arenas(f)
      /\ WarmBounded'
  <2>1. f \in Engine /\ f.name = warm[k].name
    BY <1>5, <1>e
  <2>. QED  BY <1>1, <1>6, <2>1, Replaced
<1>8. /\ step' = "begin" /\ slots' = 0 /\ arenas' = 0 /\ previous' = 0 /\ before' = 0
  BY <1>6 DEF Rest, NoPager
<1>9. free' + taken' + lost' + HeldBy(warm') = Total
  <2>. DEFINE h == HeldBy(warm)
              g == HeldBy(warm')
              a == Arenas(warm[k])
              b == Arenas(f)
              s == free' + taken' + lost'
  <2>1. Layers[Subject] * n = b
    BY <1>4, <1>5, Zenon DEF Arenas
  <2>t. Total \in Nat
    BY RegistryAssumption
  <2>a. Arenas(warm[at]) = a
    BY <1>k
  <2>s. s \in Nat
    OBVIOUS
  <2>u. s + h + b = Total + a
    BY <2>1, <2>a
  <2>. HIDE DEF s
  <2>2. /\ h \in Nat /\ g \in Nat /\ a \in Nat /\ b \in Nat /\ s \in Nat
        /\ g + a = h + b /\ s + h + b = Total + a /\ Total \in Nat
    BY <1>7, <2>t, <2>s, <2>u
  <2>. HIDE DEF h, g, a, b
  <2>3. s + g = Total
    BY <2>2
  <2>. QED  BY <2>3 DEF s, g
<1>10. /\ ok => n > 0 /\ (n = Wanted \/ (n < Wanted /\ Reserve > 0))
       /\ step # "begin" => (previous # NoPager => e.cur_slots = previous)
  BY <1>1, <1>2, <1>e, <1>k DEF Sizing
<1>11. Reported(f)
  <2>1. CASE ok \/ pc = "admin"
    BY <1>5, <2>1 DEF Reported
  <2>2. CASE ~ok /\ step # "begin"
    BY <1>5, <1>10, <2>2 DEF Reported, NoPager
  <2>3. CASE ~ok /\ step = "begin"
    <3>1. Reported(e)
      BY <1>1, <1>e DEF Engines
    <3>. QED  BY <1>5, <1>e, <1>k, <2>3, <3>1 DEF Reported
  <2>. QED  BY <2>1, <2>2, <2>3
<1>12. Squeezed(f)
  <2>1. CASE ok
    BY <1>5, <1>10, <2>1 DEF Squeezed, NoPager
  <2>2. CASE pc = "admin" /\ ~ok
    <3>1. SlotsShared[f.name] \in Nat \ {0}
      BY <1>3, <1>5, RegistryAssumption
    <3>. QED  BY <1>5, <2>2, <3>1 DEF Squeezed, NoPager
  <2>3. CASE pc # "admin" /\ ~ok
    <3>1. Squeezed(e)
      BY <1>1, <1>e, <2>3 DEF Engines, Noting
    <3>2. step # "begin" => e.pager = NoPager
      BY <1>1, <1>e, <1>k DEF Stages
    <3>. QED  BY <1>5, <1>e, <1>k, <2>3, <3>1, <3>2 DEF Squeezed
  <2>. QED  BY <2>1, <2>2, <2>3
<1>13. ASSUME NEW i \in DOMAIN warm'
       PROVE  Reported(warm'[i]) /\ Squeezed(warm'[i])
  <2>1. CASE i = k
    BY <1>7, <1>11, <1>12, <2>1
  <2>2. CASE i # k
    <3>1. warm'[i] = warm[i] /\ Reported(warm[i]) /\ Squeezed(warm[i])
      BY <1>1, <1>7, <1>k, <2>2 DEF Engines, Noting
    <3>. QED  BY <3>1
  <2>. QED  BY <2>1, <2>2
<1>14. CASE ok
  <2>1. at' = at + 1 /\ UNCHANGED <<pc, req, last>>
    BY <1>6, <1>14 DEF Continue
  <2>a. at' \in Nat /\ 0 \in Nat
    BY <1>2, <2>1
  <2>2. Types'
    BY <1>1, <1>7, <1>8, <2>1, <2>a DEF Types, Steps
  <2>3. Stages'
    BY <1>8 DEF Stages
  <2>4. Balance'
    <3>1. Unfinished' = 0
      BY <1>8, NothingUnfinished
    <3>. QED  BY <1>7, <1>9, <3>1, SMTT(20) DEF Balance
  <2>5. Purpose' /\ ReserveHonoured' /\ SizedForCount' /\ Sizing'
    BY <1>1, <1>2, <1>8, <2>1, SMTT(20) DEF Purpose, ReserveHonoured, SizedForCount, Sizing
  <2>6. warm # <<>> /\ warm' # <<>>
    BY <1>2, <1>7
  <2>7. Room'
    BY <1>1, <1>2, <1>7, <2>1, <2>6 DEF Room
  <2>8. Engines'
    BY <1>13, <1>8 DEF Engines, Reported, Squeezed
  <2>9. Reserved'
    BY <1>8, <1>14, <2>1 DEF Reserved
  <2>10. Grown'
    <3>1. pc = "grow" => Sized(f, Len(warm))
      <4>1. pc = "grow" =>
              Count = Len(warm) /\ Wanted = Want(f.name, Len(warm)) /\ Reserve = f.reserve
        BY <1>4, <1>5, <1>14 DEF Count
      <4>. QED  BY <1>5, <1>10, <1>14, <4>1 DEF Sized
    <3>2. ASSUME pc = "grow", NEW i \in DOMAIN warm, i < at + 1
          PROVE  Sized(warm'[i], Len(warm))
      <4>i. i \in Nat /\ at \in Nat
        BY <1>2, <1>7, <3>2
      <4>1. i < at \/ i = k
        BY <4>i, <1>k, <3>2
      <4>. QED  BY <1>1, <1>7, <3>1, <3>2, <4>1 DEF Grown
    <3>3. at + 1 # 1
      BY <1>2
    <3>. QED  BY <1>2, <1>7, <2>1, <2>6, <3>2, <3>3 DEF Grown, Sized
  <2>. QED  BY <1>7, <2>2, <2>3, <2>4, <2>5, <2>7, <2>8, <2>9, <2>10 DEF RegistryInv
<1>15. CASE ~ok
  <2>1. Finish(FALSE, req.op = "start" /\ ~FALSE)
    BY <1>6, <1>15 DEF Continue, Return
  <2>2. \A i \in DOMAIN warm' : Reported(warm[i])' /\ Squeezed(warm[i])'
    BY <1>13 DEF Reported, Squeezed
  <2>. QED  BY <1>2, <1>7, <1>8, <1>9, <2>1, <2>2, FinishKeeps
<1>. QED  BY <1>14, <1>15

(* What is unfinished in the next state.                                   *)
LEMMA UnfinishedNext ==
  ASSUME Types, UNCHANGED <<pc, req>>, step' # "begin",
         arenas' \in Nat, slots' \in Nat, Resizing \/ Loading
  PROVE  /\ arenas' * slots' \in Nat /\ Core[req.model] \in Nat
         /\ Loading => Unfinished' = Core[req.model] + arenas' * slots'
         /\ Resizing => Unfinished' = arenas' * slots'
<1>1. Unfinished' = (IF Loading' /\ step' # "begin" THEN Core[req'.model] ELSE 0) + arenas' * slots'
  BY DEF Unfinished
<1>2. Loading' <=> Loading
  BY DEF Loading
<1>3. Resizing => ~Loading
  BY DEF Resizing, Loading
<1>4. Core[req.model] \in Nat
  BY RegistryAssumption DEF Types, Request
<1>. DEFINE p == arenas' * slots'
<1>5. p \in Nat
  <2>1. \A x, y \in Nat : x * y \in Nat
    OBVIOUS
  <2>. QED  BY <2>1
<1>6. Unfinished' = (IF Loading' /\ step' # "begin" THEN Core[req'.model] ELSE 0) + p
  BY <1>1
<1>. HIDE DEF p
<1>7. /\ Loading => Unfinished' = Core[req.model] + p
      /\ Resizing => Unfinished' = p
  BY <1>2, <1>3, <1>4, <1>5, <1>6
<1>. QED  BY <1>4, <1>5, <1>7 DEF p

(* A step of resize_cache or of Decoder::new leaves the engines alone.     *)
LEMMA StepFrame ==
  ASSUME RegistryInv, UNCHANGED <<warm, pc, at, req, last>>, step' # "begin",
         Resizing \/ Loading
  PROVE  /\ Purpose' /\ Room' /\ WarmBounded' /\ Engines' /\ Grown'
         /\ ReserveHonoured' /\ SizedForCount'
<1>1. Purpose' /\ Room'
  BY DEF RegistryInv, Purpose, Room
<1>2. WarmBounded'
  BY DEF RegistryInv, WarmBounded
<1>3. Engines'
  BY DEF RegistryInv, Engines, Noting, Reported, Squeezed
<1>4. Grown'
  BY DEF RegistryInv, Grown, Sized
<1>5. ReserveHonoured' /\ SizedForCount'
  BY DEF ReserveHonoured, SizedForCount, Resizing, Loading
<1>. QED  BY <1>1, <1>2, <1>3, <1>4, <1>5

(* Pager::new fails.                                                       *)
LEMMA PagerFailsKeeps ==
  ASSUME RegistryInv, step \in {"open", "arenas", "restore"}, PagerFails,
         taken' = taken, seen' \in Nat
  PROVE  RegistryInv'
<1>1. /\ Types /\ Purpose /\ Stages /\ Balance /\ Room /\ Sizing /\ Grown /\ Reserved
      /\ Unfinished \in Nat /\ HeldBy(warm) \in Nat
      /\ free \in Nat /\ taken \in Nat /\ lost \in Nat
  <2>1. Types /\ Purpose /\ Stages /\ Balance /\ Room /\ Sizing /\ Grown /\ Reserved
    BY DEF RegistryInv
  <2>. QED  BY <2>1, UnfinishedType, HeldByType DEF Types
<1>2. CASE Loading /\ LoadFails(Unfinished)
  <2>1. Unfinished <= free + Unfinished
    BY <1>1
  <2>. QED  BY <1>1, <1>2, <2>1, LoadFailsKeeps
<1>3. CASE /\ Resizing /\ lost' = lost + Unfinished /\ free' = free
           /\ step = "restore" /\ EndResize(NoPager, FALSE)
  <2>1. at \in DOMAIN warm /\ warm[at].pager = 0 /\ warm[at] \in Engine
    BY <1>1, <1>3 DEF Stages, NoPager, Types
  <2>2. Arenas(warm[at]) = 0 /\ Layers[Subject] * NoPager = 0
    <3>1. Layers[Subject] \in Nat /\ Subject = warm[at].name
      BY <1>1, <1>3, <2>1, SubjectType
    <3>2. \A x \in Nat : x * 0 = 0
      OBVIOUS
    <3>. QED  BY <2>1, <3>1, <3>2 DEF Arenas, NoPager
  <2>3. /\ free' + taken' + lost' + HeldBy(warm) = Total
        /\ Total \in Nat
    <3>1. free + taken + lost + HeldBy(warm) + Unfinished = Total
      BY <1>1 DEF Balance
    <3>2. Total \in Nat
      BY RegistryAssumption
    <3>. DEFINE u == Unfinished
                h == HeldBy(warm)
    <3>3. u \in Nat /\ h \in Nat /\ free + taken + lost + h + u = Total /\ lost' = lost + u
      BY <1>1, <1>3, <3>1
    <3>. HIDE DEF u, h
    <3>4. free' + taken' + lost' + h = Total
      BY <1>1, <1>3, <3>3
    <3>. QED  BY <3>2, <3>4 DEF h
  <2>4. free' + taken' + lost' + HeldBy(warm) + Layers[Subject] * NoPager = Total + Arenas(warm[at])
    BY <2>2, <2>3
  <2>5. NoPager \in Nat /\ free' \in Nat /\ taken' \in Nat /\ lost' \in Nat
    BY <1>1, <1>3 DEF NoPager
  <2>. QED  BY <1>3, <2>1, <2>4, <2>5, EndResizeKeeps
<1>4. CASE /\ Resizing /\ lost' = lost + Unfinished /\ free' = free
           /\ step' = "restore" /\ slots' = Restored /\ arenas' = 0
           /\ UNCHANGED <<warm, control, previous, before>>
  <2>1. /\ UNCHANGED <<warm, pc, at, req, last, previous, before>> /\ slots' = previous
        /\ at \in DOMAIN warm /\ warm[at].pager = NoPager
    BY <1>1, <1>4 DEF control, Restored, Stages
  <2>2. Types'
    <3>1. lost' \in Nat /\ previous \in Nat /\ 0 \in Nat
      BY <1>1, <1>4 DEF Types
    <3>. QED  BY <1>1, <1>4, <2>1, <3>1 DEF Types, Steps
  <2>3. Stages'
    <3>1. Layers[Subject] \in Nat /\ Subject' = Subject
      <4>1. Subject' = Subject
        BY <2>1 DEF Subject, Loading
      <4>. QED  BY <1>1, <1>4, <2>1, <4>1, SubjectType
    <3>. QED  BY <1>4, <2>1, <3>1 DEF Stages, Resizing, Loading
  <2>4. Balance'
    <3>1. slots' \in Nat /\ arenas' \in Nat
      BY <1>1, <1>4, <2>1 DEF Types
    <3>2. Unfinished' = arenas' * slots'
      BY <1>1, <1>4, <2>1, <3>1, UnfinishedNext
    <3>3. arenas' * slots' = 0
      <4>1. \A x \in Nat : 0 * x = 0
        OBVIOUS
      <4>. QED  BY <1>4, <3>1, <4>1
    <3>4. free + taken + lost + HeldBy(warm) + Unfinished = Total
      BY <1>1 DEF Balance
    <3>. DEFINE u == Unfinished
                h == HeldBy(warm)
    <3>5. u \in Nat /\ h \in Nat /\ free + taken + lost + h + u = Total /\ lost' = lost + u
      BY <1>1, <1>4, <3>4
    <3>6. HeldBy(warm') = h
      BY <2>1
    <3>. HIDE DEF u, h
    <3>7. free' + taken' + lost' + h = Total
      BY <1>1, <1>4, <3>5
    <3>8. Total \in Nat
      BY RegistryAssumption
    <3>9. Unfinished' = 0
      BY <3>2, <3>3
    <3>. QED  BY <3>5, <3>6, <3>7, <3>8, <3>9 DEF Balance
  <2>5. Sizing'
    <3>1. step # "begin"
      OBVIOUS
    <3>2. Subject' = Subject
      BY <2>1 DEF Subject, Loading
    <3>. QED  BY <1>1, <1>4, <2>1, <3>1, <3>2 DEF Sizing, Resizing
  <2>6. Reserved'
    BY <1>4 DEF Reserved
  <2>. QED  BY <1>4, <2>1, <2>2, <2>3, <2>4, <2>5, <2>6, StepFrame DEF RegistryInv
<1>. QED  BY <1>2, <1>3, <1>4 DEF PagerFails

(* Nothing that a size depends on changes.                                 *)
LEMMA SameWants ==
  ASSUME UNCHANGED <<warm, pc, at, req>>
  PROVE  /\ Subject' = Subject /\ Wanted' = Wanted /\ Reserve' = Reserve /\ Count' = Count
         /\ Loading' = Loading /\ Resizing' = Resizing
<1>1. Loading' = Loading /\ Resizing' = Resizing
  BY DEF Loading, Resizing
<1>2. Subject' = Subject
  BY <1>1 DEF Subject
<1>3. Count' = Count
  BY DEF Count
<1>4. Reserve' = Reserve
  BY <1>1 DEF Reserve
<1>5. Wanted' = Wanted
  BY <1>2, <1>3 DEF Wanted, Want
<1>. QED  BY <1>1, <1>2, <1>3, <1>4, <1>5

(* Pager::new fits the slots beside the reserve, or refuses.               *)
LEMMA OpenPagerKeeps == ASSUME RegistryInv, OpenPager PROVE RegistryInv'
<1>1. /\ Types /\ Stages /\ Balance /\ Sizing /\ step = "open" /\ taken' = taken
      /\ HeldBy(warm) \in Nat /\ slots \in Nat /\ arenas = 0
      /\ free \in Nat /\ taken \in Nat /\ lost \in Nat
      /\ Resizing \/ Loading
      /\ Resizing => at \in DOMAIN warm /\ pc \in {"shrink", "grow", "admin"}
  BY HeldByType DEF RegistryInv, Types, Stages, OpenPager, Resizing
<1>2. seen' \in Nat /\ (pc = "admin" => seen' = taken)
  BY <1>1 DEF OpenPager, Types
<1>3. CASE Clamped(slots) = 0
  <2>1. PagerFails
    BY <1>3 DEF OpenPager
  <2>. QED  BY <1>1, <1>2, <2>1, PagerFailsKeeps
<1>4. CASE Clamped(slots) # 0
  <2>. DEFINE c == Clamped(slots)
  <2>1. /\ step' = "arenas" /\ slots' = c
        /\ UNCHANGED <<warm, free, lost, pc, at, req, last, arenas, previous, before>>
    BY <1>4 DEF OpenPager, control
  <2>2. /\ c \in Nat /\ c > 0 /\ c <= slots /\ (c < slots => Reserve > 0)
        /\ Reserve > 0 => Layers[Subject] * c + Reserve <= free
    BY <1>1, <1>4, ClampEffect
  <2>3. /\ Reserve \in Nat /\ Layers[Subject] \in Nat
        /\ Resizing /\ pc = "admin" /\ req.reserve > 0 => Reserve = req.reserve
    BY <1>1, SubjectType
  <2>4. /\ Subject' = Subject /\ Wanted' = Wanted /\ Reserve' = Reserve
        /\ Loading' = Loading /\ Resizing' = Resizing
    BY <2>1, SameWants
  <2>. HIDE DEF c
  <2>5. Types'
    BY <1>1, <1>2, <2>1, <2>2 DEF Types, Steps
  <2>6. Stages'
    BY <1>1, <2>1, <2>3, <2>4 DEF Stages
  <2>7. Balance'
    <3>1. \A x \in Nat : 0 * x = 0
      OBVIOUS
    <3>2. arenas' * slots' = 0 /\ arenas * slots = 0
      BY <1>1, <2>1, <2>2, <3>1
    <3>3. Unfinished' = Unfinished
      <4>1. /\ Loading => Unfinished' = Core[req.model] + arenas' * slots'
            /\ Resizing => Unfinished' = arenas' * slots'
        BY <1>1, <2>1, <2>2, UnfinishedNext
      <4>2. /\ Loading => Unfinished = Core[req.model] + arenas * slots
            /\ Resizing => Unfinished = arenas * slots
        BY <1>1, UnfinishedType DEF Loading, Resizing
      <4>. QED  BY <1>1, <3>2, <4>1, <4>2
    <3>. QED  BY <1>1, <2>1, <3>3 DEF Balance
  <2>8. Sizing'
    BY <1>1, <2>1, <2>2, <2>4 DEF Sizing
  <2>9. Reserved'
    <3>. SUFFICES ASSUME pc = "admin", req.reserve > 0
                  PROVE  free + taken + 0 * c >= taken + req.reserve + Layers[Subject] * c
      BY <1>1, <1>2, <2>1, <2>4 DEF Reserved
    <3>1. Reserve = req.reserve
      BY <2>3 DEF Resizing
    <3>2. Layers[Subject] * c \in Nat /\ 0 * c = 0
      BY <2>2, <2>3
    <3>. DEFINE p == Layers[Subject] * c
    <3>3. p \in Nat /\ p + Reserve <= free
      BY <2>2, <3>1, <3>2
    <3>. HIDE DEF p
    <3>4. free + taken >= taken + Reserve + p
      BY <1>1, <2>3, <3>3
    <3>. QED  BY <1>1, <3>1, <3>2, <3>4 DEF p
  <2>. QED  BY <1>1, <2>1, <2>5, <2>6, <2>7, <2>8, <2>9, StepFrame DEF RegistryInv
<1>. QED  BY <1>3, <1>4

(* An arena moves from free to unfinished, or does not fit.                *)
LEMMA AllocArenaKeeps == ASSUME RegistryInv, AllocArena PROVE RegistryInv'
<1>1. /\ Types /\ Stages /\ Balance /\ Sizing /\ Reserved
      /\ step \in {"arenas", "restore"} /\ arenas < Layers[Subject]
      /\ taken' = taken /\ seen' = seen
      /\ HeldBy(warm) \in Nat /\ Unfinished \in Nat /\ slots \in Nat /\ arenas \in Nat
      /\ free \in Nat /\ taken \in Nat /\ lost \in Nat /\ seen \in Nat /\ req.reserve \in Int
      /\ Resizing \/ Loading
      /\ Resizing => at \in DOMAIN warm
  <2>1. /\ Types /\ Stages /\ Balance /\ Sizing /\ Reserved
        /\ step \in {"arenas", "restore"} /\ arenas < Layers[Subject]
        /\ taken' = taken /\ seen' = seen
    BY DEF RegistryInv, AllocArena
  <2>2. req.reserve \in Int
    BY <2>1 DEF Types, Request, Nothing
  <2>. QED  BY <2>1, <2>2, HeldByType, UnfinishedType DEF Types, Stages
<1>2. CASE ~(slots \in 1 .. free)
  <2>1. PagerFails
    BY <1>2 DEF AllocArena
  <2>. QED  BY <1>1, <2>1, PagerFailsKeeps
<1>3. CASE slots \in 1 .. free
  <2>1. /\ arenas' = arenas + 1 /\ free' = free - slots
        /\ UNCHANGED <<warm, lost, pc, at, req, last, step, slots, previous, before>>
    BY <1>3 DEF AllocArena, control
  <2>2. Layers[Subject] \in Nat
    BY <1>1, SubjectType
  <2>3. /\ Subject' = Subject /\ Wanted' = Wanted /\ Reserve' = Reserve
        /\ Loading' = Loading /\ Resizing' = Resizing
    BY <2>1, SameWants
  <2>4. free' \in Nat /\ arenas' \in Nat /\ arenas' <= Layers[Subject]
    BY <1>1, <1>3, <2>1, <2>2
  <2>5. Types'
    BY <1>1, <2>1, <2>4 DEF Types
  <2>6. Stages'
    BY <1>1, <2>1, <2>3, <2>4 DEF Stages
  <2>7. arenas' * slots' = arenas * slots + slots /\ arenas * slots \in Nat
    <3>1. \A x, y \in Nat : (x + 1) * y = x * y + y /\ x * y \in Nat
      OBVIOUS
    <3>. QED  BY <1>1, <2>1, <3>1
  <2>8. Balance'
    <3>1. Unfinished' = Unfinished + slots
      <4>1. /\ Loading => Unfinished' = Core[req.model] + arenas' * slots'
            /\ Resizing => Unfinished' = arenas' * slots'
            /\ Core[req.model] \in Nat
        BY <1>1, <2>1, <2>4, UnfinishedNext
      <4>2. /\ Loading => Unfinished = Core[req.model] + arenas * slots
            /\ Resizing => Unfinished = arenas * slots
        BY <1>1, UnfinishedType DEF Loading, Resizing
      <4>. DEFINE p == arenas * slots
                  q == arenas' * slots'
      <4>3. /\ Loading => Unfinished' = Core[req.model] + q /\ Unfinished = Core[req.model] + p
            /\ Resizing => Unfinished' = q /\ Unfinished = p
            /\ q = p + slots /\ p \in Nat
        BY <2>7, <4>1, <4>2
      <4>. HIDE DEF p, q
      <4>. QED  BY <1>1, <4>1, <4>3
    <3>2. HeldBy(warm') = HeldBy(warm) /\ Total \in Nat
      BY <2>1, RegistryAssumption
    <3>. QED  BY <1>1, <2>1, <3>1, <3>2 DEF Balance
  <2>9. Sizing'
    BY <1>1, <2>1, <2>3 DEF Sizing
  <2>10. Reserved'
    <3>. SUFFICES ASSUME pc = "admin", req.reserve > 0, step = "arenas"
                  PROVE  free' + taken + arenas' * slots' >= seen + req.reserve + Layers[Subject] * slots
      BY <1>1, <2>1, <2>3 DEF Reserved
    <3>. DEFINE p == arenas * slots
                q == arenas' * slots'
                r == Layers[Subject] * slots
    <3>1. free + taken + p >= seen + req.reserve + r
      BY <1>1 DEF Reserved
    <3>2. /\ q = p + slots /\ p \in Nat /\ r \in Nat
      BY <1>1, <2>2, <2>7
    <3>. HIDE DEF p, q, r
    <3>3. free' + taken + q >= seen + req.reserve + r
      BY <1>1, <2>1, <3>1, <3>2
    <3>. QED  BY <3>3 DEF q, r
  <2>. QED  BY <1>1, <2>1, <2>5, <2>6, <2>8, <2>9, <2>10, StepFrame DEF RegistryInv
<1>. QED  BY <1>2, <1>3

(* The pager is the engine's, or waits for the rest of the load.           *)
LEMMA PagerBuiltKeeps == ASSUME RegistryInv, PagerBuilt PROVE RegistryInv'
<1>1. /\ Types /\ Stages /\ Balance /\ Sizing /\ Reserved
      /\ step \in {"arenas", "restore"} /\ arenas = Layers[Subject]
      /\ UNCHANGED <<free, taken, lost, seen>>
      /\ HeldBy(warm) \in Nat /\ Unfinished \in Nat /\ slots \in Nat /\ arenas \in Nat
      /\ free \in Nat /\ taken \in Nat /\ lost \in Nat /\ seen \in Nat /\ req.reserve \in Int
  <2>1. /\ Types /\ Stages /\ Balance /\ Sizing /\ Reserved
        /\ step \in {"arenas", "restore"} /\ arenas = Layers[Subject]
        /\ UNCHANGED <<free, taken, lost, seen>>
    BY DEF RegistryInv, PagerBuilt, memory
  <2>2. req.reserve \in Int
    BY <2>1 DEF Types, Request, Nothing
  <2>. QED  BY <2>1, <2>2, HeldByType, UnfinishedType DEF Types, Stages
<1>2. CASE Loading /\ step' = "kv" /\ UNCHANGED <<warm, control, pager>>
  <2>1. UNCHANGED <<warm, pc, at, req, last, slots, arenas, previous, before>>
    BY <1>2 DEF control, pager
  <2>2. /\ Subject' = Subject /\ Wanted' = Wanted /\ Reserve' = Reserve
        /\ Loading' = Loading /\ Resizing' = Resizing
    BY <2>1, SameWants
  <2>3. ~Resizing /\ pc # "admin"
    BY <1>2 DEF Resizing, Loading
  <2>4. Types'
    BY <1>1, <1>2, <2>1 DEF Types, Steps
  <2>5. Stages'
    BY <1>1, <1>2, <2>1, <2>2, <2>3 DEF Stages
  <2>6. Balance'
    <3>1. Unfinished' = Unfinished
      BY <1>1, <1>2, <2>1, UnfinishedNext, UnfinishedType
    <3>. QED  BY <1>1, <2>1, <3>1 DEF Balance
  <2>7. Sizing' /\ Reserved'
    BY <1>1, <1>2, <2>1, <2>2, <2>3 DEF Sizing, Stages, Reserved
  <2>. QED  BY <1>2, <2>1, <2>4, <2>5, <2>6, <2>7, StepFrame DEF RegistryInv
<1>3. CASE Resizing /\ EndResize(slots, step = "arenas")
  <2>1. at \in DOMAIN warm /\ warm[at].pager = 0 /\ warm[at] \in Engine
    BY <1>1, <1>3 DEF Stages, NoPager, Types
  <2>2. Layers[Subject] \in Nat /\ Subject = warm[at].name /\ ~Loading
    BY <1>1, <1>3, <2>1, SubjectType
  <2>3. Arenas(warm[at]) = 0
    <3>1. \A x \in Nat : x * 0 = 0
      OBVIOUS
    <3>. QED  BY <2>1, <2>2, <3>1 DEF Arenas
  <2>4. Unfinished = Layers[Subject] * slots
    BY <1>1, <2>2, UnfinishedType
  <2>5. free' + taken' + lost' + HeldBy(warm) + Layers[Subject] * slots = Total + Arenas(warm[at])
    <3>1. Total \in Nat
      BY RegistryAssumption
    <3>. QED  BY <1>1, <2>3, <2>4, <3>1 DEF Balance
  <2>6. /\ free' \in Nat /\ taken' \in Nat /\ lost' \in Nat /\ seen' \in Nat
    BY <1>1
  <2>7. step = "arenas" /\ pc = "admin" /\ req.reserve > 0 => free' + taken' >= seen' + req.reserve
    <3>. SUFFICES ASSUME step = "arenas", pc = "admin", req.reserve > 0
                  PROVE  free + taken >= seen + req.reserve
      BY <1>1
    <3>. DEFINE r == Layers[Subject] * slots
    <3>1. free + taken + r >= seen + req.reserve + r
      BY <1>1 DEF Reserved
    <3>2. r \in Nat
      <4>1. \A x, y \in Nat : x * y \in Nat
        OBVIOUS
      <4>. QED  BY <1>1, <2>2, <4>1
    <3>. HIDE DEF r
    <3>. QED  BY <1>1, <3>1, <3>2
  <2>8. step # "arenas" => slots = previous /\ step # "begin"
    BY <1>1 DEF Stages
  <2>. QED  BY <1>1, <1>3, <2>1, <2>5, <2>6, <2>7, <2>8, EndResizeKeeps
<1>. QED  BY <1>2, <1>3 DEF PagerBuilt

(* Something else fails in Pager::new.                                     *)
LEMMA PagerFaultKeeps == ASSUME RegistryInv, PagerFault PROVE RegistryInv'
<1>1. seen' \in Nat
  BY DEF RegistryInv, Types, PagerFault
<1>. QED  BY <1>1, PagerFailsKeeps DEF PagerFault

(* A step that builds nothing.                                             *)
LEMMA AtRest ==
  ASSUME RegistryInv, step = "begin", UNCHANGED <<step, pager>>
  PROVE  /\ Unfinished = 0 /\ Unfinished' = 0
         /\ Stages' /\ Sizing'
         /\ slots' \in Nat /\ arenas' \in Nat /\ previous' \in Nat /\ before' \in Nat
         /\ step' = "begin"
<1>1. Types /\ Stages /\ UNCHANGED <<step, slots, arenas, previous, before>>
  BY DEF RegistryInv, pager
<1>2. /\ slots' \in Nat /\ arenas' \in Nat /\ previous' \in Nat /\ before' \in Nat
      /\ arenas' = 0 /\ step' = "begin"
  BY <1>1 DEF Types, Stages
<1>3. Unfinished = 0
  BY <1>1, UnfinishedType
<1>4. Unfinished' = 0
  BY <1>2, NothingUnfinished
<1>5. Stages' /\ Sizing'
  BY <1>2 DEF Stages, Sizing
<1>. QED  BY <1>2, <1>3, <1>4, <1>5

(* rebalance counts one model only when it is the one just loaded.         *)
LEMMA Alone ==
  ASSUME Types, pc \in {"shrink", "grow"}, at \in DOMAIN warm
  PROVE  /\ Count \in Nat /\ (pc = "grow" => Count = Len(warm))
         /\ Count <= 1 => pc = "grow" /\ at = 1
<1>1. Len(warm) \in Nat /\ at \in 1 .. Len(warm)
  BY DEF Types
<1>2. CASE pc = "shrink"
  <2>1. Count = Len(warm) + 1
    BY <1>2 DEF Count
  <2>. QED  BY <1>1, <1>2, <2>1
<1>3. CASE pc = "grow"
  <2>1. Count = Len(warm)
    BY <1>3 DEF Count
  <2>. QED  BY <1>1, <1>3, <2>1
<1>. QED  BY <1>2, <1>3

(* An engine that is left alone has the size for the count.                *)
LEMMA SizeFitsKeeps == ASSUME RegistryInv, SizeFits PROVE RegistryInv'
<1>1. /\ Types /\ Purpose /\ Balance /\ Room /\ Grown /\ Reserved
      /\ WarmBounded /\ Engines /\ ReserveHonoured /\ SizedForCount
  BY DEF RegistryInv
<1>2. /\ pc \in {"shrink", "grow"} /\ at \in DOMAIN warm /\ step = "begin" /\ Resizing
      /\ at' = at + 1 /\ UNCHANGED <<warm, free, taken, lost, pc, req, last, step, pager, seen>>
      /\ warm[at].cur_slots = Wanted
  BY DEF SizeFits, Continue, memory, Resizing
<1>3. /\ warm[at] \in Engine /\ at \in Nat /\ DOMAIN warm = 1 .. Len(warm) /\ Len(warm) \in Nat
  BY <1>1, <1>2 DEF Types
<1>e. PICK e \in Engine : e = warm[at]
  BY <1>3
<1>4. /\ Wanted = Want(e.name, Count) /\ Wanted \in Nat \ {0}
      /\ Count \in Nat /\ (Count > 1 => Wanted = SlotsShared[e.name])
      /\ pc = "grow" => Count = Len(warm)
      /\ Count <= 1 => pc = "grow" /\ at = 1
  <2>1. Wanted = Want(e.name, Count) /\ e.name \in Models
    BY <1>1, <1>2, <1>e, SubjectType DEF Engine
  <2>2. /\ Count \in Nat /\ (pc = "grow" => Count = Len(warm))
        /\ Count <= 1 => pc = "grow" /\ at = 1
    BY <1>1, <1>2, Alone
  <2>. QED  BY <2>1, <2>2, WantType
<1>5. Sized(e, Count)
  <2>1. e.pager \in Nat /\ Reported(e) /\ Squeezed(e)
    BY <1>1, <1>2, <1>e DEF Engines, Noting, Engine
  <2>2. CASE e.pager # NoPager
    BY <1>2, <1>4, <1>e, <2>1, <2>2 DEF Reported, Sized
  <2>3. CASE e.pager = NoPager
    <3>1. Count > 1
      BY <1>1, <1>2, <1>4, <1>e, <2>3 DEF Grown
    <3>2. e.reserve > 0
      BY <1>2, <1>4, <1>e, <2>1, <2>3, <3>1 DEF Squeezed
    <3>. QED  BY <1>4, <2>3, <3>2 DEF Sized, NoPager
  <2>. QED  BY <2>2, <2>3
<1>6. Grown'
  <2>1. ASSUME pc = "grow", NEW i \in DOMAIN warm, i < at + 1
        PROVE  Sized(warm[i], Len(warm))
    <3>i. i \in Nat /\ at \in Nat
      BY <1>3, <2>1
    <3>1. i < at \/ i = at
      BY <2>1, <3>i
    <3>. QED  BY <1>1, <1>4, <1>5, <1>e, <2>1, <3>1 DEF Grown
  <2>2. at + 1 # 1
    BY <1>3, <1>2
  <2>. QED  BY <1>1, <1>2, <2>1, <2>2 DEF Grown, Sized
<1>7. /\ Unfinished = 0 /\ Unfinished' = 0 /\ Stages' /\ Sizing' /\ step' = "begin"
      /\ slots' \in Nat /\ arenas' \in Nat /\ previous' \in Nat /\ before' \in Nat
  BY <1>2, AtRest
<1>8. Types'
  <2>1. at' \in Nat
    BY <1>2, <1>3
  <2>. QED  BY <1>1, <1>2, <1>7, <2>1 DEF Types
<1>9. Purpose' /\ Room' /\ Reserved'
  BY <1>1, <1>2, <1>3 DEF Purpose, Room, Reserved
<1>10. Balance' /\ WarmBounded' /\ Engines' /\ ReserveHonoured' /\ SizedForCount'
  BY <1>1, <1>2, <1>7
     DEF Balance, WarmBounded, Engines, Noting, Reported, Squeezed, ReserveHonoured, SizedForCount
<1>. QED  BY <1>6, <1>7, <1>8, <1>9, <1>10 DEF RegistryInv

(* A resize that fails before it has begun changes no pager.               *)
LEMMA SyncFaultKeeps == ASSUME RegistryInv, SyncFault PROVE RegistryInv'
<1>1. /\ Types /\ Stages /\ Balance /\ Resizing /\ step = "begin" /\ at \in DOMAIN warm
      /\ EndResize(warm[at].pager, FALSE)
      /\ UNCHANGED <<free, taken, lost, seen>>
  BY DEF RegistryInv, SyncFault, memory
<1>2. warm[at] \in Engine /\ warm[at].pager \in Nat /\ HeldBy(warm) \in Nat
      /\ free \in Nat /\ taken \in Nat /\ lost \in Nat /\ seen \in Nat
  <2>1. warm[at] \in Engine /\ warm \in Seq(Engine)
        /\ free \in Nat /\ taken \in Nat /\ lost \in Nat /\ seen \in Nat
    BY <1>1 DEF Types
  <2>2. warm[at].pager \in Nat
    BY <2>1 DEF Engine
  <2>3. HeldBy(warm) \in Nat
    BY <2>1, HeldByType
  <2>. QED  BY <2>1, <2>2, <2>3
<1>3. Unfinished = 0 /\ Subject = warm[at].name
  BY <1>1, UnfinishedType, SubjectType
<1>4. Layers[Subject] * warm[at].pager = Arenas(warm[at]) /\ Arenas(warm[at]) \in Nat
  BY <1>2, <1>3, HeldType DEF Arenas
<1>5. free' + taken' + lost' + HeldBy(warm) = Total
  BY <1>1, <1>2, <1>3 DEF Balance
<1>6. free' + taken' + lost' + HeldBy(warm) + Layers[Subject] * warm[at].pager
        = Total + Arenas(warm[at])
  BY <1>4, <1>5
<1>. QED  BY <1>1, <1>2, <1>6, EndResizeKeeps

(* The old arenas are freed, and what others hold is noted.                *)
LEMMA DropPagerKeeps == ASSUME RegistryInv, DropPager PROVE RegistryInv'
<1>1. /\ Types /\ Purpose /\ Stages /\ Balance /\ Room /\ Grown /\ Reserved
      /\ WarmBounded /\ Engines /\ ReserveHonoured /\ SizedForCount
  BY DEF RegistryInv
<1>2. /\ Resizing /\ step = "begin" /\ at \in DOMAIN warm
      /\ pc = "admin" \/ warm[at].cur_slots # Wanted
      /\ warm' = [warm EXCEPT ![at].pager = NoPager]
      /\ free' = free + Arenas(warm[at])
      /\ step' = "open" /\ slots' = Wanted /\ arenas' = arenas
      /\ previous' = warm[at].pager /\ before' = taken + lost
      /\ UNCHANGED <<taken, lost, pc, at, req, last, seen>>
  BY DEF DropPager, control
<1>k. PICK k \in DOMAIN warm : k = at
  BY <1>2
<1>3. /\ warm[at] \in Engine /\ at \in Nat /\ DOMAIN warm = 1 .. Len(warm) /\ Len(warm) \in Nat
      /\ warm \in Seq(Engine) /\ free \in Nat /\ taken \in Nat /\ lost \in Nat
      /\ arenas = 0 /\ pc \in {"shrink", "grow", "admin"}
  BY <1>1, <1>2 DEF Types, Stages, Resizing
<1>e. PICK e \in Engine : e = warm[k]
  BY <1>3, <1>k
<1>f. PICK f : f = [e EXCEPT !.pager = NoPager]
  OBVIOUS
<1>4. /\ f \in Engine /\ f.name = e.name /\ f.pager = NoPager
      /\ f.cur_slots = e.cur_slots /\ f.reserve = e.reserve
  BY <1>f DEF Engine, NoPager
<1>5. warm' = [warm EXCEPT ![k] = f]
  BY <1>2, <1>e, <1>k, <1>f
<1>6. /\ warm' \in Seq(Engine) /\ Len(warm') = Len(warm) /\ DOMAIN warm' = DOMAIN warm
      /\ \A i \in DOMAIN warm : warm'[i] = IF i = k THEN f ELSE warm[i]
      /\ \A i \in DOMAIN warm : warm'[i].name = warm[i].name
      /\ HeldBy(warm') \in Nat /\ HeldBy(warm) \in Nat
      /\ Arenas(f) \in Nat /\ Arenas(warm[k]) \in Nat
      /\ HeldBy(warm') + Arenas(warm[k]) = HeldBy(warm) + Arenas(f)
      /\ WarmBounded'
  <2>1. f.name = warm[k].name
    BY <1>4, <1>e
  <2>. QED  BY <1>1, <1>4, <1>5, <2>1, Replaced
<1>7. Arenas(f) = 0
  <2>1. Layers[f.name] \in Nat
    BY <1>4, HeldType
  <2>2. \A x \in Nat : x * 0 = 0
    OBVIOUS
  <2>. QED  BY <1>4, <2>1, <2>2 DEF Arenas, NoPager
<1>8. free + taken + lost + HeldBy(warm) = Total /\ Total \in Nat
  <2>1. Unfinished = 0
    BY <1>1, <1>2, UnfinishedType
  <2>2. Total \in Nat
    BY RegistryAssumption
  <2>. QED  BY <1>1, <1>3, <1>6, <2>1, <2>2 DEF Balance
<1>9. HeldBy(warm') + Arenas(warm[k]) = HeldBy(warm)
  BY <1>6, <1>7
<1>10. /\ Subject = e.name /\ Wanted \in Nat /\ ~Loading
       /\ pc # "admin" => Wanted = Want(e.name, Count)
  BY <1>1, <1>2, <1>e, <1>k, SubjectType
<1>11. Subject' = Subject /\ Wanted' = Wanted /\ ~Loading' /\ Resizing'
  <2>1. ~Loading' /\ Resizing'
    BY <1>2, <1>10 DEF Loading, Resizing
  <2>2. Subject' = Subject
    BY <1>2, <1>6, <1>10, <2>1 DEF Subject
  <2>3. Count' = Count
    BY <1>2, <1>6 DEF Count
  <2>. QED  BY <1>2, <2>1, <2>2, <2>3 DEF Wanted, Want
<1>12. Types'
  <2>1. free' \in Nat /\ previous' \in Nat /\ before' \in Nat /\ arenas' \in Nat
    <3>1. warm[at].pager \in Nat
      BY <1>3 DEF Engine
    <3>2. Arenas(warm[at]) \in Nat
      BY <1>6, <1>k
    <3>. QED  BY <1>2, <1>3, <3>1, <3>2
  <2>. QED  BY <1>1, <1>2, <1>6, <1>10, <2>1 DEF Types, Steps
<1>13. Stages'
  <2>1. warm'[at].pager = NoPager /\ at' \in DOMAIN warm'
    BY <1>2, <1>4, <1>6, <1>k
  <2>. QED  BY <1>2, <1>3, <1>11, <2>1 DEF Stages
<1>14. Balance'
  <2>1. Unfinished' = 0
    <3>1. Unfinished' = arenas' * slots'
      BY <1>1, <1>2, <1>3, <1>10, UnfinishedNext
    <3>2. \A x \in Nat : 0 * x = 0
      OBVIOUS
    <3>. QED  BY <1>2, <1>3, <1>10, <3>1, <3>2
  <2>2. free' + taken' + lost' + HeldBy(warm') = Total
    BY <1>2, <1>3, <1>6, <1>8, <1>9, <1>k, SMTT(20)
  <2>. QED  BY <1>3, <1>6, <2>1, <2>2, <1>2, <1>8 DEF Balance
<1>15. Sizing'
  <2>1. Layers[Subject] * previous' = Arenas(warm[k])
    BY <1>2, <1>10, <1>e, <1>k DEF Arenas
  <2>2. before' + HeldBy(warm') + Layers[Subject] * previous' <= Total
    <3>. DEFINE h == HeldBy(warm)
                g == HeldBy(warm')
                a == Arenas(warm[k])
    <3>1. h \in Nat /\ g \in Nat /\ a \in Nat /\ g + a = h /\ free + taken + lost + h = Total
      BY <1>6, <1>8, <1>9
    <3>. HIDE DEF h, g, a
    <3>2. taken + lost + g + a <= Total
      BY <1>3, <1>8, <3>1
    <3>3. Layers[Subject] * previous' = a
      BY <2>1 DEF a
    <3>. QED  BY <1>2, <3>2, <3>3 DEF g
  <2>3. previous' # NoPager => warm'[at].cur_slots = previous'
    <3>1. Reported(e)
      BY <1>1, <1>e DEF Engines
    <3>. QED  BY <1>2, <1>4, <1>6, <1>e, <1>k, <3>1 DEF Reported
  <2>. QED  BY <1>2, <1>11, <2>2, <2>3 DEF Sizing
<1>16. Squeezed(f) \/ pc = "admin"
  <2>. SUFFICES ASSUME pc # "admin"
                PROVE  Squeezed(f)
    OBVIOUS
  <2>1. /\ Count \in Nat /\ (pc = "grow" => Count = Len(warm))
        /\ Count <= 1 => pc = "grow" /\ at = 1
    BY <1>1, <1>2, <1>3, Alone
  <2>2. e.name \in Models /\ e.cur_slots # Want(e.name, Count)
    BY <1>2, <1>10, <1>e, <1>k DEF Engine
  <2>3. CASE Count > 1
    BY <1>4, <2>1, <2>2, <2>3, WantType DEF Squeezed
  <2>4. CASE Count <= 1
    <3>1. e.pager # NoPager /\ Sized(e, Count) /\ Reported(e)
      BY <1>1, <1>2, <1>e, <1>k, <2>1, <2>4 DEF Grown, Engines
    <3>2. e.reserve > 0
      BY <2>2, <3>1 DEF Sized, Reported
    <3>. QED  BY <1>4, <3>2 DEF Squeezed
  <2>. QED  BY <2>1, <2>3, <2>4
<1>17. Engines'
  <2>. SUFFICES ASSUME NEW i \in DOMAIN warm
                PROVE  Reported(warm'[i]) /\ (Squeezed(warm'[i]) \/ (pc = "admin" /\ i = at))
    BY <1>2, <1>6 DEF Engines, Noting, Reported, Squeezed
  <2>1. CASE i = k
    BY <1>4, <1>6, <1>16, <1>k, <2>1 DEF Reported
  <2>2. CASE i # k
    BY <1>1, <1>2, <1>6, <2>2 DEF Engines, Noting
  <2>. QED  BY <2>1, <2>2
<1>18. Grown'
  <2>1. ASSUME pc = "grow", NEW i \in DOMAIN warm, i < at
        PROVE  Sized(warm'[i], Len(warm))
    <3>1. i # k
      BY <1>3, <1>k, <2>1
    <3>. QED  BY <1>1, <1>6, <2>1, <3>1 DEF Grown
  <2>2. warm' # <<>>
    BY <1>2, <1>6
  <2>3. pc # "generate"
    BY <1>3
  <2>. QED  BY <1>2, <1>6, <2>1, <2>2, <2>3 DEF Grown, Sized
<1>19. Room'
  <2>1. warm # <<>>
    BY <1>2
  <2>. QED  BY <1>1, <1>2, <1>3, <1>6, <2>1 DEF Room
<1>20. Purpose' /\ Reserved' /\ ReserveHonoured' /\ SizedForCount'
  BY <1>1, <1>2, <1>3 DEF Purpose, Reserved, ReserveHonoured, SizedForCount
<1>. QED  BY <1>6, <1>12, <1>13, <1>14, <1>15, <1>17, <1>18, <1>19, <1>20 DEF RegistryInv

(* The core of a model that is loaded.                                     *)
LEMMA LoadCoreKeeps == ASSUME RegistryInv, LoadCore PROVE RegistryInv'
<1>1. /\ Types /\ Stages /\ Balance /\ Loading /\ step = "begin" /\ Core[req.model] <= free
      /\ free' = free - Core[req.model] /\ step' = "open" /\ slots' = Wanted
      /\ UNCHANGED <<warm, taken, lost, pc, at, req, last, arenas, previous, before, seen>>
  BY DEF RegistryInv, LoadCore, control
<1>2. /\ free \in Nat /\ taken \in Nat /\ lost \in Nat /\ arenas = 0
      /\ HeldBy(warm) \in Nat /\ Unfinished = 0
  <2>1. Unfinished = 0
    BY <1>1, UnfinishedType
  <2>2. HeldBy(warm) \in Nat
    BY <1>1, HeldByType DEF Types
  <2>. QED  BY <1>1, <2>1, <2>2 DEF Types, Stages
<1>3. /\ Wanted \in Nat /\ Core[req.model] \in Nat /\ pc # "admin" /\ ~Resizing
      /\ Subject' = Subject /\ Wanted' = Wanted /\ Loading' /\ ~Resizing'
  <2>1. Wanted \in Nat /\ Core[req.model] \in Nat /\ pc # "admin"
    BY <1>1, SubjectType
  <2>2. ~Resizing
    BY <1>1 DEF Loading, Resizing
  <2>. QED  BY <1>1, <2>1, <2>2, SameWants
<1>4. free' \in Nat
  BY <1>1, <1>2, <1>3
<1>5. Types'
  BY <1>1, <1>3, <1>4 DEF Types, Steps
<1>6. Stages' /\ Sizing' /\ Reserved'
  BY <1>1, <1>2, <1>3 DEF Stages, Sizing, Reserved
<1>7. Balance'
  <2>1. Unfinished' = Core[req.model] + arenas' * slots'
    BY <1>1, <1>2, <1>3, UnfinishedNext
  <2>2. \A x \in Nat : 0 * x = 0
    OBVIOUS
  <2>3. Unfinished' = Core[req.model]
    BY <1>1, <1>2, <1>3, <2>1, <2>2
  <2>4. HeldBy(warm') = HeldBy(warm)
    BY <1>1
  <2>. QED  BY <1>1, <1>2, <1>3, <2>3, <2>4 DEF Balance
<1>. QED  BY <1>1, <1>5, <1>6, <1>7, StepFrame DEF RegistryInv

(* The load is finished: the engine is in front, of the wanted size.       *)
LEMMA LoadKvKeeps == ASSUME RegistryInv, LoadKv PROVE RegistryInv'
<1>1. /\ Types /\ Purpose /\ Stages /\ Balance /\ Room /\ Sizing
      /\ WarmBounded /\ Engines /\ step = "kv" /\ Kv[req.model] <= free
      /\ free' = free - Kv[req.model]
      /\ pc' = "grow" /\ at' = 1 /\ UNCHANGED <<taken, lost, seen, req, last>>
      /\ step' = "begin" /\ slots' = 0 /\ arenas' = 0 /\ previous' = 0 /\ before' = 0
  BY DEF RegistryInv, LoadKv, Goto, Rest, NoPager
<1>m. PICK m \in Models : m = req.model
  BY <1>1 DEF Types, Request
<1>e. PICK e : e = [name |-> req.model, pager |-> slots, cur_slots |-> slots,
                    reserve |-> SpecReserve[req.model]]
  OBVIOUS
<1>2. /\ warm \in Seq(Engine) /\ DOMAIN warm = 1 .. Len(warm) /\ Len(warm) \in Nat
      /\ free \in Nat /\ taken \in Nat /\ lost \in Nat /\ slots \in Nat
      /\ Loading /\ pc \in {"load", "retry"} /\ arenas = Layers[Subject]
  BY <1>1 DEF Types, Stages, Loading
<1>3. /\ Subject = m /\ Reserve = SpecReserve[m] /\ Wanted = Want(m, Count) /\ pc # "admin"
      /\ Core[m] \in Nat /\ Kv[m] \in Nat /\ SpecReserve[m] \in Nat
      /\ Count = Len(warm) + 1
  <2>1. Subject = m /\ Reserve = SpecReserve[m] /\ pc # "admin" /\ Wanted = Want(m, Count)
        /\ Core[m] \in Nat /\ Kv[m] \in Nat
    BY <1>1, <1>2, <1>m, SubjectType
  <2>2. Count = Len(warm) + 1
    BY <1>2 DEF Count
  <2>3. SpecReserve[m] \in Nat
    BY RegistryAssumption
  <2>. QED  BY <2>1, <2>2, <2>3
<1>4. /\ e \in Engine /\ e.name = m /\ e.pager = slots /\ e.cur_slots = slots
      /\ e.reserve = SpecReserve[m]
  BY <1>2, <1>3, <1>e, <1>m DEF Engine
<1>5. warm' = <<e>> \o warm
  BY <1>e DEF LoadKv
<1>6. /\ warm' \in Seq(Engine) /\ Len(warm') = Len(warm) + 1 /\ warm'[1] = e
      /\ \A i \in 1 .. Len(warm) : warm'[i + 1] = warm[i]
      /\ HeldBy(warm') = Held(e) + HeldBy(warm)
  BY <1>2, <1>4, <1>5, HeldByCons
<1>7. DOMAIN warm' = 1 .. Len(warm) + 1
  BY <1>2, <1>6
<1>8. \A i \in DOMAIN warm' : i # 1 => i - 1 \in DOMAIN warm /\ warm'[i] = warm[i - 1]
  <2>. SUFFICES ASSUME NEW i \in DOMAIN warm', i # 1
                PROVE  i - 1 \in DOMAIN warm /\ warm'[i] = warm[i - 1]
    OBVIOUS
  <2>1. i - 1 \in 1 .. Len(warm) /\ (i - 1) + 1 = i
    BY <1>2, <1>7
  <2>. QED  BY <1>2, <1>6, <2>1
<1>9. free' \in Nat
  BY <1>1, <1>2, <1>3, <1>m
<1>10. Types'
  BY <1>1, <1>6, <1>9 DEF Types, Labels, Steps
<1>11. Balance'
  <2>1. Unfinished = Core[m] + arenas * slots /\ arenas * slots \in Nat
    BY <1>1, <1>2, <1>m, UnfinishedType
  <2>2. Held(e) = Core[m] + Kv[m] + arenas * slots
    BY <1>2, <1>3, <1>4 DEF Held, Arenas
  <2>3. Unfinished' = 0
    BY <1>1, NothingUnfinished
  <2>4. HeldBy(warm) \in Nat /\ Total \in Nat
    BY <1>2, HeldByType, RegistryAssumption
  <2>. DEFINE h == HeldBy(warm)
              p == arenas * slots
  <2>5. /\ free + taken + lost + h + (Core[m] + p) = Total
        /\ HeldBy(warm') = Core[m] + Kv[m] + p + h
        /\ p \in Nat /\ h \in Nat
    BY <1>1, <1>6, <2>1, <2>2, <2>4 DEF Balance
  <2>. HIDE DEF h, p
  <2>6. free' + taken' + lost' + HeldBy(warm') = Total
    <3>. DEFINE c == Core[m]
                v == Kv[m]
                g == HeldBy(warm')
    <3>1. /\ c \in Nat /\ v \in Nat /\ free' = free - v /\ taken' = taken /\ lost' = lost
          /\ g = c + v + p + h /\ free + taken + lost + h + (c + p) = Total
      BY <1>1, <1>3, <1>m, <2>5
    <3>. HIDE DEF c, v, g
    <3>2. free' + taken' + lost' + g = Total
      BY <1>2, <2>4, <2>5, <3>1, SMTT(20)
    <3>. QED  BY <3>2 DEF g
  <2>. QED  BY <2>3, <2>4, <2>6 DEF Balance
<1>12. Stages' /\ Sizing'
  BY <1>1 DEF Stages, Sizing
<1>13. Purpose' /\ Room' /\ Reserved' /\ ReserveHonoured' /\ SizedForCount'
  BY <1>1, <1>2 DEF Purpose, Room, Reserved, ReserveHonoured, SizedForCount
<1>14. slots > 0 /\ (slots = Wanted \/ (slots < Wanted /\ Reserve > 0))
  BY <1>1 DEF Sizing
<1>15. Grown'
  <2>1. Sized(e, Len(warm) + 1) /\ e.pager # NoPager
    BY <1>3, <1>4, <1>14 DEF Sized, NoPager
  <2>2. warm' # <<>> /\ \A i \in DOMAIN warm' : ~(i < 1)
    BY <1>2, <1>6, <1>7
  <2>. QED  BY <1>1, <1>6, <2>1, <2>2 DEF Grown, Sized
<1>16. WarmBounded'
  <2>1. Len(warm') <= MaxWarm \/ Len(warm') <= 1
    <3>1. MaxWarm \in Nat
      BY RegistryAssumption
    <3>2. Len(warm) < MaxWarm \/ Len(warm) = 0
      BY <1>1, <1>2 DEF Room
    <3>. QED  BY <1>2, <1>6, <3>1, <3>2
  <2>2. \A i \in DOMAIN warm : warm[i].name # m
    BY <1>1, <1>2, <1>m DEF Room
  <2>3. ASSUME NEW i \in DOMAIN warm', NEW j \in DOMAIN warm', warm'[i].name = warm'[j].name
        PROVE  i = j
    <3>i. i \in Nat /\ j \in Nat
      BY <1>7
    <3>1. CASE i = 1 /\ j = 1
      BY <3>1
    <3>2. CASE i = 1 /\ j # 1
      BY <1>4, <1>6, <1>8, <2>2, <2>3, <3>2
    <3>3. CASE i # 1 /\ j = 1
      BY <1>4, <1>6, <1>8, <2>2, <2>3, <3>3
    <3>4. CASE i # 1 /\ j # 1
      <4>1. i - 1 = j - 1
        BY <1>1, <1>8, <2>3, <3>4 DEF WarmBounded
      <4>. QED  BY <3>i, <4>1
    <3>. QED  BY <3>1, <3>2, <3>3, <3>4
  <2>. QED  BY <2>1, <2>3 DEF WarmBounded
<1>17. Engines'
  <2>. SUFFICES ASSUME NEW i \in DOMAIN warm'
                PROVE  Reported(warm'[i]) /\ Squeezed(warm'[i])
    BY <1>1 DEF Engines, Reported, Squeezed
  <2>1. CASE i = 1
    BY <1>4, <1>6, <1>14, <2>1 DEF Reported, Squeezed, NoPager
  <2>2. CASE i # 1
    BY <1>1, <1>3, <1>8, <2>2 DEF Engines, Noting
  <2>. QED  BY <2>1, <2>2
<1>. QED  BY <1>10, <1>11, <1>12, <1>13, <1>15, <1>16, <1>17 DEF RegistryInv

(* A load stops at its core or at its KV cache.                            *)
LEMMA LoadStopsKeeps == ASSUME RegistryInv, LoadStops PROVE RegistryInv'
<1>1. /\ Types /\ Stages /\ UNCHANGED <<taken, seen>> /\ free \in Nat /\ seen' \in Nat
      /\ Unfinished \in Nat
  <2>1. Types /\ Stages /\ UNCHANGED <<taken, seen>>
    BY DEF RegistryInv, LoadStops
  <2>. QED  BY <2>1, UnfinishedType DEF Types
<1>2. Core[req.model] \in Nat /\ Kv[req.model] \in Nat
  BY <1>1, RegistryAssumption DEF Types, Request
<1>3. CASE Loading /\ step = "begin" /\ \E n \in 0 .. Least(free, Core[req.model]) : LoadFails(n)
  <2>1. PICK n \in 0 .. Least(free, Core[req.model]) : LoadFails(n)
    BY <1>3
  <2>2. n \in Nat /\ n <= free
    BY <1>1, <1>2 DEF Least
  <2>3. n <= free + Unfinished
    BY <1>1, <2>2
  <2>. QED  BY <1>1, <1>3, <2>1, <2>2, <2>3, LoadFailsKeeps
<1>4. CASE step = "kv" /\ \E n \in 0 .. Least(free, Kv[req.model]) : LoadFails(Core[req.model] + n)
  <2>1. PICK n \in 0 .. Least(free, Kv[req.model]) : LoadFails(Core[req.model] + n)
    BY <1>4
  <2>2. n \in Nat /\ n <= free
    BY <1>1, <1>2 DEF Least
  <2>3. Loading /\ Unfinished = Core[req.model] + arenas * slots /\ arenas * slots \in Nat
    BY <1>1, <1>4, UnfinishedType DEF Stages
  <2>. DEFINE p == arenas * slots
  <2>4. Unfinished = Core[req.model] + p /\ p \in Nat
    BY <2>3
  <2>. HIDE DEF p
  <2>5. Core[req.model] + n \in Nat /\ Core[req.model] + n <= free + Unfinished
    BY <1>1, <1>2, <2>2, <2>4
  <2>. QED  BY <1>1, <2>1, <2>3, <2>5, LoadFailsKeeps
<1>. QED  BY <1>3, <1>4 DEF LoadStops

-----------------------------------------------------------------------------
(* The rest of a request.                                                  *)

(* The start.                                                              *)
LEMMA InitRegistry == Init => RegistryInv
<1>. SUFFICES ASSUME Init
              PROVE  RegistryInv
  OBVIOUS
<1>1. /\ warm = <<>> /\ lost = 0 /\ taken \in Nat /\ free \in Nat /\ free + taken = Total
      /\ pc = "evict" /\ at = 0 /\ req = [Quiet EXCEPT !.op = "start"] /\ last = NoResult
      /\ step = "begin" /\ slots = 0 /\ arenas = 0 /\ previous = 0 /\ before = 0 /\ seen = 0
  <2>1. /\ taken \in Shares /\ taken <= Total /\ free = Total - taken /\ lost = 0
    BY DEF Init
  <2>2. Total \in Nat /\ Shares \subseteq Nat
    BY RegistryAssumption
  <2>. QED  BY <2>1, <2>2 DEF Init, NoPager
<1>2. /\ warm \in Seq(Engine) /\ Len(warm) = 0 /\ DOMAIN warm = {}
  BY <1>1
<1>3. HeldBy(warm) = 0
  BY <1>1, HeldByNone, Zenon
<1>4. req \in Request /\ req.op = "start" /\ req.reserve = Nothing
      /\ last \in [req : Request, ok : BOOLEAN] /\ last.req.op = "none"
  BY <1>1, RegistryAssumption DEF Quiet, NoResult, Request, Ops
<1>5. Types
  BY <1>1, <1>2, <1>4 DEF Types, Labels, Steps
<1>6. Unfinished = 0
  <2>1. 0 * 0 = 0
    OBVIOUS
  <2>. QED  BY <1>1, <2>1 DEF Unfinished
<1>7. Balance
  BY <1>1, <1>3, <1>6 DEF Balance
<1>8. Purpose /\ Stages /\ Room /\ Sizing /\ Grown /\ Reserved
  BY <1>1, <1>2, <1>4 DEF Purpose, Stages, Room, Sizing, Grown, Reserved
<1>9. WarmBounded /\ Engines /\ ReserveHonoured /\ SizedForCount
  BY <1>1, <1>2 DEF WarmBounded, Engines, ReserveHonoured, SizedForCount
<1>. QED  BY <1>5, <1>7, <1>8, <1>9 DEF RegistryInv

(* Between requests no pager is being built.                               *)
LEMMA NotBuilding ==
  ASSUME RegistryInv, \/ pc \in {"idle", "evict", "generate"}
                      \/ at = Len(warm) + 1 /\ Resizing
  PROVE  step = "begin"
<1>1. /\ Stages /\ DOMAIN warm = 1 .. Len(warm) /\ Len(warm) \in Nat
  BY DEF RegistryInv, Types
<1>2. Resizing /\ at = Len(warm) + 1 => at \notin DOMAIN warm /\ ~Loading
  BY <1>1 DEF Resizing, Loading
<1>. QED  BY <1>1, <1>2 DEF Stages, Resizing, Loading

(* A warm model is pulled to the front.                                    *)
LEMMA TouchKeeps == ASSUME RegistryInv, NEW m \in Models, Touch(m) PROVE RegistryInv'
<1>1. PICK k \in DOMAIN warm : warm' = <<warm[k]>> \o RemoveAt(warm, k)
  BY DEF Touch
<1>2. /\ pc = "idle" /\ pc' = "generate" /\ at' = 0
      /\ req' = [Quiet EXCEPT !.op = "touch", !.model = m]
      /\ UNCHANGED <<free, taken, lost, step, pager>> /\ last' = NoResult /\ seen' = 0
  BY DEF Touch, memory
<1>3. warm \in Seq(Engine) /\ DOMAIN warm = 1 .. Len(warm) /\ Types
  BY DEF RegistryInv, Types
<1>. DEFINE p == [j \in 1 .. Len(warm) |-> IF j = 1 THEN k ELSE IF j <= k THEN j - 1 ELSE j]
<1>4. /\ warm' \in Seq(Engine) /\ Len(warm') = Len(warm) /\ HeldBy(warm') = HeldBy(warm)
      /\ Shared!Renames(p, 1 .. Len(warm), 1 .. Len(warm))
      /\ \A j \in 1 .. Len(warm) : warm'[j] = warm[p[j]]
  BY <1>1, <1>3, HeldByToFront
<1>. HIDE DEF p
<1>5. /\ DOMAIN warm' = 1 .. Len(warm)
      /\ \A j \in 1 .. Len(warm) : p[j] \in 1 .. Len(warm)
      /\ \A x, y \in 1 .. Len(warm) : p[x] = p[y] => x = y
  <2>1. DOMAIN warm' = 1 .. Len(warm)
    BY <1>4
  <2>. QED  BY <1>4, <2>1, Zenon DEF Shared!Renames
<1>6. /\ req' \in Request /\ req'.op = "touch" /\ 0 \in Nat
      /\ last' \in [req : Request, ok : BOOLEAN]
  BY <1>2, RegistryAssumption DEF Quiet, NoResult, Request, Ops
<1>7. /\ Unfinished = 0 /\ Unfinished' = 0 /\ Stages' /\ Sizing' /\ step' = "begin"
      /\ slots' \in Nat /\ arenas' \in Nat /\ previous' \in Nat /\ before' \in Nat
  BY <1>2, AtRest, NotBuilding
<1>8. Types'
  BY <1>2, <1>3, <1>4, <1>6, <1>7 DEF Types, Labels, Steps
<1>9. Purpose' /\ Room' /\ Grown' /\ Reserved' /\ ReserveHonoured' /\ SizedForCount'
  BY <1>2, <1>6 DEF Purpose, Room, Grown, Reserved, ReserveHonoured, SizedForCount
<1>10. Balance'
  BY <1>2, <1>4, <1>7 DEF RegistryInv, Balance
<1>11. WarmBounded'
  BY <1>3, <1>4, <1>5 DEF RegistryInv, WarmBounded
<1>12. Engines'
  BY <1>2, <1>3, <1>4, <1>5 DEF RegistryInv, Engines, Noting, Reported, Squeezed
<1>. QED  BY <1>7, <1>8, <1>9, <1>10, <1>11, <1>12 DEF RegistryInv

(* A request for a model that is not warm.                                 *)
LEMMA WarmUpKeeps == ASSUME RegistryInv, NEW m \in Models, WarmUp(m) PROVE RegistryInv'
<1>1. /\ pc = "idle" /\ pc' = "evict" /\ at' = 0
      /\ req' = [Quiet EXCEPT !.op = "load", !.model = m]
      /\ UNCHANGED <<warm, free, taken, lost, step, pager>> /\ last' = NoResult /\ seen' = 0
      /\ m \notin WarmNames
  BY DEF WarmUp, memory
<1>2. /\ req' \in Request /\ req'.op = "load" /\ req'.model = m /\ 0 \in Nat
      /\ last' \in [req : Request, ok : BOOLEAN]
  BY <1>1, RegistryAssumption DEF Quiet, NoResult, Request, Ops
<1>3. /\ Unfinished = 0 /\ Unfinished' = 0 /\ Stages' /\ Sizing' /\ step' = "begin"
      /\ slots' \in Nat /\ arenas' \in Nat /\ previous' \in Nat /\ before' \in Nat
  BY <1>1, AtRest, NotBuilding
<1>4. Types'
  BY <1>1, <1>2, <1>3 DEF RegistryInv, Types, Labels, Steps
<1>5. Purpose' /\ Grown' /\ Reserved' /\ ReserveHonoured' /\ SizedForCount'
  BY <1>1, <1>2 DEF Purpose, Grown, Reserved, ReserveHonoured, SizedForCount
<1>6. Room'
  BY <1>1, <1>2 DEF Room, WarmNames
<1>7. Balance' /\ WarmBounded' /\ Engines'
  BY <1>1, <1>3 DEF RegistryInv, Balance, WarmBounded, Engines, Noting, Squeezed, Reported
<1>. QED  BY <1>3, <1>4, <1>5, <1>6, <1>7 DEF RegistryInv

(* An admin's request for sizes.                                           *)
LEMMA AdminSlotsKeeps ==
  ASSUME RegistryInv, NEW t \in Targets \cup {Nothing}, NEW r \in Reserves \cup {Nothing},
         AdminSlots(t, r)
  PROVE  RegistryInv'
<1>1. /\ pc = "idle" /\ pc' = "admin" /\ at' = 1
      /\ req' = [Quiet EXCEPT !.op = "admin", !.target = t, !.reserve = r]
      /\ UNCHANGED <<warm, free, taken, lost, step, pager>> /\ last' = NoResult /\ seen' = 0
  BY DEF AdminSlots, memory
<1>2. /\ req' \in Request /\ req'.op = "admin" /\ 0 \in Nat
      /\ last' \in [req : Request, ok : BOOLEAN]
  BY <1>1, RegistryAssumption DEF Quiet, NoResult, Request, Ops
<1>3. /\ Unfinished = 0 /\ Unfinished' = 0 /\ Stages' /\ Sizing' /\ step' = "begin"
      /\ slots' \in Nat /\ arenas' \in Nat /\ previous' \in Nat /\ before' \in Nat
  BY <1>1, AtRest, NotBuilding
<1>4. Types'
  BY <1>1, <1>2, <1>3 DEF RegistryInv, Types, Labels, Steps
<1>5. Purpose' /\ Room' /\ Grown' /\ Reserved' /\ ReserveHonoured' /\ SizedForCount'
  BY <1>1, <1>2, <1>3 DEF Purpose, Room, Grown, Reserved, ReserveHonoured, SizedForCount
<1>6. Balance' /\ WarmBounded' /\ Engines'
  BY <1>1, <1>3 DEF RegistryInv, Balance, WarmBounded, Engines, Noting, Squeezed, Reported
<1>. QED  BY <1>3, <1>4, <1>5, <1>6 DEF RegistryInv

(* Everybody is sized: the load, or the generation, is next.               *)
LEMMA RebalancedKeeps == ASSUME RegistryInv, Rebalanced PROVE RegistryInv'
<1>1. /\ Types /\ Purpose /\ Balance /\ Room /\ Grown /\ Reserved
      /\ WarmBounded /\ Engines /\ ReserveHonoured /\ SizedForCount
  BY DEF RegistryInv
<1>2. /\ pc \in {"shrink", "grow"} /\ at = Len(warm) + 1 /\ DOMAIN warm = 1 .. Len(warm)
      /\ Len(warm) \in Nat /\ Resizing
      /\ at' = 1 /\ UNCHANGED <<warm, free, taken, lost, req, last, step, pager, seen>>
      /\ pc' = IF pc = "shrink" THEN "load" ELSE "generate"
  BY <1>1 DEF Rebalanced, Types, Goto, memory, Resizing
<1>3. /\ Unfinished = 0 /\ Unfinished' = 0 /\ Stages' /\ Sizing' /\ step' = "begin"
      /\ slots' \in Nat /\ arenas' \in Nat /\ previous' \in Nat /\ before' \in Nat
  BY <1>2, AtRest, NotBuilding
<1>4. Types'
  BY <1>1, <1>2, <1>3 DEF Types, Labels, Steps
<1>5. Purpose' /\ Room' /\ Reserved' /\ ReserveHonoured' /\ SizedForCount'
  BY <1>1, <1>2 DEF Purpose, Room, Reserved, ReserveHonoured, SizedForCount
<1>6. Grown'
  <2>1. pc = "grow" => \A i \in DOMAIN warm : Sized(warm[i], Len(warm))
    BY <1>1, <1>2 DEF Grown
  <2>. QED  BY <1>2, <2>1 DEF Grown, Sized
<1>7. Balance' /\ WarmBounded' /\ Engines'
  BY <1>1, <1>2, <1>3 DEF Balance, WarmBounded, Engines, Noting, Reported, Squeezed
<1>. QED  BY <1>3, <1>4, <1>5, <1>6, <1>7 DEF RegistryInv

(* A request that ends as it is leaves a registry in order.                *)
LEMMA EndsAsItIs ==
  ASSUME RegistryInv, step = "begin", NEW ok \in BOOLEAN, NEW dies, Finish(ok, dies),
         UNCHANGED <<warm, memory, step, pager, seen>>, pc # "admin" \/ at # 1 \/ warm = <<>>,
         \A i \in DOMAIN warm : Squeezed(warm[i]),
         ok /\ req.op = "admin" => pc = "admin" /\ at >= 1,
         ok /\ req.op \in {"start", "load"} => pc = "generate"
  PROVE  RegistryInv'
<1>1. /\ Types /\ Balance /\ Grown /\ Reserved /\ WarmBounded /\ Engines
      /\ UNCHANGED <<warm, free, taken, lost, seen>> /\ warm \in Seq(Engine)
      /\ free \in Nat /\ taken \in Nat /\ lost \in Nat /\ seen \in Nat /\ req \in Request
      /\ at \in Nat
  BY DEF RegistryInv, Types, memory
<1>2. /\ Unfinished = 0 /\ arenas' = 0 /\ step' = "begin"
      /\ slots' \in Nat /\ previous' \in Nat /\ before' \in Nat
  <2>1. /\ Unfinished = 0 /\ step' = "begin"
        /\ slots' \in Nat /\ previous' \in Nat /\ before' \in Nat
    BY AtRest
  <2>2. arenas' = 0
    BY DEF RegistryInv, Stages, pager
  <2>. QED  BY <2>1, <2>2
<1>3. free' + taken' + lost' + HeldBy(warm') = Total
  <2>1. HeldBy(warm) \in Nat
    BY <1>1, HeldByType
  <2>2. HeldBy(warm') = HeldBy(warm)
    BY <1>1
  <2>. QED  BY <1>1, <1>2, <2>1, <2>2 DEF Balance
<1>4. WarmBounded'
  BY <1>1 DEF WarmBounded
<1>5. \A i \in DOMAIN warm' : Reported(warm[i])' /\ Squeezed(warm[i])'
  BY <1>1 DEF Engines, Reported, Squeezed
<1>6. ok /\ req.op = "admin" /\ req.reserve > 0 /\ warm' # <<>> => free' + taken' >= seen' + req.reserve
  <2>. SUFFICES ASSUME ok, req.op = "admin", req.reserve > 0, warm # <<>>
                PROVE  free + taken >= seen + req.reserve
    BY <1>1
  <2>1. pc = "admin" /\ at > 1
    BY <1>1
  <2>. QED  BY <1>1, <2>1 DEF Reserved
<1>7. ok /\ req.op \in {"start", "load"} =>
        \A i \in DOMAIN warm' : Sized(warm[i], Len(warm))'
  BY <1>1 DEF Grown, Sized
<1>. QED  BY <1>1, <1>2, <1>3, <1>4, <1>5, <1>6, <1>7, FinishKeeps

(* The last engine of an admin's request is done.                          *)
LEMMA AdminDoneKeeps == ASSUME RegistryInv, AdminDone PROVE RegistryInv'
<1>1. /\ pc = "admin" /\ at = Len(warm) + 1 /\ Resizing /\ Purpose /\ Engines
      /\ UNCHANGED <<warm, memory, step, pager, seen>>
      /\ Finish(TRUE, req.op = "start" /\ ~TRUE)
  BY DEF RegistryInv, AdminDone, Return, Resizing
<1>2. step = "begin"
  BY <1>1, NotBuilding
<1>3. Len(warm) \in Nat /\ warm \in Seq(Engine)
  BY DEF RegistryInv, Types
<1>4. at # 1 \/ warm = <<>>
  BY <1>1, <1>3
<1>5. \A i \in DOMAIN warm : Squeezed(warm[i])
  BY <1>1, <1>2 DEF Engines, Noting
<1>6. req.op = "admin" /\ at >= 1
  BY <1>1 DEF Purpose
<1>. QED  BY <1>1, <1>2, <1>4, <1>5, <1>6, EndsAsItIs

(* A generation ends.                                                      *)
LEMMA GenerateKeeps == ASSUME RegistryInv, Generate PROVE RegistryInv'
<1>1. /\ pc = "generate" /\ Purpose /\ Engines
      /\ UNCHANGED <<warm, memory, step, pager, seen>>
      /\ Finish(TRUE, req.op # "start" /\ warm[1].pager = NoPager)
  BY DEF RegistryInv, Generate
<1>2. step = "begin"
  BY <1>1, NotBuilding
<1>3. \A i \in DOMAIN warm : Squeezed(warm[i])
  BY <1>1 DEF Engines, Noting
<1>4. req.op # "admin"
  BY <1>1 DEF Purpose
<1>. QED  BY <1>1, <1>2, <1>3, <1>4, EndsAsItIs

(* An eviction, which may end in a panic, or the end of them.              *)
LEMMA EvictKeeps == ASSUME RegistryInv, Evict PROVE RegistryInv'
<1>1. /\ pc = "evict" /\ UNCHANGED <<taken, lost, step, pager, seen>>
      /\ warm \in Seq(Engine) /\ DOMAIN warm = 1 .. Len(warm) /\ Types /\ Len(warm) \in Nat
      /\ free \in Nat /\ taken \in Nat /\ lost \in Nat /\ seen \in Nat /\ req \in Request
  BY DEF Evict, RegistryInv, Types
<1>2. step = "begin"
  BY <1>1, NotBuilding
<1>3. /\ Unfinished = 0 /\ Unfinished' = 0 /\ Stages' /\ Sizing' /\ step' = "begin"
      /\ slots' \in Nat /\ arenas' \in Nat /\ previous' \in Nat /\ before' \in Nat
  BY <1>1, <1>2, AtRest
<1>4. CASE Len(warm) >= MaxWarm /\ warm # <<>>
  <2>1. /\ warm' = Front(warm) /\ free' = free + Held(Last(warm))
        /\ Finish(FALSE, TRUE) \/ UNCHANGED <<pc, at, req, last>>
    BY <1>4 DEF Evict, DropLast, control
  <2>2. /\ warm' \in Seq(Engine) /\ Len(warm') = Len(warm) - 1 /\ Last(warm) \in Engine
        /\ \A i \in 1 .. Len(warm) - 1 : warm'[i] = warm[i]
        /\ HeldBy(warm) = HeldBy(warm') + Held(Last(warm))
    BY <1>1, <1>4, <2>1, HeldByFront
  <2>3. /\ DOMAIN warm' = 1 .. Len(warm) - 1 /\ DOMAIN warm' \subseteq DOMAIN warm
        /\ \A i \in DOMAIN warm' : warm'[i] = warm[i]
    BY <1>1, <2>2
  <2>4. Held(Last(warm)) \in Nat /\ HeldBy(warm') \in Nat /\ Total \in Nat
    BY <2>2, HeldType, HeldByType, RegistryAssumption
  <2>5. free' \in Nat
    BY <1>1, <2>1, <2>4
  <2>6. free' + taken' + lost' + HeldBy(warm') = Total
    <3>1. free + taken + lost + HeldBy(warm) = Total
      BY <1>1, <1>3, <2>2, <2>4 DEF RegistryInv, Balance
    <3>. QED  BY <1>1, <2>1, <2>2, <2>4, <3>1, SMTT(20)
  <2>7. WarmBounded'
    <3>1. Len(warm') <= MaxWarm \/ Len(warm') <= 1
      BY <1>1, <2>2, RegistryAssumption DEF RegistryInv, WarmBounded
    <3>. QED  BY <2>3, <3>1 DEF RegistryInv, WarmBounded
  <2>8. ASSUME NEW i \in DOMAIN warm'
        PROVE  Reported(warm[i])' /\ Squeezed(warm[i])'
    BY <1>1, <2>3, <2>8 DEF RegistryInv, Engines, Noting, Reported, Squeezed
  <2>9. CASE Finish(FALSE, TRUE)
    <3>1. arenas' = 0
      BY <1>1, <1>2 DEF RegistryInv, Stages, pager
    <3>2. taken' \in Nat /\ lost' \in Nat /\ seen' \in Nat
      BY <1>1
    <3>. QED  BY <1>1, <1>3, <2>2, <2>5, <2>6, <2>7, <2>8, <2>9, <3>1, <3>2, FinishKeeps
  <2>10. CASE UNCHANGED <<pc, at, req, last>>
    <3>1. Types'
      BY <1>1, <1>3, <2>2, <2>5, <2>10 DEF Types, Steps
    <3>2. Purpose' /\ Grown' /\ Reserved' /\ ReserveHonoured' /\ SizedForCount'
      BY <1>1, <2>10 DEF RegistryInv, Purpose, Grown, Reserved, ReserveHonoured, SizedForCount
    <3>3. Room'
      BY <1>1, <2>3, <2>10 DEF RegistryInv, Room
    <3>4. Balance'
      BY <1>3, <2>4, <2>6 DEF Balance
    <3>5. Engines'
      BY <2>8 DEF Engines
    <3>. QED  BY <1>3, <2>7, <3>1, <3>2, <3>3, <3>4, <3>5 DEF RegistryInv
  <2>. QED  BY <2>1, <2>9, <2>10
<1>5. CASE ~(Len(warm) >= MaxWarm /\ warm # <<>>)
  <2>1. pc' = "shrink" /\ at' = 1 /\ UNCHANGED <<warm, free, req, last>>
    BY <1>5 DEF Evict, Goto
  <2>2. Types'
    BY <1>1, <1>3, <2>1 DEF Types, Labels, Steps
  <2>3. Purpose' /\ Grown' /\ Reserved' /\ ReserveHonoured' /\ SizedForCount'
    BY <1>1, <2>1 DEF RegistryInv, Purpose, Grown, Reserved, ReserveHonoured, SizedForCount
  <2>4. Room'
    <3>1. Len(warm) < MaxWarm \/ warm = <<>>
      BY <1>1, <1>5, RegistryAssumption
    <3>. QED  BY <1>1, <2>1, <3>1 DEF RegistryInv, Room
  <2>5. Balance' /\ WarmBounded' /\ Engines'
    BY <1>1, <1>3, <2>1
       DEF RegistryInv, Balance, WarmBounded, Engines, Noting, Squeezed, Reported
  <2>. QED  BY <1>3, <2>2, <2>3, <2>4, <2>5 DEF RegistryInv
<1>. QED  BY <1>4, <1>5

(* Other processes take or give memory.                                    *)
LEMMA NeighbourKeeps == ASSUME RegistryInv, Neighbour PROVE RegistryInv'
<1>1. /\ Types /\ Purpose /\ Stages /\ Balance /\ Room /\ Sizing /\ Grown /\ Reserved
      /\ WarmBounded /\ Engines /\ ReserveHonoured /\ SizedForCount
  BY DEF RegistryInv
<1>2. /\ taken' \in Nat /\ taken' <= taken + free /\ free' = free + taken - taken'
      /\ UNCHANGED <<warm, lost, pc, at, req, last, step, slots, arenas, previous, before, seen>>
      /\ free \in Nat /\ taken \in Nat /\ lost \in Nat
  <2>1. taken' \in Nat
    BY RegistryAssumption DEF Neighbour
  <2>. QED  BY <1>1, <2>1 DEF Neighbour, control, pager, Types
<1>3. free' \in Nat /\ free' + taken' = free + taken
  <2>1. \A x, y, z \in Nat : z <= y + x => x + y - z \in Nat /\ (x + y - z) + z = x + y
    OBVIOUS
  <2>. QED  BY <1>2, <2>1
<1>4. Types'
  BY <1>1, <1>2, <1>3 DEF Types
<1>5. /\ Subject' = Subject /\ Wanted' = Wanted /\ Reserve' = Reserve
      /\ Loading' = Loading /\ Resizing' = Resizing
  BY <1>2, SameWants
<1>6. Purpose' /\ Stages' /\ Room' /\ Grown'
  BY <1>1, <1>2, <1>5 DEF Purpose, Stages, Room, Grown, Sized
<1>7. Sizing'
  BY <1>1, <1>2, <1>5 DEF Sizing
<1>8. Balance'
  <2>1. Unfinished' = Unfinished
    BY <1>2, <1>5 DEF Unfinished
  <2>2. HeldBy(warm') = HeldBy(warm)
    BY <1>2
  <2>3. Unfinished \in Nat /\ HeldBy(warm) \in Nat
    BY <1>1, UnfinishedType, HeldByType DEF Types
  <2>4. free' + taken' + lost' = free + taken + lost
    BY <1>2, <1>3
  <2>. QED  BY <1>1, <2>1, <2>2, <2>4 DEF Balance
<1>9. Reserved' /\ ReserveHonoured'
  <2>1. Subject' = Subject
    BY <1>5
  <2>. QED  BY <1>1, <1>2, <1>3, <2>1 DEF Reserved, ReserveHonoured
<1>10. WarmBounded' /\ Engines' /\ SizedForCount'
  BY <1>1, <1>2 DEF WarmBounded, Engines, Noting, Reported, Squeezed, SizedForCount
<1>. QED  BY <1>4, <1>6, <1>7, <1>8, <1>9, <1>10 DEF RegistryInv

-----------------------------------------------------------------------------
(* The theorems.                                                           *)

(* A step that changes nothing.                                            *)
LEMMA StutterKeeps == ASSUME RegistryInv, UNCHANGED vars PROVE RegistryInv'
<1>1. /\ Types /\ Purpose /\ Stages /\ Balance /\ Room /\ Sizing /\ Grown /\ Reserved
      /\ WarmBounded /\ Engines /\ ReserveHonoured /\ SizedForCount
      /\ UNCHANGED <<warm, free, taken, lost, pc, at, req, last, step, slots, arenas,
                     previous, before, seen>>
  BY DEF RegistryInv, vars, memory, control, pager
<1>2. /\ Subject' = Subject /\ Wanted' = Wanted /\ Reserve' = Reserve
      /\ Loading' = Loading /\ Resizing' = Resizing
  BY <1>1, SameWants
<1>3. Types' /\ Purpose' /\ Stages' /\ Room' /\ Sizing'
  BY <1>1, <1>2 DEF Types, Purpose, Stages, Room, Sizing
<1>4. Balance'
  BY <1>1, <1>2 DEF Balance, Unfinished
<1>5. Grown' /\ Reserved' /\ WarmBounded' /\ Engines' /\ ReserveHonoured' /\ SizedForCount'
  BY <1>1, <1>2 DEF Grown, Reserved, WarmBounded, Engines, Noting, Reported, Squeezed, Sized,
                    ReserveHonoured, SizedForCount
<1>. QED  BY <1>3, <1>4, <1>5 DEF RegistryInv

(* The invariant is inductive.                                             *)
LEMMA NextRegistry ==
  ASSUME RegistryInv, [Next]_vars
  PROVE  RegistryInv'
<1>1. CASE UNCHANGED vars
  BY <1>1, StutterKeeps
<1>2. ASSUME NEW m \in Models, Touch(m) \/ WarmUp(m)
      PROVE  RegistryInv'
  BY <1>2, TouchKeeps, WarmUpKeeps
<1>3. ASSUME NEW t \in Targets \cup {Nothing}, NEW r \in Reserves \cup {Nothing},
             AdminSlots(t, r)
      PROVE  RegistryInv'
  BY <1>3, AdminSlotsKeeps
<1>4. CASE Evict \/ Rebalanced \/ AdminDone \/ Generate \/ Neighbour
  BY <1>4, EvictKeeps, RebalancedKeeps, AdminDoneKeeps, GenerateKeeps, NeighbourKeeps
<1>5. CASE SizeFits \/ DropPager \/ SyncFault
  BY <1>5, SizeFitsKeeps, DropPagerKeeps, SyncFaultKeeps
<1>6. CASE OpenPager \/ AllocArena \/ PagerBuilt \/ PagerFault
  BY <1>6, OpenPagerKeeps, AllocArenaKeeps, PagerBuiltKeeps, PagerFaultKeeps
<1>7. CASE LoadCore \/ LoadKv \/ LoadStops
  BY <1>7, LoadCoreKeeps, LoadKvKeeps, LoadStopsKeeps
<1>. QED  BY <1>1, <1>2, <1>3, <1>4, <1>5, <1>6, <1>7 DEF Next

(* It holds in every reachable state.                                      *)
THEOREM RegistryInOrder == Spec => []RegistryInv
BY InitRegistry, NextRegistry, PTL DEF Spec

(* However evictions, resizes, failed loads and restored caches follow one *)
(* another, and whatever other processes take between any two of their     *)
(* allocations, the card's memory is free, taken, held by a warm engine or *)
(* by one that is being built, or lost, each unit counted once.            *)
THEOREM MemoryConserved == Spec => []MemoryAccounted
<1>1. RegistryInv => MemoryAccounted
  <2>. SUFFICES ASSUME RegistryInv
                PROVE  MemoryAccounted
    OBVIOUS
  <2>1. Types /\ Stages /\ Balance
    BY DEF RegistryInv
  <2>. DEFINE h == HeldBy(warm)
              u == Unfinished
  <2>2. h \in Nat /\ u \in Nat
    BY <2>1, HeldByType, UnfinishedType DEF Types
  <2>3. free \in Nat /\ taken \in Nat /\ lost \in Nat /\ free + taken + lost + h + u = Total
    BY <2>1 DEF Types, Balance
  <2>. HIDE DEF h, u
  <2>4. free <= Total /\ taken <= Total /\ lost <= Total /\ Total \in Nat
    BY <2>2, <2>3
  <2>5. {free, taken, lost} \subseteq 0 .. Total
    BY <2>3, <2>4
  <2>. QED  BY <2>3, <2>5 DEF MemoryAccounted, h, u
<1>. QED  BY <1>1, RegistryInOrder, PTL

(* warm_up never leaves more than max_warm engines, nor one twice.         *)
THEOREM WarmSetBounded == Spec => []WarmBounded
<1>1. RegistryInv => WarmBounded
  BY DEF RegistryInv
<1>. QED  BY <1>1, RegistryInOrder, PTL

(* The size an engine reports is the size its cache has.                   *)
THEOREM SizesReported == Spec => []SizeReported
<1>1. RegistryInv => SizeReported
  BY DEF RegistryInv, Engines, Reported, SizeReported
<1>. QED  BY <1>1, RegistryInOrder, PTL

(* Each arena of the previous pager fits, unless memory went to a leak or  *)
(* to another process since the old arenas were freed.                     *)
THEOREM PreviousCachesFit == Spec => []PreviousFits
<1>1. RegistryInv => PreviousFits
  <2>. SUFFICES ASSUME RegistryInv
                PROVE  PreviousFits
    OBVIOUS
  <2>. SUFFICES ASSUME step = "restore", previous # NoPager,
                       arenas < Layers[Subject], ~(taken + lost > before)
                PROVE  slots \in 1 .. free
    BY DEF PreviousFits
  <2>1. Types /\ Stages /\ Balance /\ Sizing /\ Resizing /\ slots = previous /\ at \in DOMAIN warm
    BY DEF RegistryInv, Stages
  <2>2. /\ slots \in Nat /\ slots # 0 /\ arenas \in Nat /\ free \in Nat
        /\ taken \in Nat /\ lost \in Nat /\ before \in Nat
    BY <2>1 DEF Types, NoPager
  <2>3. Layers[Subject] \in Nat /\ ~Loading /\ Total \in Nat
    BY <2>1, SubjectType, RegistryAssumption
  <2>. DEFINE h == HeldBy(warm)
              p == arenas * slots
              q == Layers[Subject] * slots
  <2>4. h \in Nat
    BY <2>1, HeldByType DEF Types
  <2>5. p \in Nat /\ q \in Nat /\ p + slots <= q
    <3>1. \A x, y \in Nat : x * y \in Nat /\ (x + 1) * y = x * y + y
      OBVIOUS
    <3>2. \A x, y, z \in Nat : x <= y => x * z <= y * z
      OBVIOUS
    <3>3. (arenas + 1) * slots <= q
      BY <2>2, <2>3, <3>2
    <3>. QED  BY <2>2, <2>3, <3>1, <3>3
  <2>6. free + taken + lost + h + p = Total
    BY <2>1, <2>3, UnfinishedType DEF Balance
  <2>7. before + h + q <= Total
    BY <2>1 DEF Sizing
  <2>. HIDE DEF h, p, q
  <2>8. slots <= free
    BY <2>2, <2>3, <2>4, <2>5, <2>6, <2>7
  <2>. QED  BY <2>2, <2>8
<1>. QED  BY <1>1, RegistryInOrder, PTL

(* What an admin's resizes with a reserve leave the other processes.       *)
THEOREM ReservesHonoured == Spec => []ReserveHonoured
<1>1. RegistryInv => ReserveHonoured
  BY DEF RegistryInv
<1>. QED  BY <1>1, RegistryInOrder, PTL

(* After a load every warm model has the size for their number.            *)
THEOREM SizedAfterLoad == Spec => []SizedForCount
<1>1. RegistryInv => SizedForCount
  BY DEF RegistryInv
<1>. QED  BY <1>1, RegistryInOrder, PTL
=============================================================================
