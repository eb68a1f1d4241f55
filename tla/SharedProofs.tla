---------------------------- MODULE SharedProofs ----------------------------
(***************************************************************************)
(* Lemmas that the proofs of several components rest on: least elements,   *)
(* induction and folds; sums over finite sets, in which Registry counts    *)
(* the memory of the warm engines and Sessions the parked bytes; and what  *)
(* the operators of ExpertCacheOps do to a cache record, for the           *)
(* bookkeeping on its own, the decoder, and the pager, which keeps two.    *)
(***************************************************************************)
EXTENDS ExpertCacheOps, Functions, FiniteSets, FiniteSetTheorems, WellFoundedInduction, TLAPS

(* A set of naturals that is not empty has a least element.                *)
LEMMA LeastNatural ==
  ASSUME NEW T, T \subseteq Nat, T # {}
  PROVE  \E m \in T : \A n \in T : m <= n
<1>1. \E m \in T : \A n \in T : <<n, m>> \notin OpToRel(<, Nat)
  BY NatLessThanWellFounded, WFMin
<1>2. \A m, n \in T : <<n, m>> \notin OpToRel(<, Nat) => m <= n
  BY DEF OpToRel
<1>. QED  BY <1>1, <1>2

(* The fold behind a sum: g gives the sum of f over every subset of T.     *)
Pick(s) == CHOOSE x \in s : TRUE
Step(f, g, s) == IF s = {} THEN 0 ELSE f[Pick(s)] + g[s \ {Pick(s)}]
FoldOf(f, T, g) == g = [s \in SUBSET T |-> Step(f, g, s)]

(* A subset of a finite set, and the subset without one element.           *)
LEMMA Smaller ==
  ASSUME NEW T, IsFiniteSet(T), NEW s \in SUBSET T
  PROVE  /\ IsFiniteSet(s) /\ Cardinality(s) \in Nat
         /\ Cardinality(s) <= Cardinality(T) /\ Cardinality(T) \in Nat
         /\ Cardinality(s) = 0 <=> s = {}
         /\ \A x \in s : /\ s \ {x} \in SUBSET T
                         /\ Cardinality(s \ {x}) = Cardinality(s) - 1
         /\ s # {} => Pick(s) \in s
<1>1. IsFiniteSet(s) /\ Cardinality(s) <= Cardinality(T)
  BY FS_Subset
<1>2. Cardinality(s) \in Nat /\ Cardinality(T) \in Nat
  BY <1>1, FS_CardinalityType
<1>3. Cardinality(s) = 0 <=> s = {}
  BY <1>1, FS_EmptySet
<1>4. \A x \in s : Cardinality(s \ {x}) = Cardinality(s) - 1
  BY <1>1, FS_RemoveElement
<1>5. s # {} => Pick(s) \in s
  BY DEF Pick
<1>. QED  BY <1>1, <1>2, <1>3, <1>4, <1>5

(* Induction up to n, on the numbers that a set has.                       *)
LEMMA UpTo ==
  ASSUME NEW n \in Nat, NEW T, 0 \in T, \A k \in 0 .. n : k \in T /\ k < n => k + 1 \in T
  PROVE  \A k \in 0 .. n : k \in T
<1>. DEFINE Bad == {k \in 0 .. n : k \notin T}
<1>1. SUFFICES ASSUME Bad # {}
               PROVE  FALSE
  OBVIOUS
<1>2. PICK m \in Bad : \A k \in Bad : m <= k
  <2>1. Bad \subseteq Nat /\ Bad # {}
    BY <1>1
  <2>. HIDE DEF Bad
  <2>. QED  BY <2>1, LeastNatural
<1>3. m - 1 \in 0 .. n /\ m - 1 \notin Bad
  BY <1>2
<1>. QED  BY <1>2, <1>3

\* g solves a recursion over the subsets of 1 .. n, each of which is reduced by the
\* element that top names: what a fold is defined by.
Solves(g, n, D, base, f, top) ==
  /\ g \in [SUBSET (1 .. n) -> D]
  /\ \A r \in SUBSET (1 .. n) :
       g[r] = IF r = {} THEN base ELSE f[<<top[r], g[r \ {top[r]}]>>]

(* Such a recursion has a solution.                                        *)
LEMMA FoldTable ==
  ASSUME NEW n \in Nat, NEW D, NEW base \in D, NEW f \in [(1 .. n) \X D -> D],
         NEW top, \A r \in SUBSET (1 .. n) : r # {} => top[r] \in r
  PROVE  \E g : Solves(g, n, D, base, f, top)
<1>. DEFINE T == 1 .. n
            Sub(k) == {r \in SUBSET T : Cardinality(r) <= k}
            Fill(g, r) == IF r = {} THEN base ELSE f[<<top[r], g[r \ {top[r]}]>>]
            Good(k) == \E g \in [Sub(k) -> D] : \A r \in Sub(k) : g[r] = Fill(g, r)
            Goods == {k \in 0 .. n : Good(k)}
<1>0. /\ IsFiniteSet(T) /\ Cardinality(T) = n
      /\ f \in [T \X D -> D] /\ \A r \in SUBSET T : r # {} => top[r] \in r
  <2>1. IsFiniteSet(1 .. n) /\ Cardinality(1 .. n) = n
    BY FS_Interval
  <2>. QED  BY <2>1
<1>. HIDE DEF T
<1>a. \A r \in SUBSET T : /\ Cardinality(r) \in Nat /\ Cardinality(r) <= n
                          /\ Cardinality(r) = 0 <=> r = {}
                          /\ \A x \in r : /\ r \ {x} \in SUBSET T
                                         /\ Cardinality(r \ {x}) = Cardinality(r) - 1
  <2>. SUFFICES ASSUME NEW r \in SUBSET T
                PROVE  /\ Cardinality(r) \in Nat /\ Cardinality(r) <= n
                       /\ Cardinality(r) = 0 <=> r = {}
                       /\ \A x \in r : /\ r \ {x} \in SUBSET T
                                      /\ Cardinality(r \ {x}) = Cardinality(r) - 1
    OBVIOUS
  <2>. QED  BY <1>0, Smaller
<1>1. Good(0)
  <2>. DEFINE g == [r \in Sub(0) |-> base]
  <2>1. \A r \in Sub(0) : r = {}
    BY <1>a
  <2>2. g \in [Sub(0) -> D] /\ \A r \in Sub(0) : g[r] = Fill(g, r)
    BY <2>1
  <2>. HIDE DEF g, Sub, Fill
  <2>. QED  BY <2>2
<1>2. ASSUME NEW k \in 0 .. n, Good(k)
      PROVE  Good(k + 1)
  <2>1. PICK g \in [Sub(k) -> D] : \A r \in Sub(k) : g[r] = Fill(g, r)
    BY <1>2
  <2>. DEFINE h == [r \in Sub(k + 1) |-> Fill(g, r)]
  <2>2. ASSUME NEW r \in Sub(k + 1), r # {}
        PROVE  /\ r \ {top[r]} \in Sub(k) /\ r \ {top[r]} \in Sub(k + 1)
               /\ top[r] \in T
    <3>1. r \in SUBSET T /\ top[r] \in r
      BY <1>0, <2>2
    <3>2. /\ Cardinality(r) \in Nat /\ Cardinality(r \ {top[r]}) = Cardinality(r) - 1
          /\ r \ {top[r]} \in SUBSET T /\ Cardinality(r) <= k + 1
      BY <1>a, <3>1
    <3>3. k \in Nat /\ Cardinality(r \ {top[r]}) <= k /\ Cardinality(r \ {top[r]}) <= k + 1
      BY <3>2
    <3>. QED  BY <3>1, <3>2, <3>3
  <2>3. \A r \in Sub(k + 1) : Fill(g, r) \in D
    <3>. HIDE DEF Sub
    <3>. QED  BY <1>0, <2>1, <2>2
  <2>4. \A r \in Sub(k) : r \in Sub(k + 1)
    BY <1>a
  <2>5. \A r \in Sub(k) : h[r] = g[r]
    <3>. HIDE DEF Sub, Fill
    <3>. QED  BY <2>1, <2>4
  <2>6. \A r \in Sub(k + 1) : Fill(g, r) = Fill(h, r)
    <3>. HIDE DEF Sub, h
    <3>. QED  BY <2>2, <2>5
  <2>7. h \in [Sub(k + 1) -> D] /\ \A r \in Sub(k + 1) : h[r] = Fill(h, r)
    <3>. HIDE DEF Sub, Fill
    <3>. QED  BY <2>3, <2>6
  <2>. HIDE DEF h, Sub, Fill
  <2>. QED  BY <2>7
<1>3. Good(n)
  <2>. HIDE DEF Good
  <2>1. 0 \in Goods /\ \A k \in 0 .. n : k \in Goods /\ k < n => k + 1 \in Goods
    BY <1>1, <1>2
  <2>. HIDE DEF Goods
  <2>2. n \in Goods
    BY <2>1, UpTo
  <2>. QED  BY <2>2 DEF Goods
<1>4. Sub(n) = SUBSET T
  BY <1>a
<1>. QED  BY <1>3, <1>4 DEF T, Solves

(* There is such a fold: it is built up by the size of the subsets.        *)
LEMMA FoldExists ==
  ASSUME NEW f, NEW T, IsFiniteSet(T)
  PROVE  \E g : FoldOf(f, T, g)
<1>. DEFINE Sub(n) == {s \in SUBSET T : Cardinality(s) <= n}
            Good(n) == \E g : g = [s \in Sub(n) |-> Step(f, g, s)]
            Bad == {n \in Nat : ~Good(n)}
<1>1. Good(0)
  <2>. DEFINE g == [s \in Sub(0) |-> 0]
  <2>1. \A s \in Sub(0) : Step(f, g, s) = 0
    BY Smaller DEF Step
  <2>2. g = [s \in Sub(0) |-> Step(f, g, s)]
    BY <2>1
  <2>. QED  BY <2>2
<1>2. ASSUME NEW m \in Nat \ {0}, Good(m - 1)
      PROVE  Good(m)
  <2>1. PICK g : g = [s \in Sub(m - 1) |-> Step(f, g, s)]
    BY <1>2
  <2>. DEFINE h == [s \in Sub(m) |-> Step(f, g, s)]
  <2>2. ASSUME NEW s \in Sub(m), s # {}
        PROVE  h[s \ {Pick(s)}] = g[s \ {Pick(s)}]
    <3>1. s \ {Pick(s)} \in Sub(m - 1) /\ s \ {Pick(s)} \in Sub(m)
      BY <2>2, Smaller
    <3>. QED  BY <2>1, <3>1
  <2>3. \A s \in Sub(m) : Step(f, g, s) = Step(f, h, s)
    BY <2>2 DEF Step
  <2>4. h = [s \in Sub(m) |-> Step(f, h, s)]
    BY <2>3
  <2>. QED  BY <2>4
<1>3. Good(Cardinality(T))
  <2>1. Cardinality(T) \in Nat
    BY FS_CardinalityType
  <2>2. SUFFICES ASSUME Bad # {}
                 PROVE  FALSE
    BY <2>1
  <2>. HIDE DEF Good
  <2>3. PICK m \in Bad : \A n \in Bad : m <= n
    BY <2>2, LeastNatural
  <2>4. CASE m = 0
    BY <1>1, <2>4
  <2>5. CASE m # 0
    <3>1. m - 1 \in Nat /\ m - 1 \notin Bad
      BY <2>3, <2>5
    <3>. QED  BY <1>2, <2>5, <3>1
  <2>. QED  BY <2>4, <2>5
<1>4. Sub(Cardinality(T)) = SUBSET T
  BY Smaller
<1>. QED  BY <1>3, <1>4 DEF FoldOf

(* A sum is the fold at the whole set.                                     *)
LEMMA SumIsFold ==
  ASSUME NEW f, NEW T, IsFiniteSet(T)
  PROVE  \E g : FoldOf(f, T, g) /\ SumFunctionOnSet(f, T) = g[T]
<1>. DEFINE g == CHOOSE h : h = [s \in SUBSET T |->
                    IF s = {} THEN 0 ELSE f[Pick(s)] + h[s \ {Pick(s)}]]
<1>1. FoldOf(f, T, g)
  <2>. DEFINE IsFold(h) == h = [s \in SUBSET T |->
                    IF s = {} THEN 0 ELSE f[Pick(s)] + h[s \ {Pick(s)}]]
  <2>1. \E h : IsFold(h)
    <3>1. PICK h : FoldOf(f, T, h)
      BY FoldExists
    <3>2. IsFold(h)
      BY <3>1 DEF FoldOf, Step
    <3>. QED  BY <3>2
  <2>2. g = CHOOSE h : IsFold(h)
    OBVIOUS
  <2>. HIDE DEF IsFold, g
  <2>3. IsFold(g)
    BY <2>1, <2>2
  <2>. QED  BY <2>3 DEF IsFold, FoldOf, Step
<1>2. SumFunctionOnSet(f, T) = g[T]
  BY DEF SumFunctionOnSet, FoldFunctionOnSet, MapThenFoldSet, Pick
<1>. QED  BY <1>1, <1>2

(* Two folds of functions that agree on a set agree on the set.            *)
LEMMA FoldsAgree ==
  ASSUME NEW f, NEW T, IsFiniteSet(T), NEW g, FoldOf(f, T, g),
         NEW h, NEW U, IsFiniteSet(U), NEW k, FoldOf(h, U, k),
         NEW s, s \in SUBSET T, s \in SUBSET U, \A x \in s : f[x] = h[x]
  PROVE  g[s] = k[s]
<1>. DEFINE Bad == {n \in Nat : \E r \in SUBSET s : Cardinality(r) = n /\ g[r] # k[r]}
<1>1. \A r \in SUBSET s : r \in SUBSET T /\ r \in SUBSET U
  OBVIOUS
<1>2. ASSUME NEW r \in SUBSET s
      PROVE  g[r] = Step(f, g, r) /\ k[r] = Step(h, k, r)
  BY <1>1 DEF FoldOf
<1>3. SUFFICES ASSUME g[s] # k[s]
               PROVE  FALSE
  OBVIOUS
<1>4. Cardinality(s) \in Bad
  BY <1>3, Smaller
<1>5. PICK n \in Bad : \A m \in Bad : n <= m
  BY <1>4, LeastNatural
<1>6. PICK r \in SUBSET s : Cardinality(r) = n /\ g[r] # k[r]
  BY <1>5
<1>7. CASE r = {}
  BY <1>2, <1>6, <1>7 DEF Step
<1>8. CASE r # {}
  <2>. DEFINE x == Pick(r)
  <2>1. x \in r /\ Cardinality(r \ {x}) = n - 1 /\ n - 1 \in Nat /\ f[x] = h[x]
    BY <1>1, <1>6, <1>8, Smaller
  <2>2. r \ {x} \in SUBSET s /\ n - 1 \notin Bad
    BY <1>5, <2>1
  <2>3. g[r \ {x}] = k[r \ {x}]
    BY <2>1, <2>2
  <2>. QED  BY <1>2, <1>6, <1>8, <2>1, <2>3 DEF Step
<1>. QED  BY <1>7, <1>8

(* A fold of naturals is a natural.                                        *)
LEMMA FoldType ==
  ASSUME NEW f, NEW T, IsFiniteSet(T), NEW g, FoldOf(f, T, g), \A x \in T : f[x] \in Nat,
         NEW s \in SUBSET T
  PROVE  g[s] \in Nat
<1>. DEFINE Bad == {n \in Nat : \E r \in SUBSET T : Cardinality(r) = n /\ g[r] \notin Nat}
<1>1. SUFFICES ASSUME g[s] \notin Nat
               PROVE  FALSE
  OBVIOUS
<1>2. Cardinality(s) \in Bad
  BY <1>1, Smaller
<1>3. PICK n \in Bad : \A m \in Bad : n <= m
  BY <1>2, LeastNatural
<1>4. PICK r \in SUBSET T : Cardinality(r) = n /\ g[r] \notin Nat
  BY <1>3
<1>5. g[r] = Step(f, g, r)
  BY DEF FoldOf
<1>6. CASE r = {}
  BY <1>4, <1>5, <1>6 DEF Step
<1>7. CASE r # {}
  <2>. DEFINE x == Pick(r)
  <2>1. x \in r /\ Cardinality(r \ {x}) = n - 1 /\ n - 1 \in Nat /\ r \ {x} \in SUBSET T
    BY <1>4, <1>7, Smaller
  <2>2. n - 1 \notin Bad
    BY <1>3, <2>1
  <2>3. g[r \ {x}] \in Nat /\ f[x] \in Nat
    BY <2>1, <2>2
  <2>. QED  BY <1>4, <1>5, <1>7, <2>3 DEF Step
<1>. QED  BY <1>6, <1>7

(* Any element may be taken out of a fold, not only the one it picks.      *)
LEMMA FoldRemove ==
  ASSUME NEW f, NEW T, IsFiniteSet(T), NEW g, FoldOf(f, T, g), \A x \in T : f[x] \in Nat,
         NEW s \in SUBSET T, NEW e \in s
  PROVE  g[s] = f[e] + g[s \ {e}]
<1>. DEFINE Bad == {n \in Nat : \E r \in SUBSET T : \E x \in r :
                       Cardinality(r) = n /\ g[r] # f[x] + g[r \ {x}]}
<1>1. SUFFICES ASSUME g[s] # f[e] + g[s \ {e}]
               PROVE  FALSE
  OBVIOUS
<1>2. Cardinality(s) \in Bad
  BY <1>1, Smaller
<1>3. PICK n \in Bad : \A m \in Bad : n <= m
  BY <1>2, LeastNatural
<1>4. PICK r \in SUBSET T : \E x \in r : Cardinality(r) = n /\ g[r] # f[x] + g[r \ {x}]
  BY <1>3
<1>5. PICK x \in r : Cardinality(r) = n /\ g[r] # f[x] + g[r \ {x}]
  BY <1>4
<1>. DEFINE y == Pick(r)
<1>6. y \in r /\ g[r] = f[y] + g[r \ {y}]
  <2>1. y \in r
    BY <1>5, Smaller
  <2>. QED  BY <2>1 DEF FoldOf, Step
<1>7. x # y
  BY <1>5, <1>6
<1>8. /\ r \ {x} \in SUBSET T /\ r \ {y} \in SUBSET T
      /\ Cardinality(r \ {x}) = n - 1 /\ Cardinality(r \ {y}) = n - 1 /\ n - 1 \in Nat
  BY <1>5, <1>6, Smaller
<1>9. n - 1 \notin Bad
  <2>. HIDE DEF Bad
  <2>1. n \in Nat
    BY <1>3 DEF Bad
  <2>. QED  BY <1>3, <2>1
<1>. HIDE DEF y
<1>10. /\ g[r \ {y}] = f[x] + g[(r \ {y}) \ {x}]
      /\ g[r \ {x}] = f[y] + g[(r \ {x}) \ {y}]
  <2>1. x \in r \ {y} /\ y \in r \ {x}
    BY <1>6, <1>7
  <2>. QED  BY <1>8, <1>9, <2>1
<1>11. (r \ {y}) \ {x} = (r \ {x}) \ {y} /\ (r \ {y}) \ {x} \in SUBSET T
  OBVIOUS
<1>. DEFINE q == g[(r \ {y}) \ {x}]
<1>12. f[x] \in Nat /\ f[y] \in Nat /\ q \in Nat
  BY <1>6, <1>11, FoldType
<1>13. g[r] = f[y] + (f[x] + q) /\ g[r \ {x}] = f[y] + q
  BY <1>6, <1>10, <1>11
<1>. HIDE DEF q
<1>. QED  BY <1>5, <1>12, <1>13

-----------------------------------------------------------------------------
(* What the specifications' proofs cite.                                   *)

(* The sum over no elements.                                               *)
LEMMA SumEmpty ==
  ASSUME NEW f
  PROVE  SumFunctionOnSet(f, {}) = 0
<1>1. PICK g : FoldOf(f, {}, g) /\ SumFunctionOnSet(f, {}) = g[{}]
  BY FS_EmptySet, SumIsFold
<1>. QED  BY <1>1 DEF FoldOf, Step

(* A sum of naturals is one.                                               *)
LEMMA SumType ==
  ASSUME NEW f, NEW T, IsFiniteSet(T), \A x \in T : f[x] \in Nat
  PROVE  SumFunctionOnSet(f, T) \in Nat
BY SumIsFold, FoldType

(* The sum depends on the values at its elements only.                     *)
LEMMA SumSame ==
  ASSUME NEW f, NEW h, NEW T, IsFiniteSet(T), \A x \in T : f[x] = h[x]
  PROVE  SumFunctionOnSet(f, T) = SumFunctionOnSet(h, T)
<1>1. PICK g : FoldOf(f, T, g) /\ SumFunctionOnSet(f, T) = g[T]
  BY SumIsFold
<1>2. PICK k : FoldOf(h, T, k) /\ SumFunctionOnSet(h, T) = k[T]
  BY SumIsFold
<1>3. g[T] = k[T]
  BY <1>1, <1>2, FoldsAgree
<1>. QED  BY <1>1, <1>2, <1>3

(* One element may be taken out of the sum.                                *)
LEMMA SumRemove ==
  ASSUME NEW f, NEW T, IsFiniteSet(T), \A x \in T : f[x] \in Nat, NEW e \in T
  PROVE  SumFunctionOnSet(f, T) = f[e] + SumFunctionOnSet(f, T \ {e})
<1>0. IsFiniteSet(T \ {e})
  BY FS_RemoveElement
<1>1. PICK g : FoldOf(f, T, g) /\ SumFunctionOnSet(f, T) = g[T]
  BY SumIsFold
<1>2. PICK k : FoldOf(f, T \ {e}, k) /\ SumFunctionOnSet(f, T \ {e}) = k[T \ {e}]
  BY <1>0, SumIsFold
<1>3. g[T \ {e}] = k[T \ {e}]
  BY <1>0, <1>1, <1>2, FoldsAgree
<1>4. g[T] = f[e] + g[T \ {e}]
  BY <1>1, FoldRemove
<1>. QED  BY <1>1, <1>2, <1>3, <1>4

(* A change at one element changes the sum by as much.                     *)
LEMMA SumChange ==
  ASSUME NEW f, NEW h, NEW T, IsFiniteSet(T),
         \A x \in T : f[x] \in Nat /\ h[x] \in Nat,
         NEW e \in T, \A x \in T : x # e => h[x] = f[x]
  PROVE  SumFunctionOnSet(h, T) + f[e] = SumFunctionOnSet(f, T) + h[e]
<1>0. IsFiniteSet(T \ {e})
  BY FS_RemoveElement
<1>1. SumFunctionOnSet(h, T \ {e}) = SumFunctionOnSet(f, T \ {e})
  BY <1>0, SumSame
<1>2. SumFunctionOnSet(f, T \ {e}) \in Nat
  BY <1>0, SumType
<1>3. /\ SumFunctionOnSet(f, T) = f[e] + SumFunctionOnSet(f, T \ {e})
      /\ SumFunctionOnSet(h, T) = h[e] + SumFunctionOnSet(h, T \ {e})
  BY SumRemove
<1>. QED  BY <1>1, <1>2, <1>3

(* The sum does not depend on what its elements are called: p renames the  *)
(* elements of S to those of T.                                            *)
Renames(p, S, T) ==
  /\ p \in [S -> T]
  /\ \A x, y \in S : p[x] = p[y] => x = y
  /\ \A t \in T : \E x \in S : p[x] = t

LEMMA SumRenamed ==
  ASSUME NEW f, NEW S, IsFiniteSet(S), NEW h, NEW T, IsFiniteSet(T),
         NEW p, Renames(p, S, T),
         \A x \in S : f[x] \in Nat /\ f[x] = h[p[x]]
  PROVE  SumFunctionOnSet(f, S) = SumFunctionOnSet(h, T)
<1>. DEFINE Image(r) == {p[x] : x \in r}
            Bad == {n \in Nat : \E r \in SUBSET S :
                      Cardinality(r) = n
                      /\ SumFunctionOnSet(f, r) # SumFunctionOnSet(h, Image(r))}
<1>1. Image(S) = T
  BY DEF Renames
<1>2. SUFFICES ASSUME SumFunctionOnSet(f, S) # SumFunctionOnSet(h, Image(S))
               PROVE  FALSE
  BY <1>1
<1>3. Cardinality(S) \in Bad
  BY <1>2, Smaller
<1>4. PICK n \in Bad : \A m \in Bad : n <= m
  BY <1>3, LeastNatural
<1>5. PICK r \in SUBSET S :
        Cardinality(r) = n /\ SumFunctionOnSet(f, r) # SumFunctionOnSet(h, Image(r))
  BY <1>4
<1>6. CASE r = {}
  <2>1. Image(r) = {}
    BY <1>6
  <2>. QED  BY <1>5, <1>6, <2>1, SumEmpty
<1>7. CASE r # {}
  <2>1. PICK e \in r : TRUE
    BY <1>7
  <2>2. /\ Cardinality(r \ {e}) = n - 1 /\ n - 1 \in Nat /\ r \ {e} \in SUBSET S
        /\ IsFiniteSet(r)
    BY <1>5, <1>7, Smaller
  <2>3. SumFunctionOnSet(f, r \ {e}) = SumFunctionOnSet(h, Image(r \ {e}))
    <3>1. n - 1 \notin Bad
      <4>. HIDE DEF Bad
      <4>1. n \in Nat
        BY <1>4 DEF Bad
      <4>. QED  BY <1>4, <4>1
    <3>. QED  BY <2>2, <3>1
  <2>4. Image(r) \ {p[e]} = Image(r \ {e}) /\ p[e] \in Image(r)
    BY <2>1 DEF Renames
  <2>5. /\ IsFiniteSet(Image(r)) /\ \A t \in Image(r) : h[t] \in Nat
    <3>1. Image(r) \subseteq T
      BY DEF Renames
    <3>2. IsFiniteSet(Image(r))
      BY <3>1, FS_Subset
    <3>. QED  BY <3>2
  <2>6. SumFunctionOnSet(h, Image(r)) = h[p[e]] + SumFunctionOnSet(h, Image(r) \ {p[e]})
    <3>. HIDE DEF Image
    <3>. QED  BY <2>4, <2>5, SumRemove
  <2>7. SumFunctionOnSet(f, r) = f[e] + SumFunctionOnSet(f, r \ {e})
    BY <2>2, SumRemove
  <2>. HIDE DEF Image
  <2>. QED  BY <1>5, <2>1, <2>3, <2>4, <2>6, <2>7
<1>. QED  BY <1>6, <1>7

(* A sum of larger numbers is larger, and a sum of zeros is zero.          *)
LEMMA SumLess ==
  ASSUME NEW f, NEW h, NEW T, IsFiniteSet(T),
         \A x \in T : f[x] \in Nat /\ h[x] \in Nat /\ f[x] <= h[x]
  PROVE  /\ SumFunctionOnSet(f, T) <= SumFunctionOnSet(h, T)
         /\ (\A x \in T : h[x] = 0) => SumFunctionOnSet(h, T) = 0
<1>. DEFINE Less(r) == SumFunctionOnSet(f, r) <= SumFunctionOnSet(h, r)
            Zero(r) == (\A x \in r : h[x] = 0) => SumFunctionOnSet(h, r) = 0
            Bad == {n \in Nat : \E r \in SUBSET T : Cardinality(r) = n /\ ~(Less(r) /\ Zero(r))}
<1>1. SUFFICES ASSUME ~(Less(T) /\ Zero(T))
               PROVE  FALSE
  OBVIOUS
<1>2. Cardinality(T) \in Bad
  BY <1>1, Smaller
<1>3. PICK n \in Bad : \A m \in Bad : n <= m
  BY <1>2, LeastNatural
<1>4. PICK r \in SUBSET T : Cardinality(r) = n /\ ~(Less(r) /\ Zero(r))
  BY <1>3
<1>5. CASE r = {}
  BY <1>4, <1>5, SumEmpty
<1>6. CASE r # {}
  <2>1. PICK e \in r : TRUE
    BY <1>6
  <2>2. /\ Cardinality(r \ {e}) = n - 1 /\ n - 1 \in Nat /\ r \ {e} \in SUBSET T
        /\ IsFiniteSet(r) /\ IsFiniteSet(r \ {e})
    BY <1>4, <1>6, Smaller
  <2>3. Less(r \ {e}) /\ Zero(r \ {e})
    <3>1. n - 1 \notin Bad
      <4>. HIDE DEF Bad
      <4>1. n \in Nat
        BY <1>3 DEF Bad
      <4>. QED  BY <1>3, <4>1
    <3>. QED  BY <2>2, <3>1
  <2>4. /\ SumFunctionOnSet(f, r) = f[e] + SumFunctionOnSet(f, r \ {e})
        /\ SumFunctionOnSet(h, r) = h[e] + SumFunctionOnSet(h, r \ {e})
    BY <2>1, <2>2, SumRemove
  <2>5. /\ SumFunctionOnSet(f, r \ {e}) \in Nat /\ SumFunctionOnSet(h, r \ {e}) \in Nat
        /\ f[e] \in Nat /\ h[e] \in Nat /\ f[e] <= h[e]
    BY <2>1, <2>2, SumType
  <2>6. Less(r)
    BY <2>3, <2>4, <2>5
  <2>7. Zero(r)
    BY <2>1, <2>3, <2>4, <2>5
  <2>. QED  BY <1>4, <2>6, <2>7
<1>. QED  BY <1>5, <1>6


-----------------------------------------------------------------------------
(* Partitions.                                                             *)

(* part_of answers with a partition of the cache.                          *)
LEMMA PartOfType ==
  ASSUME NEW id \in Ids
  PROVE  PartOf(id) \in PartIds
<1>1. id \in Nat /\ IdsPerPart \in Nat \ {0} /\ Parts \in Nat \ {0}
  BY CacheAssumption DEF Ids
<1>2. id \div IdsPerPart \in Nat
  BY <1>1
<1>. QED  BY <1>1, <1>2 DEF PartOf, LayerOf, PartIds

(* The slot runs of two partitions are disjoint.                           *)
LEMMA PartitionsDisjoint ==
  ASSUME NEW p \in PartIds, NEW q \in PartIds, NEW s \in SlotsOf(p), s \in SlotsOf(q)
  PROVE  p = q
<1>1. SlotsPerPart \in Nat /\ p \in Int /\ q \in Int /\ s \in Int
  BY CacheAssumption DEF PartIds, SlotsOf, Slots
<1>2. ASSUME NEW a \in Int, NEW b \in Int, a < b
      PROVE  (a + 1) * SlotsPerPart <= b * SlotsPerPart
  BY <1>1, <1>2
<1>3. ~(p < q)
  BY <1>1, <1>2 DEF SlotsOf
<1>4. ~(q < p)
  BY <1>1, <1>2 DEF SlotsOf
<1>. QED  BY <1>1, <1>3, <1>4

(* The victim search answers with an unpinned slot if there is one.        *)
LEMMA VictimUnpinned ==
  ASSUME NEW c \in CacheType, NEW p \in PartIds, Unpinned(c, p) # {}
  PROVE  Victim(c, p) \in Unpinned(c, p)
<1>. DEFINE U     == Unpinned(c, p)
            Key   == [s \in U |-> VictimKey(c, s)]
            Keys  == {Key[s] : s \in U}
<1>1. \A s \in U : s \in Nat /\ s \in Slots
  BY DEF Unpinned, SlotsOf, Slots
<1>2. \A s \in U : Key[s] \in Nat
  BY <1>1 DEF VictimKey, Occupied, CacheType
<1>3. PICK k \in Keys : \A m \in Keys : k <= m
  BY <1>2, LeastNatural
<1>. DEFINE Best == {s \in U : Key[s] = k}
<1>4. PICK b \in Best : \A s \in Best : b <= s
  BY <1>1, <1>3, LeastNatural
<1>5. IsVictim(c, p, b)
  <2>1. ASSUME NEW t \in U
        PROVE  VictimKey(c, b) < VictimKey(c, t)
                 \/ (VictimKey(c, b) = VictimKey(c, t) /\ b <= t)
    BY <1>2, <1>3, <1>4
  <2>. QED  BY <1>4, <2>1 DEF IsVictim
<1>. QED  BY <1>4, <1>5 DEF Victim

(* Unpinned slots are slots, and slots are numbers.                        *)
LEMMA UnpinnedSlots ==
  ASSUME NEW c, NEW p, NEW s \in Unpinned(c, p)
  PROVE  s \in Slots /\ s \in SlotsOf(p) /\ c.pins[s] = 0
BY DEF Unpinned, SlotsOf

-----------------------------------------------------------------------------
(* What each update of the bookkeeping does to the parts of the record.    *)

(* A hit changes the pins of its slot and nothing a lookup depends on.     *)
LEMMA PinEffect ==
  ASSUME NEW c \in CacheType, NEW s \in Slots
  PROVE  /\ Pin(c, s) \in CacheType
         /\ Pin(c, s).pins = [c.pins EXCEPT ![s] = @ + 1]
         /\ Pin(c, s).id = c.id
         /\ Pin(c, s).ready = c.ready
         /\ Pin(c, s).map = c.map
<1>1. Pin(c, s) = [c EXCEPT !.freq = Pin(c, s).freq, !.pins = [c.pins EXCEPT ![s] = @ + 1]]
  BY DEF Pin, CacheType
<1>2. Pin(c, s).freq \in [Slots -> 0 .. MaxFreq]
  BY CacheAssumption DEF Pin, CacheType
<1>3. [c.pins EXCEPT ![s] = @ + 1] \in [Slots -> Nat]
  BY DEF CacheType
<1>. QED  BY <1>1, <1>2, <1>3 DEF CacheType

(* A miss gives the slot to the new expert, pinned once and unpublished.   *)
LEMMA InsertEffect ==
  ASSUME NEW c \in CacheType, NEW id \in Ids, NEW s \in Slots
  PROVE  /\ Insert(c, id, s) \in CacheType
         /\ Insert(c, id, s).pins = [c.pins EXCEPT ![s] = 1]
         /\ Insert(c, id, s).id = [c.id EXCEPT ![s] = id]
         /\ Insert(c, id, s).ready = [c.ready EXCEPT ![s] = FALSE]
         /\ Insert(c, id, s).map =
              [c.map EXCEPT ![PartOf(id)] =
                 [i \in Ids |-> IF i = id THEN s
                                ELSE IF i = c.id[s] THEN NoSlot ELSE @[i]]]
<1>. DEFINE new == Insert(c, id, s)
<1>1. PartOf(id) \in PartIds
  BY PartOfType
<1>2. /\ new.pins = [c.pins EXCEPT ![s] = 1]
      /\ new.id = [c.id EXCEPT ![s] = id]
      /\ new.ready = [c.ready EXCEPT ![s] = FALSE]
      /\ new.map = [c.map EXCEPT ![PartOf(id)] =
                      [i \in Ids |-> IF i = id THEN s
                                     ELSE IF i = c.id[s] THEN NoSlot ELSE @[i]]]
  BY DEF Insert
<1>3. new.freq \in [Slots -> 0 .. MaxFreq]
  <2>. DEFINE used == [c.freq EXCEPT ![s] = 1]
  <2>1. used \in [Slots -> 0 .. MaxFreq]
    BY CacheAssumption DEF CacheType
  <2>2. \A t \in Slots : used[t] \div 2 \in 0 .. MaxFreq
    BY <2>1, CacheAssumption
  <2>. QED  BY <2>1, <2>2 DEF Insert
<1>4. new.inserts \in [PartIds -> 0 .. DecayInterval - 1]
  BY <1>1, CacheAssumption DEF Insert, CacheType
<1>5. new.map \in [PartIds -> [Ids -> Slots \union {NoSlot}]]
  BY <1>1, <1>2 DEF CacheType
<1>6. /\ new.pins \in [Slots -> Nat]
      /\ new.id \in [Slots -> Ids \union {NoId}]
      /\ new.ready \in [Slots -> BOOLEAN]
  BY <1>2 DEF CacheType
<1>7. new = [id |-> new.id, freq |-> new.freq, pins |-> new.pins, ready |-> new.ready,
             map |-> new.map, inserts |-> new.inserts]
  BY DEF Insert
<1>8. new \in CacheType
  BY <1>3, <1>4, <1>5, <1>6, <1>7 DEF CacheType
<1>. QED  BY <1>2, <1>8

(* publish sets the ready flag of its slot.                                *)
LEMMA PublishEffect ==
  ASSUME NEW c \in CacheType, NEW s \in Slots
  PROVE  /\ Publish(c, s) \in CacheType
         /\ Publish(c, s).pins = c.pins
         /\ Publish(c, s).id = c.id
         /\ Publish(c, s).ready = [c.ready EXCEPT ![s] = TRUE]
         /\ Publish(c, s).map = c.map
BY DEF Publish, CacheType

(* release takes one pin off; it asserts that there is one.                *)
LEMMA ReleaseEffect ==
  ASSUME NEW c \in CacheType, NEW s \in Slots, c.pins[s] > 0
  PROVE  /\ Release(c, s) \in CacheType
         /\ Release(c, s).pins = [c.pins EXCEPT ![s] = @ - 1]
         /\ Release(c, s).id = c.id
         /\ Release(c, s).ready = c.ready
         /\ Release(c, s).map = c.map
<1>1. [c.pins EXCEPT ![s] = @ - 1] \in [Slots -> Nat]
  BY DEF CacheType
<1>. QED  BY <1>1 DEF Release, CacheType

(* decay_all touches the counters only.                                    *)
LEMMA DecayAllEffect ==
  ASSUME NEW c \in CacheType
  PROVE  /\ DecayAll(c) \in CacheType
         /\ DecayAll(c).pins = c.pins
         /\ DecayAll(c).id = c.id
         /\ DecayAll(c).ready = c.ready
         /\ DecayAll(c).map = c.map
<1>1. \A s \in Slots : c.freq[s] \div 2 \in 0 .. MaxFreq
  BY CacheAssumption DEF CacheType
<1>2. [s \in Slots |-> c.freq[s] \div 2] \in [Slots -> 0 .. MaxFreq]
  BY <1>1
<1>3. [p \in PartIds |-> 0] \in [PartIds -> 0 .. DecayInterval - 1]
  BY CacheAssumption
<1>. QED  BY <1>2, <1>3 DEF DecayAll, CacheType

-----------------------------------------------------------------------------
(* The maps never point astray: an id that is mapped is in the slot it is  *)
(* mapped to, and the slot is one of the partition's own.                  *)
MapsPoint(c) ==
  \A p \in PartIds, i \in Ids :
    c.map[p][i] # NoSlot => c.map[p][i] \in SlotsOf(p) /\ c.id[c.map[p][i]] = i

(* A new cache is well-formed and maps nothing.                            *)
LEMMA EmptyEffect == EmptyCache \in CacheType /\ MapsPoint(EmptyCache)
<1>1. EmptyCache \in CacheType
  BY CacheAssumption DEF EmptyCache, CacheType
<1>2. MapsPoint(EmptyCache)
  BY DEF EmptyCache, MapsPoint
<1>. QED  BY <1>1, <1>2

(* An expert the lookup finds is in the slot the lookup answers with.      *)
LEMMA FoundSlot ==
  ASSUME NEW c \in CacheType, MapsPoint(c), NEW id \in Ids, Resident(c, id)
  PROVE  SlotFor(c, id) \in Slots /\ c.id[SlotFor(c, id)] = id
<1>1. PartOf(id) \in PartIds
  BY PartOfType
<1>2. SlotFor(c, id) \in SlotsOf(PartOf(id)) /\ c.id[SlotFor(c, id)] = id
  BY <1>1 DEF MapsPoint, Resident, SlotFor
<1>. QED  BY <1>2 DEF SlotsOf

(* An insertion unmaps the victim's expert in the partition that owns the  *)
(* slot; no other partition maps anything to it.                           *)
LEMMA InsertMaps ==
  ASSUME NEW c \in CacheType, MapsPoint(c), NEW id \in Ids, NEW s \in SlotsOf(PartOf(id))
  PROVE  MapsPoint(Insert(c, id, s))
<1>1. PICK p \in PartIds : p = PartOf(id) /\ s \in Slots /\ s \in SlotsOf(p)
  BY PartOfType DEF SlotsOf
<1>2. PICK n : n = Insert(c, id, s)
  OBVIOUS
<1>3. \A t \in Slots : n.id[t] = IF t = s THEN id ELSE c.id[t]
  BY <1>1, <1>2 DEF Insert, CacheType
<1>4. \A q \in PartIds, i \in Ids :
        n.map[q][i] = IF q # p THEN c.map[q][i]
                      ELSE IF i = id THEN s
                      ELSE IF i = c.id[s] THEN NoSlot ELSE c.map[p][i]
  BY <1>1, <1>2 DEF Insert, CacheType
<1>5. SUFFICES ASSUME NEW q \in PartIds, NEW i \in Ids, n.map[q][i] # NoSlot
               PROVE  n.map[q][i] \in SlotsOf(q) /\ n.id[n.map[q][i]] = i
  BY <1>2 DEF MapsPoint
<1>6. CASE q = p /\ i = id
  BY <1>1, <1>3, <1>4, <1>6
<1>7. CASE q = p /\ i # id
  <2>1. i # c.id[s] /\ n.map[q][i] = c.map[q][i]
    BY <1>4, <1>5, <1>7
  <2>2. c.map[q][i] \in SlotsOf(q) /\ c.id[c.map[q][i]] = i
    BY <1>5, <2>1 DEF MapsPoint
  <2>3. c.map[q][i] \in Slots /\ c.map[q][i] # s
    BY <2>1, <2>2 DEF SlotsOf
  <2>. QED  BY <1>3, <2>1, <2>2, <2>3
<1>8. CASE q # p
  <2>1. n.map[q][i] = c.map[q][i]
    BY <1>4, <1>8
  <2>2. c.map[q][i] \in SlotsOf(q) /\ c.id[c.map[q][i]] = i
    BY <1>5, <2>1 DEF MapsPoint
  <2>3. c.map[q][i] \in Slots /\ c.map[q][i] # s
    BY <1>1, <1>8, <2>2, PartitionsDisjoint DEF SlotsOf
  <2>. QED  BY <1>3, <2>1, <2>2, <2>3
<1>. QED  BY <1>6, <1>7, <1>8

(* acquire's hit: the expert is in the slot, which has one more pin.       *)
LEMMA HitEffect ==
  ASSUME NEW c \in CacheType, MapsPoint(c), NEW id \in Ids, Hits(c, id)
  PROVE  \E s \in Slots :
           /\ s = AcquireSlot(c, id) /\ c.id[s] = id
           /\ Acquire(c, id) = Pin(c, s)
           /\ Acquire(c, id) \in CacheType /\ MapsPoint(Acquire(c, id))
           /\ Acquire(c, id).id = c.id /\ Acquire(c, id).ready = c.ready
           /\ \A t \in Slots :
                Acquire(c, id).pins[t] = IF t = s THEN c.pins[t] + 1 ELSE c.pins[t]
<1>1. PICK s \in Slots : s = SlotFor(c, id) /\ c.id[s] = id
  BY FoundSlot DEF Hits
<1>2. AcquireSlot(c, id) = s /\ Acquire(c, id) = Pin(c, s)
  BY <1>1 DEF Hits, AcquireSlot, Acquire
<1>3. PICK n : n = Pin(c, s)
  OBVIOUS
<1>4. n \in CacheType /\ n.id = c.id /\ n.ready = c.ready /\ n.map = c.map
  BY <1>3, PinEffect
<1>5. \A t \in Slots : n.pins[t] = IF t = s THEN c.pins[t] + 1 ELSE c.pins[t]
  BY <1>3 DEF Pin, CacheType
<1>6. MapsPoint(n)
  BY <1>4 DEF MapsPoint
<1>. QED  BY <1>1, <1>2, <1>3, <1>4, <1>5, <1>6

(* acquire's miss: an unpinned slot goes to the expert, pinned once and    *)
(* unpublished.                                                            *)
LEMMA MissClaims ==
  ASSUME NEW c \in CacheType, MapsPoint(c), NEW id \in Ids, Misses(c, id)
  PROVE  \E s \in Slots :
           /\ s = AcquireSlot(c, id) /\ c.pins[s] = 0
           /\ Acquire(c, id) \in CacheType /\ MapsPoint(Acquire(c, id))
           /\ \A t \in Slots :
                /\ Acquire(c, id).pins[t] = IF t = s THEN 1 ELSE c.pins[t]
                /\ Acquire(c, id).id[t] = IF t = s THEN id ELSE c.id[t]
                /\ Acquire(c, id).ready[t] <=> t # s /\ c.ready[t]
<1>1. Victim(c, PartOf(id)) \in Unpinned(c, PartOf(id))
  BY PartOfType, VictimUnpinned DEF Misses
<1>2. PICK s \in Slots : s = Victim(c, PartOf(id)) /\ s \in SlotsOf(PartOf(id)) /\ c.pins[s] = 0
  BY <1>1, UnpinnedSlots
<1>3. AcquireSlot(c, id) = s /\ Acquire(c, id) = Insert(c, id, s)
  BY <1>2 DEF Misses, AcquireSlot, Acquire
<1>4. PICK n : n = Insert(c, id, s)
  OBVIOUS
<1>5. n \in CacheType /\ MapsPoint(n)
  BY <1>2, <1>4, InsertEffect, InsertMaps
<1>6. \A t \in Slots :
        /\ n.pins[t] = IF t = s THEN 1 ELSE c.pins[t]
        /\ n.id[t] = IF t = s THEN id ELSE c.id[t]
        /\ n.ready[t] <=> t # s /\ c.ready[t]
  BY <1>4 DEF Insert, CacheType
<1>. QED  BY <1>2, <1>3, <1>4, <1>5, <1>6

(* publish: the flag of one slot.                                          *)
LEMMA Published ==
  ASSUME NEW c \in CacheType, MapsPoint(c), NEW s \in Slots
  PROVE  /\ Publish(c, s) \in CacheType /\ MapsPoint(Publish(c, s))
         /\ Publish(c, s).id = c.id /\ Publish(c, s).pins = c.pins
         /\ \A t \in Slots : Publish(c, s).ready[t] <=> t = s \/ c.ready[t]
<1>1. PICK n : n = Publish(c, s)
  OBVIOUS
<1>2. n \in CacheType /\ n.id = c.id /\ n.pins = c.pins /\ n.map = c.map
  BY <1>1, PublishEffect
<1>3. \A t \in Slots : n.ready[t] <=> t = s \/ c.ready[t]
  BY <1>1 DEF Publish, CacheType
<1>4. MapsPoint(n)
  BY <1>2 DEF MapsPoint
<1>. QED  BY <1>1, <1>2, <1>3, <1>4

(* release: one pin of one slot.                                           *)
LEMMA Released ==
  ASSUME NEW c \in CacheType, MapsPoint(c), NEW s \in Slots, c.pins[s] > 0
  PROVE  /\ Release(c, s) \in CacheType /\ MapsPoint(Release(c, s))
         /\ Release(c, s).id = c.id /\ Release(c, s).ready = c.ready
         /\ \A t \in Slots : Release(c, s).pins[t] = IF t = s THEN c.pins[t] - 1 ELSE c.pins[t]
<1>1. PICK n : n = Release(c, s)
  OBVIOUS
<1>2. n \in CacheType /\ n.id = c.id /\ n.ready = c.ready /\ n.map = c.map
  BY <1>1, ReleaseEffect
<1>3. \A t \in Slots : n.pins[t] = IF t = s THEN c.pins[t] - 1 ELSE c.pins[t]
  BY <1>1 DEF Release, CacheType
<1>4. MapsPoint(n)
  BY <1>2 DEF MapsPoint
<1>. QED  BY <1>1, <1>2, <1>3, <1>4

(* A shared pool's tick touches the counters only.                         *)
LEMMA Decayed ==
  ASSUME NEW c \in CacheType, MapsPoint(c)
  PROVE  /\ DecayAll(c) \in CacheType /\ MapsPoint(DecayAll(c))
         /\ DecayAll(c).id = c.id /\ DecayAll(c).ready = c.ready /\ DecayAll(c).pins = c.pins
<1>1. PICK n : n = DecayAll(c)
  OBVIOUS
<1>2. n \in CacheType /\ n.id = c.id /\ n.ready = c.ready /\ n.map = c.map /\ n.pins = c.pins
  BY <1>1, DecayAllEffect
<1>3. MapsPoint(n)
  BY <1>2 DEF MapsPoint
<1>. QED  BY <1>1, <1>2, <1>3

(* A hit whose pin goes back at once: the counters alone have changed.     *)
LEMMA HitAndBack ==
  ASSUME NEW c \in CacheType, MapsPoint(c), NEW id \in Ids, Hits(c, id)
  PROVE  LET n == Release(Acquire(c, id), AcquireSlot(c, id))
         IN  /\ n \in CacheType /\ MapsPoint(n)
             /\ n.id = c.id /\ n.ready = c.ready
             /\ \A t \in Slots : n.pins[t] = c.pins[t]
<1>1. PICK s \in Slots :
        /\ s = AcquireSlot(c, id)
        /\ Acquire(c, id) \in CacheType /\ MapsPoint(Acquire(c, id))
        /\ Acquire(c, id).id = c.id /\ Acquire(c, id).ready = c.ready
        /\ \A t \in Slots : Acquire(c, id).pins[t] = IF t = s THEN c.pins[t] + 1 ELSE c.pins[t]
  BY HitEffect
<1>2. PICK a : a = Acquire(c, id)
  OBVIOUS
<1>3. \A t \in Slots : c.pins[t] \in Nat
  BY DEF CacheType
<1>4. a \in CacheType /\ MapsPoint(a) /\ a.pins[s] > 0
  BY <1>1, <1>2, <1>3
<1>5. PICK n : n = Release(a, s)
  OBVIOUS
<1>6. /\ n \in CacheType /\ MapsPoint(n)
      /\ n.id = a.id /\ n.ready = a.ready
      /\ \A t \in Slots : n.pins[t] = IF t = s THEN a.pins[t] - 1 ELSE a.pins[t]
  BY <1>4, <1>5, Released
<1>7. \A t \in Slots : n.pins[t] = c.pins[t]
  BY <1>1, <1>2, <1>3, <1>6
<1>. QED  BY <1>1, <1>2, <1>5, <1>6, <1>7
=============================================================================
