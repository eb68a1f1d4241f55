----------------------------- MODULE ServeProofs -----------------------------
(***************************************************************************)
(* Proofs about Serve, for every set of models and requests, any number of *)
(* requests and any tokenizer: the lock keeps a generation on the model    *)
(* and the template of its request, and a client reads its stream whole.   *)
(***************************************************************************)
EXTENDS Serve, SequenceTheorems, TLAPS

-----------------------------------------------------------------------------
(* Sequences whose elements have no common type, such as events.           *)

IsSeq(s) == s \in Seq(Range(s))

(* Appending and concatenating make sequences of the expected lengths.     *)
LEMMA SeqsGrow ==
  ASSUME NEW s, IsSeq(s)
  PROVE  /\ Len(s) \in Nat
         /\ \A e : IsSeq(Append(s, e)) /\ Len(Append(s, e)) = Len(s) + 1
         /\ \A t : IsSeq(t) => IsSeq(s \o t) /\ Len(s \o t) = Len(s) + Len(t)
<1>1. Len(s) \in Nat
  BY DEF IsSeq
<1>2. ASSUME NEW e
      PROVE  IsSeq(Append(s, e)) /\ Len(Append(s, e)) = Len(s) + 1
  <2>. DEFINE S == Range(s) \cup {e}
  <2>1. s \in Seq(S) /\ e \in S
    BY SeqMonotonic DEF IsSeq
  <2>. HIDE DEF S
  <2>. QED  BY <2>1, AppendProperties, SeqOfRange DEF IsSeq
<1>3. ASSUME NEW t, IsSeq(t)
      PROVE  IsSeq(s \o t) /\ Len(s \o t) = Len(s) + Len(t)
  <2>. DEFINE S == Range(s) \cup Range(t)
  <2>1. s \in Seq(S) /\ t \in Seq(S)
    BY <1>3, SeqMonotonic DEF IsSeq
  <2>. HIDE DEF S
  <2>. QED  BY <2>1, ConcatProperties, SeqOfRange DEF IsSeq
<1>. QED  BY <1>1, <1>2, <1>3

(* Events are sent one or two at a time.                                   *)
LEMMA ShortSeqs ==
  ASSUME NEW a, NEW b
  PROVE  /\ IsSeq(<<>>) /\ Len(<<>>) = 0
         /\ IsSeq(<<a>>) /\ Len(<<a>>) = 1
         /\ IsSeq(<<a, b>>) /\ Len(<<a, b>>) = 2
<1>1. <<>> \in Seq({a, b}) /\ <<a>> \in Seq({a, b}) /\ <<a, b>> \in Seq({a, b})
  OBVIOUS
<1>. QED  BY <1>1, SeqOfRange DEF IsSeq

-----------------------------------------------------------------------------
(* Folds over sequences.                                                   *)

Shared == INSTANCE SharedProofs
            WITH Parts <- 1, SlotsPerPart <- 1, IdsPerPart <- 1,
                 NumIds <- 1, DecayInterval <- 1, MaxFreq <- 1

(* The last position is the one that a fold to the left takes off.         *)
LEMMA TopOf ==
  ASSUME NEW n \in Nat
  PROVE  /\ \A r \in SUBSET (1 .. n) : r # {} => Max(r) \in r
         /\ \A k \in 1 .. n : Max(1 .. k) = k /\ (1 .. k) \ {k} = 1 .. (k - 1)
<1>1. ASSUME NEW r \in SUBSET (1 .. n), r # {}
      PROVE  Max(r) \in r
  <2>. DEFINE U == {n - x : x \in r}
  <2>1. U \subseteq Nat /\ U # {} /\ 1 \in Nat \ {0}
    <3>1. \A x \in r : n - x \in Nat
      OBVIOUS
    <3>2. U \subseteq Nat
      BY <3>1
    <3>3. U # {}
      BY <1>1
    <3>. QED  BY <3>2, <3>3
  <2>. HIDE DEF U
  <2>2. \E m \in U : \A y \in U : m <= y
    BY <2>1, Shared!LeastNatural
  <2>3. \E x \in r : \A y \in r : x >= y
    <3>1. PICK x \in r : \A y \in U : n - x <= y
      BY <2>2 DEF U
    <3>2. \A y \in r : n - y \in U
      BY DEF U
    <3>3. \A y \in r : x >= y
      BY <3>1, <3>2
    <3>. QED  BY <3>3
  <2>. QED  BY <2>3 DEF Max
<1>2. ASSUME NEW k \in 1 .. n
      PROVE  Max(1 .. k) = k /\ (1 .. k) \ {k} = 1 .. (k - 1)
  <2>1. k \in 1 .. k /\ \A y \in 1 .. k : k >= y
    OBVIOUS
  <2>2. \A x \in 1 .. k : (\A y \in 1 .. k : x >= y) => x = k
    OBVIOUS
  <2>3. Max(1 .. k) = k
    BY <2>1, <2>2 DEF Max
  <2>. QED  BY <2>3
<1>. QED  BY <1>1, <1>2

(* Induction up to a number, and the table of a recursion (SharedProofs).  *)
LEMMA UpTo ==
  ASSUME NEW n \in Nat, NEW T, 0 \in T, \A k \in 0 .. n : k \in T /\ k < n => k + 1 \in T
  PROVE  \A k \in 0 .. n : k \in T
<1>1. 1 \in Nat \ {0}
  OBVIOUS
<1>. QED  BY <1>1, Shared!UpTo

Solves(g, n, D, base, f) ==
  /\ g \in [SUBSET (1 .. n) -> D]
  /\ \A r \in SUBSET (1 .. n) :
       g[r] = IF r = {} THEN base ELSE f[<<Max(r), g[r \ {Max(r)}]>>]

LEMMA FoldTable ==
  ASSUME NEW n \in Nat, NEW D, NEW base \in D, NEW f \in [(1 .. n) \X D -> D]
  PROVE  \E g : Solves(g, n, D, base, f)
<1>. DEFINE top == [r \in SUBSET (1 .. n) |-> Max(r)]
<1>1. 1 \in Nat \ {0}
  OBVIOUS
<1>2. \A r \in SUBSET (1 .. n) : top[r] = Max(r)
  OBVIOUS
<1>4. \A r \in SUBSET (1 .. n) : r # {} => top[r] \in r
  <2>. HIDE DEF top
  <2>. QED  BY <1>2, TopOf
<1>. HIDE DEF top
<1>3. PICK g : Shared!Solves(g, n, D, base, f, top)
  BY <1>1, <1>4, Shared!FoldTable
<1>5. Solves(g, n, D, base, f)
  BY <1>2, <1>3 DEF Solves, Shared!Solves
<1>. QED  BY <1>5

-----------------------------------------------------------------------------
(* Text.                                                                   *)

Units8 == (DOMAIN Width) \X (Nat \ {0})
Text == Seq((DOMAIN Width) \cup {Bad})
Partial == [text : Text, part : Units8 \cup {<<>>}]

\* The text before a byte b: what was begun is given up unless b goes on with it.
Before(d, b) ==
  IF d.part # <<>> /\ ~(b[1] = d.part[1] /\ b[2] = d.part[2] + 1)
  THEN Append(d.text, Bad) ELSE d.text

(* A byte ends a character, begins or continues one, or is lost.           *)
LEMMA DecodeByteCases ==
  ASSUME NEW d, NEW b
  PROVE  \/ DecodeByte(d, b) = [text |-> Append(Before(d, b), b[1]), part |-> <<>>]
         \/ DecodeByte(d, b) = [text |-> Before(d, b), part |-> b]
         \/ DecodeByte(d, b) = [text |-> Append(Before(d, b), Bad), part |-> <<>>]
<1>. DEFINE goes == IF d.part # <<>> THEN b[1] = d.part[1] /\ b[2] = d.part[2] + 1 ELSE b[2] = 1
            text == IF d.part # <<>> /\ ~goes THEN Append(d.text, Bad) ELSE d.text
            whole == (goes \/ b[2] = 1) /\ b[2] = Width[b[1]]
            begun == (goes \/ b[2] = 1) /\ b[2] < Width[b[1]]
<1>1. text = Before(d, b)
  BY DEF Before
<1>2. DecodeByte(d, b) =
        CASE whole -> [text |-> Append(text, b[1]), part |-> <<>>]
          [] begun -> [text |-> text, part |-> b]
          [] OTHER -> [text |-> Append(text, Bad), part |-> <<>>]
  BY DEF DecodeByte
<1>. HIDE DEF text, whole, begun
<1>. QED  BY <1>1, <1>2

(* A byte more leaves a text with at most one character begun.             *)
LEMMA DecodeByteType ==
  ASSUME NEW d \in Partial, NEW b \in Units8
  PROVE  DecodeByte(d, b) \in Partial
<1>. DEFINE t == Before(d, b)
<1>1. t \in Text /\ b[1] \in DOMAIN Width
  BY DEF Partial, Text, Units8, Before
<1>2. Append(t, b[1]) \in Text /\ Append(t, Bad) \in Text
  BY <1>1 DEF Text
<1>3. \/ DecodeByte(d, b) = [text |-> Append(t, b[1]), part |-> <<>>]
      \/ DecodeByte(d, b) = [text |-> t, part |-> b]
      \/ DecodeByte(d, b) = [text |-> Append(t, Bad), part |-> <<>>]
  BY DecodeByteCases
<1>4. <<>> \in Units8 \cup {<<>>} /\ b \in Units8 \cup {<<>>}
  OBVIOUS
<1>. HIDE DEF t
<1>5. ASSUME NEW x \in Text, NEW y \in Units8 \cup {<<>>}
      PROVE  [text |-> x, part |-> y] \in Partial
  BY DEF Partial
<1>. QED  BY <1>1, <1>2, <1>3, <1>4, <1>5

BytesTable(h, s, base) ==
  /\ h[0] = base
  /\ \A k \in 1 .. Len(s) : h[k] = DecodeByte(h[k - 1], s[k])
  /\ FoldLeft(DecodeByte, base, s) = h[Len(s)]

(* Bytes are decoded one after the other: the fold has a table of its      *)
(* intermediate values.                                                    *)
LEMMA BytesTabled ==
  ASSUME NEW E, NEW s \in Seq(E), NEW D, NEW base \in D,
         \A d \in D, e \in E : DecodeByte(d, e) \in D
  PROVE  \E h : BytesTable(h, s, base)
<1>. DEFINE T == 1 .. Len(s)
            IsIter(g) == g = [r \in SUBSET T |->
                               IF r = {} THEN base ELSE DecodeByte(g[r \ {Max(r)}], s[Max(r)])]
            iter == CHOOSE g : IsIter(g)
            h == [k \in 0 .. Len(s) |-> iter[1 .. k]]
<1>1. \E g : IsIter(g)
  <2>. DEFINE f == [p \in T \X D |-> DecodeByte(p[2], s[p[1]])]
  <2>1. f \in [T \X D -> D]
    OBVIOUS
  <2>. HIDE DEF f
  <2>2. PICK g : Solves(g, Len(s), D, base, f)
    <3>1. Len(s) \in Nat
      OBVIOUS
    <3>. QED  BY <2>1, <3>1, FoldTable
  <2>3. ASSUME NEW r \in SUBSET T, r # {}
        PROVE  f[<<Max(r), g[r \ {Max(r)}]>>] = DecodeByte(g[r \ {Max(r)}], s[Max(r)])
    <3>1. Max(r) \in r /\ r \ {Max(r)} \in SUBSET T
      <4>1. Len(s) \in Nat
        OBVIOUS
      <4>. QED  BY <2>3, <4>1, TopOf
    <3>2. Max(r) \in T /\ g[r \ {Max(r)}] \in D
      BY <2>2, <3>1 DEF Solves
    <3>. QED  BY <3>2 DEF f
  <2>4. g = [r \in SUBSET T |->
               IF r = {} THEN base ELSE DecodeByte(g[r \ {Max(r)}], s[Max(r)])]
    BY <2>2, <2>3 DEF Solves
  <2>. QED  BY <2>4
<1>2. IsIter(iter)
  <2>. HIDE DEF IsIter
  <2>. QED  BY <1>1
<1>3. FoldLeft(DecodeByte, base, s) = iter[T]
  <2>1. DOMAIN s = T
    OBVIOUS
  <2>. QED  BY <2>1 DEF FoldLeft, MapThenFoldSet
<1>. HIDE DEF iter
<1>4. h[0] = base /\ h[Len(s)] = iter[T]
  BY <1>2
<1>5. ASSUME NEW k \in 1 .. Len(s)
      PROVE  h[k] = DecodeByte(h[k - 1], s[k])
  <2>1. Max(1 .. k) = k /\ (1 .. k) \ {k} = 1 .. (k - 1) /\ 1 .. k \in SUBSET T /\ 1 .. k # {}
    BY TopOf
  <2>2. iter[1 .. k] = DecodeByte(iter[(1 .. k) \ {Max(1 .. k)}], s[Max(1 .. k)])
    BY <1>2, <2>1
  <2>3. h[k] = iter[1 .. k] /\ h[k - 1] = iter[1 .. (k - 1)]
    OBVIOUS
  <2>4. iter[1 .. k] = DecodeByte(iter[1 .. (k - 1)], s[k])
    BY <2>1, <2>2
  <2>. HIDE DEF h
  <2>. QED  BY <2>3, <2>4
<1>6. BytesTable(h, s, base)
  <2>. HIDE DEF h, T
  <2>. QED  BY <1>3, <1>4, <1>5 DEF BytesTable
<1>. QED  BY <1>6

BytesFolds(E, s, D, base) ==
  /\ FoldLeft(DecodeByte, base, <<>>) = base
  /\ FoldLeft(DecodeByte, base, s) \in D
  /\ \A e \in E : FoldLeft(DecodeByte, base, Append(s, e)) = DecodeByte(FoldLeft(DecodeByte, base, s), e)

(* So it begins with base, stays in any set that a step stays in, and a    *)
(* byte more is a step more.                                               *)
LEMMA BytesFold ==
  ASSUME NEW E, NEW s \in Seq(E), NEW D, NEW base \in D,
         \A d \in D, e \in E : DecodeByte(d, e) \in D
  PROVE  BytesFolds(E, s, D, base)
<1>1. FoldLeft(DecodeByte, base, <<>>) = base
  <2>1. <<>> \in Seq(E) /\ Len(<<>>) = 0
    OBVIOUS
  <2>2. PICK h : BytesTable(h, <<>>, base)
    BY <2>1, BytesTabled
  <2>. QED  BY <2>1, <2>2 DEF BytesTable
<1>0. PICK h : BytesTable(h, s, base)
  BY BytesTabled
<1>2. /\ h[0] = base
      /\ \A k \in 1 .. Len(s) : h[k] = DecodeByte(h[k - 1], s[k])
      /\ FoldLeft(DecodeByte, base, s) = h[Len(s)]
  BY <1>0 DEF BytesTable
<1>3. \A k \in 0 .. Len(s) : h[k] \in D
  <2>. DEFINE U == {k \in 0 .. Len(s) : h[k] \in D}
  <2>1. 0 \in U
    BY <1>2
  <2>2. ASSUME NEW k \in 0 .. Len(s), k \in U, k < Len(s)
        PROVE  k + 1 \in U
    <3>1. k + 1 \in 1 .. Len(s) /\ (k + 1) - 1 = k /\ s[k + 1] \in E /\ h[k] \in D
      BY <2>2
    <3>2. h[k + 1] = DecodeByte(h[k], s[k + 1])
      BY <1>2, <3>1
    <3>. QED  BY <3>1, <3>2
  <2>3. Len(s) \in Nat
    OBVIOUS
  <2>. HIDE DEF U
  <2>4. \A k \in 0 .. Len(s) : k \in U
    BY <2>1, <2>2, <2>3, UpTo
  <2>. QED  BY <2>4 DEF U
<1>4. FoldLeft(DecodeByte, base, s) \in D
  BY <1>2, <1>3
<1>5. ASSUME NEW e \in E
      PROVE  FoldLeft(DecodeByte, base, Append(s, e)) = DecodeByte(FoldLeft(DecodeByte, base, s), e)
  <2>. DEFINE t == Append(s, e)
              n == Len(s)
  <2>1. /\ t \in Seq(E) /\ Len(t) = n + 1 /\ n \in Nat
        /\ t[n + 1] = e /\ \A k \in 1 .. n : t[k] = s[k]
    BY AppendProperties
  <2>. HIDE DEF t
  <2>0. PICK g : BytesTable(g, t, base)
    BY <2>1, BytesTabled
  <2>2. /\ g[0] = base
        /\ \A k \in 1 .. Len(t) : g[k] = DecodeByte(g[k - 1], t[k])
        /\ FoldLeft(DecodeByte, base, t) = g[Len(t)]
    BY <2>0 DEF BytesTable
  <2>. DEFINE U == {k \in 0 .. n : g[k] = h[k]}
  <2>3. 0 \in U
    BY <1>2, <2>1, <2>2
  <2>4. ASSUME NEW k \in 0 .. n, k \in U, k < n
        PROVE  k + 1 \in U
    <3>1. /\ k + 1 \in 1 .. n /\ k + 1 \in 1 .. Len(t) /\ (k + 1) - 1 = k
          /\ t[k + 1] = s[k + 1] /\ g[k] = h[k]
      BY <2>1, <2>4
    <3>2. g[k + 1] = DecodeByte(g[k], t[k + 1]) /\ h[k + 1] = DecodeByte(h[k], s[k + 1])
      BY <1>2, <2>2, <3>1
    <3>. QED  BY <3>1, <3>2
  <2>. HIDE DEF U
  <2>9. \A k \in 0 .. n : k \in U
    <3>. HIDE DEF n
    <3>. QED  BY <2>1, <2>3, <2>4, UpTo
  <2>5. n \in U
    BY <2>1, <2>9
  <2>6. n + 1 \in 1 .. Len(t) /\ (n + 1) - 1 = n
    BY <2>1
  <2>7. g[n + 1] = DecodeByte(g[n], e)
    BY <2>1, <2>2, <2>6
  <2>8. g[n] = h[n]
    BY <2>5 DEF U
  <2>. QED  BY <1>2, <2>1, <2>2, <2>7, <2>8 DEF t
<1>. QED  BY <1>1, <1>4, <1>5 DEF BytesFolds

TokensTable(h, s, base) ==
  /\ h[0] = base
  /\ \A k \in 1 .. Len(s) : h[k] = DecodeToken(h[k - 1], s[k])
  /\ FoldLeft(DecodeToken, base, s) = h[Len(s)]

(* Tokens are decoded one after the other, in the same way.                *)
LEMMA TokensTabled ==
  ASSUME NEW E, NEW s \in Seq(E), NEW D, NEW base \in D,
         \A d \in D, e \in E : DecodeToken(d, e) \in D
  PROVE  \E h : TokensTable(h, s, base)
<1>. DEFINE T == 1 .. Len(s)
            IsIter(g) == g = [r \in SUBSET T |->
                               IF r = {} THEN base ELSE DecodeToken(g[r \ {Max(r)}], s[Max(r)])]
            iter == CHOOSE g : IsIter(g)
            h == [k \in 0 .. Len(s) |-> iter[1 .. k]]
<1>1. \E g : IsIter(g)
  <2>. DEFINE f == [p \in T \X D |-> DecodeToken(p[2], s[p[1]])]
  <2>1. f \in [T \X D -> D]
    OBVIOUS
  <2>. HIDE DEF f
  <2>2. PICK g : Solves(g, Len(s), D, base, f)
    <3>1. Len(s) \in Nat
      OBVIOUS
    <3>. QED  BY <2>1, <3>1, FoldTable
  <2>3. ASSUME NEW r \in SUBSET T, r # {}
        PROVE  f[<<Max(r), g[r \ {Max(r)}]>>] = DecodeToken(g[r \ {Max(r)}], s[Max(r)])
    <3>1. Max(r) \in r /\ r \ {Max(r)} \in SUBSET T
      <4>1. Len(s) \in Nat
        OBVIOUS
      <4>. QED  BY <2>3, <4>1, TopOf
    <3>2. Max(r) \in T /\ g[r \ {Max(r)}] \in D
      BY <2>2, <3>1 DEF Solves
    <3>. QED  BY <3>2 DEF f
  <2>4. g = [r \in SUBSET T |->
               IF r = {} THEN base ELSE DecodeToken(g[r \ {Max(r)}], s[Max(r)])]
    BY <2>2, <2>3 DEF Solves
  <2>. QED  BY <2>4
<1>2. IsIter(iter)
  <2>. HIDE DEF IsIter
  <2>. QED  BY <1>1
<1>3. FoldLeft(DecodeToken, base, s) = iter[T]
  <2>1. DOMAIN s = T
    OBVIOUS
  <2>. QED  BY <2>1 DEF FoldLeft, MapThenFoldSet
<1>. HIDE DEF iter
<1>4. h[0] = base /\ h[Len(s)] = iter[T]
  BY <1>2
<1>5. ASSUME NEW k \in 1 .. Len(s)
      PROVE  h[k] = DecodeToken(h[k - 1], s[k])
  <2>1. Max(1 .. k) = k /\ (1 .. k) \ {k} = 1 .. (k - 1) /\ 1 .. k \in SUBSET T /\ 1 .. k # {}
    BY TopOf
  <2>2. iter[1 .. k] = DecodeToken(iter[(1 .. k) \ {Max(1 .. k)}], s[Max(1 .. k)])
    BY <1>2, <2>1
  <2>3. h[k] = iter[1 .. k] /\ h[k - 1] = iter[1 .. (k - 1)]
    OBVIOUS
  <2>4. iter[1 .. k] = DecodeToken(iter[1 .. (k - 1)], s[k])
    BY <2>1, <2>2
  <2>. HIDE DEF h
  <2>. QED  BY <2>3, <2>4
<1>6. TokensTable(h, s, base)
  <2>. HIDE DEF h, T
  <2>. QED  BY <1>3, <1>4, <1>5 DEF TokensTable
<1>. QED  BY <1>6

TokensFolds(E, s, D, base) ==
  /\ FoldLeft(DecodeToken, base, <<>>) = base
  /\ FoldLeft(DecodeToken, base, s) \in D
  /\ \A e \in E : FoldLeft(DecodeToken, base, Append(s, e)) = DecodeToken(FoldLeft(DecodeToken, base, s), e)

(* The same of tokens: base, the set and a step more.                      *)
LEMMA TokensFold ==
  ASSUME NEW E, NEW s \in Seq(E), NEW D, NEW base \in D,
         \A d \in D, e \in E : DecodeToken(d, e) \in D
  PROVE  TokensFolds(E, s, D, base)
<1>1. FoldLeft(DecodeToken, base, <<>>) = base
  <2>1. <<>> \in Seq(E) /\ Len(<<>>) = 0
    OBVIOUS
  <2>2. PICK h : TokensTable(h, <<>>, base)
    BY <2>1, TokensTabled
  <2>. QED  BY <2>1, <2>2 DEF TokensTable
<1>0. PICK h : TokensTable(h, s, base)
  BY TokensTabled
<1>2. /\ h[0] = base
      /\ \A k \in 1 .. Len(s) : h[k] = DecodeToken(h[k - 1], s[k])
      /\ FoldLeft(DecodeToken, base, s) = h[Len(s)]
  BY <1>0 DEF TokensTable
<1>3. \A k \in 0 .. Len(s) : h[k] \in D
  <2>. DEFINE U == {k \in 0 .. Len(s) : h[k] \in D}
  <2>1. 0 \in U
    BY <1>2
  <2>2. ASSUME NEW k \in 0 .. Len(s), k \in U, k < Len(s)
        PROVE  k + 1 \in U
    <3>1. k + 1 \in 1 .. Len(s) /\ (k + 1) - 1 = k /\ s[k + 1] \in E /\ h[k] \in D
      BY <2>2
    <3>2. h[k + 1] = DecodeToken(h[k], s[k + 1])
      BY <1>2, <3>1
    <3>. QED  BY <3>1, <3>2
  <2>3. Len(s) \in Nat
    OBVIOUS
  <2>. HIDE DEF U
  <2>4. \A k \in 0 .. Len(s) : k \in U
    BY <2>1, <2>2, <2>3, UpTo
  <2>. QED  BY <2>4 DEF U
<1>4. FoldLeft(DecodeToken, base, s) \in D
  BY <1>2, <1>3
<1>5. ASSUME NEW e \in E
      PROVE  FoldLeft(DecodeToken, base, Append(s, e)) = DecodeToken(FoldLeft(DecodeToken, base, s), e)
  <2>. DEFINE t == Append(s, e)
              n == Len(s)
  <2>1. /\ t \in Seq(E) /\ Len(t) = n + 1 /\ n \in Nat
        /\ t[n + 1] = e /\ \A k \in 1 .. n : t[k] = s[k]
    BY AppendProperties
  <2>. HIDE DEF t
  <2>0. PICK g : TokensTable(g, t, base)
    BY <2>1, TokensTabled
  <2>2. /\ g[0] = base
        /\ \A k \in 1 .. Len(t) : g[k] = DecodeToken(g[k - 1], t[k])
        /\ FoldLeft(DecodeToken, base, t) = g[Len(t)]
    BY <2>0 DEF TokensTable
  <2>. DEFINE U == {k \in 0 .. n : g[k] = h[k]}
  <2>3. 0 \in U
    BY <1>2, <2>1, <2>2
  <2>4. ASSUME NEW k \in 0 .. n, k \in U, k < n
        PROVE  k + 1 \in U
    <3>1. /\ k + 1 \in 1 .. n /\ k + 1 \in 1 .. Len(t) /\ (k + 1) - 1 = k
          /\ t[k + 1] = s[k + 1] /\ g[k] = h[k]
      BY <2>1, <2>4
    <3>2. g[k + 1] = DecodeToken(g[k], t[k + 1]) /\ h[k + 1] = DecodeToken(h[k], s[k + 1])
      BY <1>2, <2>2, <3>1
    <3>. QED  BY <3>1, <3>2
  <2>. HIDE DEF U
  <2>9. \A k \in 0 .. n : k \in U
    <3>. HIDE DEF n
    <3>. QED  BY <2>1, <2>3, <2>4, UpTo
  <2>5. n \in U
    BY <2>1, <2>9
  <2>6. n + 1 \in 1 .. Len(t) /\ (n + 1) - 1 = n
    BY <2>1
  <2>7. g[n + 1] = DecodeToken(g[n], e)
    BY <2>1, <2>2, <2>6
  <2>8. g[n] = h[n]
    BY <2>5 DEF U
  <2>. QED  BY <1>2, <2>1, <2>2, <2>7, <2>8 DEF t
<1>. QED  BY <1>1, <1>4, <1>5 DEF TokensFolds

SizesTable(h, s, base) ==
  /\ h[0] = base
  /\ \A k \in 1 .. Len(s) : h[k] = SizeAfter(h[k - 1], s[k])
  /\ FoldLeft(SizeAfter, base, s) = h[Len(s)]

(* Characters are counted one after the other, in the same way.            *)
LEMMA SizesTabled ==
  ASSUME NEW E, NEW s \in Seq(E), NEW D, NEW base \in D,
         \A d \in D, e \in E : SizeAfter(d, e) \in D
  PROVE  \E h : SizesTable(h, s, base)
<1>. DEFINE T == 1 .. Len(s)
            IsIter(g) == g = [r \in SUBSET T |->
                               IF r = {} THEN base ELSE SizeAfter(g[r \ {Max(r)}], s[Max(r)])]
            iter == CHOOSE g : IsIter(g)
            h == [k \in 0 .. Len(s) |-> iter[1 .. k]]
<1>1. \E g : IsIter(g)
  <2>. DEFINE f == [p \in T \X D |-> SizeAfter(p[2], s[p[1]])]
  <2>1. f \in [T \X D -> D]
    OBVIOUS
  <2>. HIDE DEF f
  <2>2. PICK g : Solves(g, Len(s), D, base, f)
    <3>1. Len(s) \in Nat
      OBVIOUS
    <3>. QED  BY <2>1, <3>1, FoldTable
  <2>3. ASSUME NEW r \in SUBSET T, r # {}
        PROVE  f[<<Max(r), g[r \ {Max(r)}]>>] = SizeAfter(g[r \ {Max(r)}], s[Max(r)])
    <3>1. Max(r) \in r /\ r \ {Max(r)} \in SUBSET T
      <4>1. Len(s) \in Nat
        OBVIOUS
      <4>. QED  BY <2>3, <4>1, TopOf
    <3>2. Max(r) \in T /\ g[r \ {Max(r)}] \in D
      BY <2>2, <3>1 DEF Solves
    <3>. QED  BY <3>2 DEF f
  <2>4. g = [r \in SUBSET T |->
               IF r = {} THEN base ELSE SizeAfter(g[r \ {Max(r)}], s[Max(r)])]
    BY <2>2, <2>3 DEF Solves
  <2>. QED  BY <2>4
<1>2. IsIter(iter)
  <2>. HIDE DEF IsIter
  <2>. QED  BY <1>1
<1>3. FoldLeft(SizeAfter, base, s) = iter[T]
  <2>1. DOMAIN s = T
    OBVIOUS
  <2>. QED  BY <2>1 DEF FoldLeft, MapThenFoldSet
<1>. HIDE DEF iter
<1>4. h[0] = base /\ h[Len(s)] = iter[T]
  BY <1>2
<1>5. ASSUME NEW k \in 1 .. Len(s)
      PROVE  h[k] = SizeAfter(h[k - 1], s[k])
  <2>1. Max(1 .. k) = k /\ (1 .. k) \ {k} = 1 .. (k - 1) /\ 1 .. k \in SUBSET T /\ 1 .. k # {}
    BY TopOf
  <2>2. iter[1 .. k] = SizeAfter(iter[(1 .. k) \ {Max(1 .. k)}], s[Max(1 .. k)])
    BY <1>2, <2>1
  <2>3. h[k] = iter[1 .. k] /\ h[k - 1] = iter[1 .. (k - 1)]
    OBVIOUS
  <2>4. iter[1 .. k] = SizeAfter(iter[1 .. (k - 1)], s[k])
    BY <2>1, <2>2
  <2>. HIDE DEF h
  <2>. QED  BY <2>3, <2>4
<1>6. SizesTable(h, s, base)
  <2>. HIDE DEF h, T
  <2>. QED  BY <1>3, <1>4, <1>5 DEF SizesTable
<1>. QED  BY <1>6

SizesFolds(E, s, D, base) ==
  /\ FoldLeft(SizeAfter, base, <<>>) = base
  /\ FoldLeft(SizeAfter, base, s) \in D
  /\ \A e \in E : FoldLeft(SizeAfter, base, Append(s, e)) = SizeAfter(FoldLeft(SizeAfter, base, s), e)

(* The same of characters: base, the set and a step more.                  *)
LEMMA SizesFold ==
  ASSUME NEW E, NEW s \in Seq(E), NEW D, NEW base \in D,
         \A d \in D, e \in E : SizeAfter(d, e) \in D
  PROVE  SizesFolds(E, s, D, base)
<1>1. FoldLeft(SizeAfter, base, <<>>) = base
  <2>1. <<>> \in Seq(E) /\ Len(<<>>) = 0
    OBVIOUS
  <2>2. PICK h : SizesTable(h, <<>>, base)
    BY <2>1, SizesTabled
  <2>. QED  BY <2>1, <2>2 DEF SizesTable
<1>0. PICK h : SizesTable(h, s, base)
  BY SizesTabled
<1>2. /\ h[0] = base
      /\ \A k \in 1 .. Len(s) : h[k] = SizeAfter(h[k - 1], s[k])
      /\ FoldLeft(SizeAfter, base, s) = h[Len(s)]
  BY <1>0 DEF SizesTable
<1>3. \A k \in 0 .. Len(s) : h[k] \in D
  <2>. DEFINE U == {k \in 0 .. Len(s) : h[k] \in D}
  <2>1. 0 \in U
    BY <1>2
  <2>2. ASSUME NEW k \in 0 .. Len(s), k \in U, k < Len(s)
        PROVE  k + 1 \in U
    <3>1. k + 1 \in 1 .. Len(s) /\ (k + 1) - 1 = k /\ s[k + 1] \in E /\ h[k] \in D
      BY <2>2
    <3>2. h[k + 1] = SizeAfter(h[k], s[k + 1])
      BY <1>2, <3>1
    <3>. QED  BY <3>1, <3>2
  <2>3. Len(s) \in Nat
    OBVIOUS
  <2>. HIDE DEF U
  <2>4. \A k \in 0 .. Len(s) : k \in U
    BY <2>1, <2>2, <2>3, UpTo
  <2>. QED  BY <2>4 DEF U
<1>4. FoldLeft(SizeAfter, base, s) \in D
  BY <1>2, <1>3
<1>5. ASSUME NEW e \in E
      PROVE  FoldLeft(SizeAfter, base, Append(s, e)) = SizeAfter(FoldLeft(SizeAfter, base, s), e)
  <2>. DEFINE t == Append(s, e)
              n == Len(s)
  <2>1. /\ t \in Seq(E) /\ Len(t) = n + 1 /\ n \in Nat
        /\ t[n + 1] = e /\ \A k \in 1 .. n : t[k] = s[k]
    BY AppendProperties
  <2>. HIDE DEF t
  <2>0. PICK g : SizesTable(g, t, base)
    BY <2>1, SizesTabled
  <2>2. /\ g[0] = base
        /\ \A k \in 1 .. Len(t) : g[k] = SizeAfter(g[k - 1], t[k])
        /\ FoldLeft(SizeAfter, base, t) = g[Len(t)]
    BY <2>0 DEF SizesTable
  <2>. DEFINE U == {k \in 0 .. n : g[k] = h[k]}
  <2>3. 0 \in U
    BY <1>2, <2>1, <2>2
  <2>4. ASSUME NEW k \in 0 .. n, k \in U, k < n
        PROVE  k + 1 \in U
    <3>1. /\ k + 1 \in 1 .. n /\ k + 1 \in 1 .. Len(t) /\ (k + 1) - 1 = k
          /\ t[k + 1] = s[k + 1] /\ g[k] = h[k]
      BY <2>1, <2>4
    <3>2. g[k + 1] = SizeAfter(g[k], t[k + 1]) /\ h[k + 1] = SizeAfter(h[k], s[k + 1])
      BY <1>2, <2>2, <3>1
    <3>. QED  BY <3>1, <3>2
  <2>. HIDE DEF U
  <2>9. \A k \in 0 .. n : k \in U
    <3>. HIDE DEF n
    <3>. QED  BY <2>1, <2>3, <2>4, UpTo
  <2>5. n \in U
    BY <2>1, <2>9
  <2>6. n + 1 \in 1 .. Len(t) /\ (n + 1) - 1 = n
    BY <2>1
  <2>7. g[n + 1] = SizeAfter(g[n], e)
    BY <2>1, <2>2, <2>6
  <2>8. g[n] = h[n]
    BY <2>5 DEF U
  <2>. QED  BY <1>2, <2>1, <2>2, <2>7, <2>8 DEF t
<1>. QED  BY <1>1, <1>4, <1>5 DEF SizesFolds

TextsTable(h, s, base) ==
  /\ h[0] = base
  /\ \A k \in 1 .. Len(s) : h[k] = TextAfter(h[k - 1], s[k])
  /\ FoldLeft(TextAfter, base, s) = h[Len(s)]

(* Events are joined one after the other, in the same way.                 *)
LEMMA TextsTabled ==
  ASSUME NEW E, NEW s \in Seq(E), NEW D, NEW base \in D,
         \A d \in D, e \in E : TextAfter(d, e) \in D
  PROVE  \E h : TextsTable(h, s, base)
<1>. DEFINE T == 1 .. Len(s)
            IsIter(g) == g = [r \in SUBSET T |->
                               IF r = {} THEN base ELSE TextAfter(g[r \ {Max(r)}], s[Max(r)])]
            iter == CHOOSE g : IsIter(g)
            h == [k \in 0 .. Len(s) |-> iter[1 .. k]]
<1>1. \E g : IsIter(g)
  <2>. DEFINE f == [p \in T \X D |-> TextAfter(p[2], s[p[1]])]
  <2>1. f \in [T \X D -> D]
    OBVIOUS
  <2>. HIDE DEF f
  <2>2. PICK g : Solves(g, Len(s), D, base, f)
    <3>1. Len(s) \in Nat
      OBVIOUS
    <3>. QED  BY <2>1, <3>1, FoldTable
  <2>3. ASSUME NEW r \in SUBSET T, r # {}
        PROVE  f[<<Max(r), g[r \ {Max(r)}]>>] = TextAfter(g[r \ {Max(r)}], s[Max(r)])
    <3>1. Max(r) \in r /\ r \ {Max(r)} \in SUBSET T
      <4>1. Len(s) \in Nat
        OBVIOUS
      <4>. QED  BY <2>3, <4>1, TopOf
    <3>2. Max(r) \in T /\ g[r \ {Max(r)}] \in D
      BY <2>2, <3>1 DEF Solves
    <3>. QED  BY <3>2 DEF f
  <2>4. g = [r \in SUBSET T |->
               IF r = {} THEN base ELSE TextAfter(g[r \ {Max(r)}], s[Max(r)])]
    BY <2>2, <2>3 DEF Solves
  <2>. QED  BY <2>4
<1>2. IsIter(iter)
  <2>. HIDE DEF IsIter
  <2>. QED  BY <1>1
<1>3. FoldLeft(TextAfter, base, s) = iter[T]
  <2>1. DOMAIN s = T
    OBVIOUS
  <2>. QED  BY <2>1 DEF FoldLeft, MapThenFoldSet
<1>. HIDE DEF iter
<1>4. h[0] = base /\ h[Len(s)] = iter[T]
  BY <1>2
<1>5. ASSUME NEW k \in 1 .. Len(s)
      PROVE  h[k] = TextAfter(h[k - 1], s[k])
  <2>1. Max(1 .. k) = k /\ (1 .. k) \ {k} = 1 .. (k - 1) /\ 1 .. k \in SUBSET T /\ 1 .. k # {}
    BY TopOf
  <2>2. iter[1 .. k] = TextAfter(iter[(1 .. k) \ {Max(1 .. k)}], s[Max(1 .. k)])
    BY <1>2, <2>1
  <2>3. h[k] = iter[1 .. k] /\ h[k - 1] = iter[1 .. (k - 1)]
    OBVIOUS
  <2>4. iter[1 .. k] = TextAfter(iter[1 .. (k - 1)], s[k])
    BY <2>1, <2>2
  <2>. HIDE DEF h
  <2>. QED  BY <2>3, <2>4
<1>6. TextsTable(h, s, base)
  <2>. HIDE DEF h, T
  <2>. QED  BY <1>3, <1>4, <1>5 DEF TextsTable
<1>. QED  BY <1>6

TextsFolds(E, s, D, base) ==
  /\ FoldLeft(TextAfter, base, <<>>) = base
  /\ FoldLeft(TextAfter, base, s) \in D
  /\ \A e \in E : FoldLeft(TextAfter, base, Append(s, e)) = TextAfter(FoldLeft(TextAfter, base, s), e)

(* The same of events: base, the set and a step more.                      *)
LEMMA TextsFold ==
  ASSUME NEW E, NEW s \in Seq(E), NEW D, NEW base \in D,
         \A d \in D, e \in E : TextAfter(d, e) \in D
  PROVE  TextsFolds(E, s, D, base)
<1>1. FoldLeft(TextAfter, base, <<>>) = base
  <2>1. <<>> \in Seq(E) /\ Len(<<>>) = 0
    OBVIOUS
  <2>2. PICK h : TextsTable(h, <<>>, base)
    BY <2>1, TextsTabled
  <2>. QED  BY <2>1, <2>2 DEF TextsTable
<1>0. PICK h : TextsTable(h, s, base)
  BY TextsTabled
<1>2. /\ h[0] = base
      /\ \A k \in 1 .. Len(s) : h[k] = TextAfter(h[k - 1], s[k])
      /\ FoldLeft(TextAfter, base, s) = h[Len(s)]
  BY <1>0 DEF TextsTable
<1>3. \A k \in 0 .. Len(s) : h[k] \in D
  <2>. DEFINE U == {k \in 0 .. Len(s) : h[k] \in D}
  <2>1. 0 \in U
    BY <1>2
  <2>2. ASSUME NEW k \in 0 .. Len(s), k \in U, k < Len(s)
        PROVE  k + 1 \in U
    <3>1. k + 1 \in 1 .. Len(s) /\ (k + 1) - 1 = k /\ s[k + 1] \in E /\ h[k] \in D
      BY <2>2
    <3>2. h[k + 1] = TextAfter(h[k], s[k + 1])
      BY <1>2, <3>1
    <3>. QED  BY <3>1, <3>2
  <2>3. Len(s) \in Nat
    OBVIOUS
  <2>. HIDE DEF U
  <2>4. \A k \in 0 .. Len(s) : k \in U
    BY <2>1, <2>2, <2>3, UpTo
  <2>. QED  BY <2>4 DEF U
<1>4. FoldLeft(TextAfter, base, s) \in D
  BY <1>2, <1>3
<1>5. ASSUME NEW e \in E
      PROVE  FoldLeft(TextAfter, base, Append(s, e)) = TextAfter(FoldLeft(TextAfter, base, s), e)
  <2>. DEFINE t == Append(s, e)
              n == Len(s)
  <2>1. /\ t \in Seq(E) /\ Len(t) = n + 1 /\ n \in Nat
        /\ t[n + 1] = e /\ \A k \in 1 .. n : t[k] = s[k]
    BY AppendProperties
  <2>. HIDE DEF t
  <2>0. PICK g : TextsTable(g, t, base)
    BY <2>1, TextsTabled
  <2>2. /\ g[0] = base
        /\ \A k \in 1 .. Len(t) : g[k] = TextAfter(g[k - 1], t[k])
        /\ FoldLeft(TextAfter, base, t) = g[Len(t)]
    BY <2>0 DEF TextsTable
  <2>. DEFINE U == {k \in 0 .. n : g[k] = h[k]}
  <2>3. 0 \in U
    BY <1>2, <2>1, <2>2
  <2>4. ASSUME NEW k \in 0 .. n, k \in U, k < n
        PROVE  k + 1 \in U
    <3>1. /\ k + 1 \in 1 .. n /\ k + 1 \in 1 .. Len(t) /\ (k + 1) - 1 = k
          /\ t[k + 1] = s[k + 1] /\ g[k] = h[k]
      BY <2>1, <2>4
    <3>2. g[k + 1] = TextAfter(g[k], t[k + 1]) /\ h[k + 1] = TextAfter(h[k], s[k + 1])
      BY <1>2, <2>2, <3>1
    <3>. QED  BY <3>1, <3>2
  <2>. HIDE DEF U
  <2>9. \A k \in 0 .. n : k \in U
    <3>. HIDE DEF n
    <3>. QED  BY <2>1, <2>3, <2>4, UpTo
  <2>5. n \in U
    BY <2>1, <2>9
  <2>6. n + 1 \in 1 .. Len(t) /\ (n + 1) - 1 = n
    BY <2>1
  <2>7. g[n + 1] = TextAfter(g[n], e)
    BY <2>1, <2>2, <2>6
  <2>8. g[n] = h[n]
    BY <2>5 DEF U
  <2>. QED  BY <1>2, <2>1, <2>2, <2>7, <2>8 DEF t
<1>. QED  BY <1>1, <1>4, <1>5 DEF TextsFolds

-----------------------------------------------------------------------------
(* What the tokens of a generation decode to.                              *)

IsPre(s, t) == Len(s) <= Len(t) /\ \A i \in 1 .. Len(s) : s[i] = t[i]

(* Texts are extended one after the other.                                 *)
LEMMA PreTrans ==
  ASSUME NEW r \in Text, NEW s \in Text, NEW t \in Text, IsPre(r, s), IsPre(s, t)
  PROVE  IsPre(r, t)
<1>1. Len(r) \in Nat /\ Len(s) \in Nat /\ Len(t) \in Nat
  BY DEF Text
<1>. QED  BY <1>1 DEF IsPre

(* A text is extended by a character more, and by none.                    *)
LEMMA PreAppend ==
  ASSUME NEW s \in Text, NEW c \in (DOMAIN Width) \cup {Bad}
  PROVE  /\ Append(s, c) \in Text /\ IsPre(s, s) /\ IsPre(s, Append(s, c))
         /\ c \in Range(Append(s, c))
<1>1. /\ Append(s, c) \in Text /\ Len(Append(s, c)) = Len(s) + 1 /\ Len(s) \in Nat
      /\ Append(s, c)[Len(s) + 1] = c /\ \A i \in 1 .. Len(s) : Append(s, c)[i] = s[i]
      /\ DOMAIN Append(s, c) = 1 .. Len(s) + 1
  BY AppendProperties DEF Text
<1>. QED  BY <1>1 DEF IsPre, Range

(* A byte takes nothing back of the text before it.                        *)
LEMMA DecodeByteGrows ==
  ASSUME NEW d \in Partial, NEW b \in Units8
  PROVE  IsPre(d.text, DecodeByte(d, b).text)
<1>. DEFINE t == Before(d, b)
<1>1. d.text \in Text /\ b[1] \in (DOMAIN Width) \cup {Bad} /\ Bad \in (DOMAIN Width) \cup {Bad}
  BY DEF Partial, Units8
<1>2. t \in Text /\ IsPre(d.text, t)
  BY <1>1, PreAppend DEF Before
<1>. HIDE DEF t
<1>3. \A c \in {b[1], Bad} : IsPre(d.text, Append(t, c))
  <2>1. \A c \in {b[1], Bad} : Append(t, c) \in Text /\ IsPre(t, Append(t, c))
    BY <1>1, <1>2, PreAppend
  <2>. QED  BY <1>1, <1>2, <2>1, PreTrans
<1>4. \/ DecodeByte(d, b) = [text |-> Append(t, b[1]), part |-> <<>>]
      \/ DecodeByte(d, b) = [text |-> t, part |-> b]
      \/ DecodeByte(d, b) = [text |-> Append(t, Bad), part |-> <<>>]
  BY DecodeByteCases DEF t
<1>5. \/ DecodeByte(d, b).text = Append(t, b[1])
      \/ DecodeByte(d, b).text = t
      \/ DecodeByte(d, b).text = Append(t, Bad)
  BY <1>4
<1>. QED  BY <1>2, <1>3, <1>5

(* Nor does a token.                                                       *)
LEMMA DecodeTokenGrows ==
  ASSUME NEW d \in Partial, NEW t \in Tokens
  PROVE  DecodeToken(d, t) \in Partial /\ IsPre(d.text, DecodeToken(d, t).text)
<1>. DEFINE D == {p \in Partial : IsPre(d.text, p.text)}
<1>1. d \in D
  <2>1. d.text \in Text
    BY DEF Partial
  <2>. QED  BY <2>1, PreAppend
<1>2. ASSUME NEW p \in D, NEW b \in Units8
      PROVE  DecodeByte(p, b) \in D
  <2>1. DecodeByte(p, b) \in Partial /\ IsPre(p.text, DecodeByte(p, b).text)
    BY DecodeByteType, DecodeByteGrows
  <2>2. p.text \in Text /\ d.text \in Text /\ DecodeByte(p, b).text \in Text
    BY <2>1 DEF Partial
  <2>. QED  BY <2>1, <2>2, PreTrans
<1>3. Bytes[t] \in Seq(Units8)
  BY ServeAssumption DEF Units8
<1>4. DecodeToken(d, t) \in D
  <2>. HIDE DEF D
  <2>1. BytesFolds(Units8, Bytes[t], D, d)
    BY <1>1, <1>2, <1>3, BytesFold
  <2>. QED  BY <2>1 DEF DecodeToken, BytesFolds
<1>. QED  BY <1>4

Nothing == [text |-> <<>>, part |-> <<>>]
Decoded(ids) == FoldLeft(DecodeToken, Nothing, ids)

(* Tokens are decoded one after the other.                                 *)
LEMMA DecodedStep ==
  ASSUME NEW ids \in Seq(Tokens)
  PROVE  /\ Decoded(<<>>) = Nothing /\ Decoded(ids) \in Partial
         /\ \A t \in Tokens : Decoded(Append(ids, t)) = DecodeToken(Decoded(ids), t)
<1>1. Nothing \in Partial
  <2>1. <<>> \in Text
    BY DEF Text
  <2>. QED  BY <2>1 DEF Nothing, Partial
<1>2. \A d \in Partial, t \in Tokens : DecodeToken(d, t) \in Partial
  BY DecodeTokenGrows
<1>3. TokensFolds(Tokens, ids, Partial, Nothing)
  BY <1>1, <1>2, TokensFold
<1>. QED  BY <1>3 DEF Decoded, TokensFolds

(* A text without U+FFFD is taken up whole by what a token more decodes to *)
LEMMA DecodeGrows ==
  ASSUME NEW ids \in Seq(Tokens)
  PROVE  /\ Decode(<<>>) = <<>> /\ Decode(ids) \in Text
         /\ \A t \in Tokens :
              Bad \notin Range(Decode(ids)) => IsPre(Decode(ids), Decode(Append(ids, t)))
<1>1. ASSUME NEW s
      PROVE  Decode(s) = IF Decoded(s).part = <<>> THEN Decoded(s).text
                         ELSE Append(Decoded(s).text, Bad)
  BY DEF Decode, Decoded, Nothing
<1>2. Decode(<<>>) = <<>>
  BY <1>1, DecodedStep DEF Nothing
<1>3. Decoded(ids).text \in Text
  BY DecodedStep DEF Partial
<1>4. Decode(ids) \in Text
  BY <1>1, <1>3, PreAppend
<1>5. ASSUME NEW t \in Tokens, Bad \notin Range(Decode(ids))
      PROVE  IsPre(Decode(ids), Decode(Append(ids, t)))
  <2>1. Decode(ids) = Decoded(ids).text
    BY <1>1, <1>3, <1>5, PreAppend
  <2>. DEFINE e == Decoded(Append(ids, t))
  <2>2. e \in Partial /\ IsPre(Decoded(ids).text, e.text)
    BY DecodedStep, DecodeTokenGrows
  <2>3. e.text \in Text
    BY <2>2 DEF Partial
  <2>4. Decode(Append(ids, t)) = e.text \/ Decode(Append(ids, t)) = Append(e.text, Bad)
    BY <1>1
  <2>. HIDE DEF e
  <2>5. IsPre(e.text, Append(e.text, Bad)) /\ Append(e.text, Bad) \in Text
    BY <2>3, PreAppend
  <2>6. IsPre(Decoded(ids).text, Append(e.text, Bad))
    BY <1>3, <2>2, <2>3, <2>5, PreTrans
  <2>. QED  BY <2>1, <2>2, <2>4, <2>6
<1>. QED  BY <1>2, <1>4, <1>5

-----------------------------------------------------------------------------
(* The bytes of a text, and where it can be cut.                           *)

(* A character more has at least one byte more.                            *)
LEMMA SizeStep ==
  ASSUME NEW x \in Text
  PROVE  /\ Size(<<>>) = 0 /\ Size(x) \in Nat
         /\ \A c \in (DOMAIN Width) \cup {Bad} :
              Size(Append(x, c)) \in Nat /\ Size(Append(x, c)) > Size(x)
<1>. DEFINE C == (DOMAIN Width) \cup {Bad}
            N == Nat
<1>1. \A c \in C : WidthOf(c) \in Nat \ {0}
  BY ServeAssumption DEF WidthOf
<1>2. \A m \in Nat, c \in C : SizeAfter(m, c) \in Nat /\ SizeAfter(m, c) > m
  BY <1>1 DEF SizeAfter
<1>3. x \in Seq(C) /\ 0 \in N /\ \A m \in N, c \in C : SizeAfter(m, c) \in N
  BY <1>2 DEF Text
<1>. HIDE DEF C
<1>4. /\ FoldLeft(SizeAfter, 0, <<>>) = 0 /\ FoldLeft(SizeAfter, 0, x) \in Nat
      /\ \A c \in C : FoldLeft(SizeAfter, 0, Append(x, c)) = SizeAfter(FoldLeft(SizeAfter, 0, x), c)
  <2>1. SizesFolds(C, x, N, 0)
    <3>. HIDE DEF N
    <3>. QED  BY <1>3, SizesFold
  <2>. QED  BY <2>1 DEF SizesFolds
<1>5. \A c \in C : Size(Append(x, c)) \in Nat /\ Size(Append(x, c)) > Size(x)
  BY <1>2, <1>4 DEF Size
<1>. QED  BY <1>4, <1>5 DEF Size, C

(* SubSeqPrefixes of a text.                                                     *)
LEMMA SubSeqPrefixes ==
  ASSUME NEW S, NEW x \in Seq(S)
  PROVE  /\ SubSeq(x, 1, 0) = <<>> /\ SubSeq(x, 1, Len(x)) = x
         /\ \A k \in 0 .. Len(x) : /\ SubSeq(x, 1, k) \in Seq(S) /\ Len(SubSeq(x, 1, k)) = k
                                   /\ \A i \in 1 .. k : SubSeq(x, 1, k)[i] = x[i]
         /\ \A k \in 0 .. Len(x) - 1 : SubSeq(x, 1, k + 1) = Append(SubSeq(x, 1, k), x[k + 1])
<1>1. Len(x) \in Nat /\ \A i \in 1 .. Len(x) : x[i] \in S
  OBVIOUS
<1>2. ASSUME NEW k \in 0 .. Len(x)
      PROVE  /\ SubSeq(x, 1, k) \in Seq(S) /\ Len(SubSeq(x, 1, k)) = k
             /\ \A i \in 1 .. k : SubSeq(x, 1, k)[i] = x[i]
  <2>1. \A i \in 1 .. k : x[i] \in S
    BY <1>1
  <2>2. /\ SubSeq(x, 1, k) \in Seq(S)
        /\ Len(SubSeq(x, 1, k)) = IF 1 <= k THEN k - 1 + 1 ELSE 0
        /\ \A i \in 1 .. k - 1 + 1 : SubSeq(x, 1, k)[i] = x[1 + i - 1]
    BY <1>1, <2>1, SubSeqProperties
  <2>. QED  BY <1>1, <2>2
<1>3. SubSeq(x, 1, 0) = <<>>
  BY <1>1, <1>2
<1>4. SubSeq(x, 1, Len(x)) = x
  BY SubSeqFull
<1>5. ASSUME NEW k \in 0 .. Len(x) - 1
      PROVE  SubSeq(x, 1, k + 1) = Append(SubSeq(x, 1, k), x[k + 1])
  <2>. DEFINE p == SubSeq(x, 1, k)
              q == SubSeq(x, 1, k + 1)
  <2>1. /\ p \in Seq(S) /\ Len(p) = k /\ \A i \in 1 .. k : p[i] = x[i]
        /\ q \in Seq(S) /\ Len(q) = k + 1 /\ \A i \in 1 .. k + 1 : q[i] = x[i]
        /\ x[k + 1] \in S
    BY <1>1, <1>2
  <2>. HIDE DEF p, q
  <2>2. /\ Append(p, x[k + 1]) \in Seq(S) /\ Len(Append(p, x[k + 1])) = k + 1
        /\ \A i \in 1 .. k : Append(p, x[k + 1])[i] = p[i]
        /\ Append(p, x[k + 1])[k + 1] = x[k + 1]
    BY <2>1, AppendProperties
  <2>3. \A i \in 1 .. Len(q) : q[i] = Append(p, x[k + 1])[i]
    BY <2>1, <2>2
  <2>4. q = Append(p, x[k + 1])
    BY <2>1, <2>2, <2>3, SeqEqual
  <2>. QED  BY <2>4 DEF p, q
<1>. QED  BY <1>2, <1>3, <1>4, <1>5

(* A longer prefix has more bytes.                                         *)
LEMMA SizeOfPrefixes ==
  ASSUME NEW x \in Text
  PROVE  /\ \A k \in 0 .. Len(x) : Size(SubSeq(x, 1, k)) \in Nat
         /\ \A j, k \in 0 .. Len(x) : j < k => Size(SubSeq(x, 1, j)) < Size(SubSeq(x, 1, k))
<1>. DEFINE C == (DOMAIN Width) \cup {Bad}
            U == {k \in 0 .. Len(x) :
                    \A j \in 0 .. Len(x) : j < k => Size(SubSeq(x, 1, j)) < Size(SubSeq(x, 1, k))}
<1>0. x \in Seq(C) /\ Len(x) \in Nat /\ \A i \in 1 .. Len(x) : x[i] \in C
  BY DEF Text
<1>1. \A k \in 0 .. Len(x) : SubSeq(x, 1, k) \in Text /\ Size(SubSeq(x, 1, k)) \in Nat
  <2>1. \A k \in 0 .. Len(x) : SubSeq(x, 1, k) \in Text
    BY <1>0, SubSeqPrefixes DEF Text
  <2>. QED  BY <2>1, SizeStep
<1>2. 0 \in U
  BY <1>0
<1>3. ASSUME NEW k \in 0 .. Len(x), k \in U, k < Len(x)
      PROVE  k + 1 \in U
  <2>1. k \in 0 .. Len(x) - 1 /\ k + 1 \in 0 .. Len(x) /\ x[k + 1] \in C
    BY <1>0, <1>3
  <2>2. SubSeq(x, 1, k + 1) = Append(SubSeq(x, 1, k), x[k + 1])
    BY <1>0, <2>1, SubSeqPrefixes
  <2>3. Size(SubSeq(x, 1, k + 1)) > Size(SubSeq(x, 1, k))
    BY <1>1, <2>1, <2>2, SizeStep DEF C
  <2>4. ASSUME NEW j \in 0 .. Len(x), j < k + 1
        PROVE  Size(SubSeq(x, 1, j)) < Size(SubSeq(x, 1, k + 1))
    <3>1. j = k \/ j < k
      BY <1>0, <2>4
    <3>2. j < k => Size(SubSeq(x, 1, j)) < Size(SubSeq(x, 1, k))
      BY <1>3
    <3>. QED  BY <1>1, <2>1, <2>3, <3>1, <3>2
  <2>. QED  BY <2>1, <2>4
<1>. HIDE DEF U
<1>4. \A k \in 0 .. Len(x) : k \in U
  BY <1>0, <1>2, <1>3, UpTo
<1>. QED  BY <1>1, <1>4 DEF U

(* Where the text printed so far is taken up whole, it is the only place   *)
(* to cut at its length; what follows it is not empty unless it is all.    *)
LEMMA CutAfterPrefix ==
  ASSUME NEW p \in Text, NEW full \in Text, IsPre(p, full)
  PROVE  /\ Cuts(full, Size(p)) = {Len(p)}
         /\ Size(full) <= Size(p) => full = p
         /\ p \o SubSeq(full, Len(p) + 1, Len(full)) = full
<1>. DEFINE C == (DOMAIN Width) \cup {Bad}
<1>0. /\ p \in Seq(C) /\ full \in Seq(C) /\ Len(p) \in Nat /\ Len(full) \in Nat
      /\ Len(p) \in 0 .. Len(full) /\ \A i \in 1 .. Len(p) : p[i] = full[i]
  BY DEF Text, IsPre
<1>1. SubSeq(full, 1, Len(p)) = p
  <2>1. /\ SubSeq(full, 1, Len(p)) \in Seq(C) /\ Len(SubSeq(full, 1, Len(p))) = Len(p)
        /\ \A i \in 1 .. Len(p) : SubSeq(full, 1, Len(p))[i] = full[i]
    BY <1>0, SubSeqPrefixes
  <2>2. \A i \in 1 .. Len(p) : p[i] = SubSeq(full, 1, Len(p))[i]
    BY <1>0, <2>1
  <2>. HIDE DEF C
  <2>. QED  BY <1>0, <2>1, <2>2, SeqEqual
<1>2. \A k \in 0 .. Len(full) : Size(SubSeq(full, 1, k)) = Size(p) <=> k = Len(p)
  <2>1. \A k \in 0 .. Len(full) : k = Len(p) \/ k < Len(p) \/ Len(p) < k
    BY <1>0
  <2>2. /\ \A k \in 0 .. Len(full) : Size(SubSeq(full, 1, k)) \in Nat
        /\ \A j, k \in 0 .. Len(full) :
             j < k => Size(SubSeq(full, 1, j)) < Size(SubSeq(full, 1, k))
    BY SizeOfPrefixes
  <2>3. ASSUME NEW k \in 0 .. Len(full), k # Len(p)
        PROVE  Size(SubSeq(full, 1, k)) # Size(p)
    <3>1. /\ k < Len(p) => Size(SubSeq(full, 1, k)) < Size(p)
          /\ Len(p) < k => Size(p) < Size(SubSeq(full, 1, k))
      BY <1>0, <1>1, <2>2
    <3>2. Size(SubSeq(full, 1, k)) \in Nat /\ Size(p) \in Nat
      BY <2>2, SizeStep
    <3>. QED  BY <2>1, <2>3, <3>1, <3>2
  <2>. QED  BY <1>1, <2>3
<1>3. Cuts(full, Size(p)) = {Len(p)}
  BY <1>0, <1>2 DEF Cuts
<1>4. Size(full) <= Size(p) => full = p
  <2>1. SubSeq(full, 1, Len(full)) = full
    BY <1>0, SubSeqPrefixes
  <2>2. Len(p) < Len(full) => Size(p) < Size(full)
    <3>1. \A j, k \in 0 .. Len(full) :
            j < k => Size(SubSeq(full, 1, j)) < Size(SubSeq(full, 1, k))
      BY SizeOfPrefixes
    <3>2. Len(full) \in 0 .. Len(full)
      BY <1>0
    <3>. QED  BY <1>0, <1>1, <2>1, <3>1, <3>2
  <2>3. Len(p) = Len(full) => full = p
    BY <1>1, <2>1
  <2>4. Size(p) \in Nat /\ Size(full) \in Nat
    BY SizeStep
  <2>. QED  BY <1>0, <2>2, <2>3, <2>4
<1>5. p \o SubSeq(full, Len(p) + 1, Len(full)) = full
  <2>. DEFINE r == SubSeq(full, Len(p) + 1, Len(full))
  <2>1. /\ r \in Seq(C) /\ Len(r) = Len(full) - Len(p)
        /\ \A i \in 1 .. Len(r) : r[i] = full[Len(p) + i]
    <3>1. \A i \in Len(p) + 1 .. Len(full) : full[i] \in C
      BY <1>0
    <3>2. /\ r \in Seq(C)
          /\ Len(r) = IF Len(p) + 1 <= Len(full) THEN Len(full) - (Len(p) + 1) + 1 ELSE 0
          /\ \A i \in 1 .. Len(full) - (Len(p) + 1) + 1 : r[i] = full[Len(p) + 1 + i - 1]
      BY <1>0, <3>1, SubSeqProperties
    <3>. QED  BY <1>0, <3>2
  <2>. HIDE DEF r, C
  <2>2. /\ p \o r \in Seq(C) /\ Len(p \o r) = Len(p) + Len(r)
        /\ \A i \in 1 .. Len(p) + Len(r) :
             (p \o r)[i] = IF i <= Len(p) THEN p[i] ELSE r[i - Len(p)]
    BY <1>0, <2>1, ConcatProperties
  <2>3. Len(p \o r) = Len(full)
    BY <1>0, <2>1, <2>2
  <2>4. ASSUME NEW i \in 1 .. Len(full)
        PROVE  (p \o r)[i] = full[i]
    <3>1. CASE i <= Len(p)
      BY <1>0, <2>2, <2>3, <3>1
    <3>2. CASE i > Len(p)
      <4>1. i - Len(p) \in 1 .. Len(r) /\ Len(p) + (i - Len(p)) = i
        BY <1>0, <2>1, <3>2
      <4>. QED  BY <1>0, <2>1, <2>2, <2>3, <3>2, <4>1
    <3>3. i <= Len(p) \/ i > Len(p)
      BY <1>0
    <3>. QED  BY <3>1, <3>2, <3>3
  <2>5. p \o r = full
    BY <1>0, <2>2, <2>3, <2>4, SeqEqual
  <2>. QED  BY <2>5 DEF r
<1>. QED  BY <1>3, <1>4, <1>5

-----------------------------------------------------------------------------
(* The text of a stream.                                                   *)

Events == {Role, Final, Done, Error} \cup {Delta(x) : x \in Text}

(* Deltas add to the text; no other event does.                            *)
LEMMA TextOfStep ==
  ASSUME NEW s \in Seq(Events)
  PROVE  /\ TextOf(<<>>) = <<>> /\ TextOf(s) \in Text
         /\ \A x \in Text : TextOf(Append(s, Delta(x))) = TextOf(s) \o x
         /\ \A e \in {Role, Final, Done, Error} : TextOf(Append(s, e)) = TextOf(s)
<1>1. \A x \in Text : Delta(x).kind = "delta" /\ Delta(x).text = x
  BY DEF Delta
<1>2. \A e \in {Role, Final, Done, Error} : e.kind # "delta"
  BY DEF Role, Final, Done, Error
<1>3. \A r \in Text, x \in Text : r \o x \in Text
  BY DEF Text
<1>4. \A r \in Text, e \in Events : TextAfter(r, e) \in Text
  BY <1>1, <1>2, <1>3 DEF TextAfter, Events
<1>5. <<>> \in Text
  BY DEF Text
<1>6. TextsFolds(Events, s, Text, <<>>)
  BY <1>4, <1>5, TextsFold
<1>7. /\ TextOf(<<>>) = <<>> /\ TextOf(s) \in Text
      /\ \A e \in Events : TextOf(Append(s, e)) = TextAfter(TextOf(s), e)
  BY <1>6 DEF TextOf, TextsFolds
<1>8. \A x \in Text : Delta(x) \in Events /\ TextAfter(TextOf(s), Delta(x)) = TextOf(s) \o x
  BY <1>1 DEF Events, TextAfter
<1>9. \A e \in {Role, Final, Done, Error} : e \in Events /\ TextAfter(TextOf(s), e) = TextOf(s)
  BY <1>2 DEF Events, TextAfter
<1>. QED  BY <1>7, <1>8, <1>9

-----------------------------------------------------------------------------
(* The registry.                                                           *)

(* A warm_up that succeeds leaves the model it was asked for in front.     *)
LEMMA WarmUpFront ==
  ASSUME NEW m, warm \in Seq(Models), NEW u \in WarmUps(m)
  PROVE  /\ u.warm \in Seq(Models)
         /\ u.ok => u.warm # <<>> /\ Head(u.warm) = m /\ u.warm[1] = m
         /\ u.ok \in BOOLEAN
<1>. DEFINE n == IF Len(warm) < MaxWarm THEN Len(warm) ELSE MaxWarm - 1
            kept == SubSeq(warm, 1, n)
            places == {i \in DOMAIN warm : warm[i] = m}
<1>1. ASSUME NEW s \in Seq(Models), m \in Models
      PROVE  /\ <<m>> \o s \in Seq(Models)
             /\ <<m>> \o s # <<>> /\ Head(<<m>> \o s) = m /\ (<<m>> \o s)[1] = m
  BY <1>1
<1>2. kept \in Seq(Models)
  <2>1. n \in Int /\ \A i \in 1 .. n : warm[i] \in Models
    BY ServeAssumption
  <2>. QED  BY <2>1, SubSeqProperties
<1>3. CASE places # {}
  <2>1. PICK i \in places : u = [ok |-> TRUE, warm |-> <<m>> \o RemoveAt(warm, i)]
    BY <1>3 DEF WarmUps
  <2>2. m \in Models /\ i \in 1 .. Len(warm)
    BY <2>1
  <2>3. RemoveAt(warm, i) \in Seq(Models)
    <3>1. SubSeq(warm, 1, i - 1) \in Seq(Models)
      BY <2>2, SubSeqProperties
    <3>2. SubSeq(warm, i + 1, Len(warm)) \in Seq(Models)
      BY <2>2, SubSeqProperties
    <3>. QED  BY <3>1, <3>2, ConcatProperties DEF RemoveAt
  <2>. QED  BY <1>1, <2>1, <2>2, <2>3
<1>4. CASE places = {} /\ m \notin Models
  <2>1. u = [ok |-> FALSE, warm |-> warm]
    BY <1>4 DEF WarmUps
  <2>2. u.ok = FALSE /\ u.warm = warm
    BY <2>1
  <2>. QED  BY <2>2
<1>5. CASE places = {} /\ m \in Models
  <2>1. u \in [ok : {TRUE}, warm : {<<m>> \o kept, <<m>>}]
          \cup [ok : {FALSE}, warm : {kept, <<>>, <<m>> \o kept}]
    BY <1>5 DEF WarmUps
  <2>2. <<m>> \in Seq(Models) /\ <<m>> # <<>> /\ Head(<<m>>) = m /\ <<m>>[1] = m
    BY <1>5
  <2>3. <<m>> \o kept \in Seq(Models) /\ <<m>> \o kept # <<>>
        /\ Head(<<m>> \o kept) = m /\ (<<m>> \o kept)[1] = m
    BY <1>1, <1>2, <1>5
  <2>. HIDE DEF kept
  <2>4. CASE u.ok = TRUE
    <3>1. u.warm \in {<<m>> \o kept, <<m>>}
      BY <2>1, <2>4
    <3>. QED  BY <2>2, <2>3, <2>4, <3>1
  <2>5. CASE u.ok = FALSE
    <3>1. u.warm \in {kept, <<>>, <<m>> \o kept}
      BY <2>1, <2>5
    <3>2. <<>> \in Seq(Models)
      OBVIOUS
    <3>3. u.warm = kept \/ u.warm = <<>> \/ u.warm = <<m>> \o kept
      BY <3>1
    <3>4. u.warm \in Seq(Models)
      BY <1>2, <2>3, <3>2, <3>3
    <3>. QED  BY <2>5, <3>4
  <2>6. u.ok = TRUE \/ u.ok = FALSE
    BY <2>1
  <2>. QED  BY <2>4, <2>5, <2>6
<1>. QED  BY <1>3, <1>4, <1>5

-----------------------------------------------------------------------------
(* The lock, the engine and the template.                                  *)

Places == {"accept", "body", "query", "error", "warm", "plain", "stream", "generate", "json",
           "headers", "respond", "hung", "dead"}
Lives == {"none", "start", "generate", "hung", "done", "panicked", "crashed"}

Types ==
  /\ warm \in Seq(Models)
  /\ lock \in Ids \cup {Free, Main}
  /\ pc \in Places
  /\ req \in Seq(Requests) /\ cur <= MaxRequests
  /\ kimi \in [Ids -> BOOLEAN]
  /\ th \in [Ids -> Lives]

\* A thread belongs to a request main has spawned it for, at most once.
OneThread ==
  /\ \A i \in Ids : i > cur => th[i] = "none"
  /\ pc # "accept" => cur > 0
  /\ pc \in {"body", "query", "warm", "plain", "stream"} => th[cur] = "none"
  /\ pc = "warm" => req[cur].op \in {"plain", "stream"}

\* Who generates holds the lock, and the other way round.
LockHeld ==
  /\ \A i \in Ids : th[i] \in Busy <=> lock = i
  /\ pc \in Busy <=> lock = Main

\* Request i has gone through WarmFirst and has not been answered.
Prompted(i) ==
  \/ th[i] \in {"start", "generate", "hung"}
  \/ i = cur /\ pc \in {"plain", "stream", "generate", "hung"}

Templates == \A i \in 1 .. cur : Prompted(i) => kimi[i] = (req[i].model \in Kimi)

EngineInFront ==
  \A i \in 1 .. cur :
    th[i] \in Busy \/ (i = cur /\ pc \in Busy) =>
      warm # <<>> /\ Head(warm) = req[i].model

EngineInv == Types /\ OneThread /\ LockHeld /\ Templates /\ EngineInFront

(* The server starts with the lock free and no request.                    *)
LEMMA EngineInvInit ==
  ASSUME Init
  PROVE  EngineInv
<1>1. Types
  BY ServeAssumption DEF Init, Types, Places, Lives, Ids, cur
<1>. QED
  BY <1>1, ServeAssumption
     DEF Init, EngineInv, OneThread, LockHeld, Templates, EngineInFront, Busy, Prompted,
         Ids, Free, Main, cur

(* Facts about request numbers that every step needs.                      *)
LEMMA Numbers ==
  ASSUME Types
  PROVE  /\ cur \in Nat /\ cur \in 0 .. MaxRequests
         /\ DOMAIN req = 1 .. cur /\ 1 .. cur \subseteq Ids
         /\ Free \notin Ids /\ Main \notin Ids /\ Free # Main
         /\ \A i \in 1 .. cur : req[i] \in Requests
<1>1. cur \in Nat /\ DOMAIN req = 1 .. cur /\ \A i \in 1 .. cur : req[i] \in Requests
  BY DEF Types, cur
<1>. QED  BY <1>1, ServeAssumption DEF Types, Ids, Free, Main

(* A new request, and the ways of main that leave the registry alone.      *)
LEMMA MainKeepsEngineInv ==
  ASSUME EngineInv,
         \/ \E r \in Requests : Accept(r)
         \/ ReadBody \/ Query \/ Respond \/ Spawn \/ WriteHeaders
         \/ ReadEnd \/ WriteFails \/ (\E k \in 1 .. 2 : Read(k))
         \/ \E how \in {"stalled", "left"} : Leave(how)
  PROVE  EngineInv'
<1>. USE DEF EngineInv
<1>0. Types /\ cur \in 0 .. MaxRequests /\ 1 .. cur \subseteq Ids
  BY Numbers
<1>1. ASSUME NEW r \in Requests, Accept(r)
      PROVE  EngineInv'
  <2>1. /\ req' \in Seq(Requests) /\ cur' = cur + 1 /\ cur + 1 \in Ids
        /\ \A i \in 1 .. cur : req'[i] = req[i]
        /\ req'[cur + 1] = r
    <3>1. req' = Append(req, r) /\ req \in Seq(Requests) /\ Len(req) < MaxRequests
      BY <1>1, <1>0 DEF Accept, cur, Types
    <3>2. /\ req' \in Seq(Requests) /\ Len(req') = Len(req) + 1
          /\ \A i \in 1 .. Len(req) : req'[i] = req[i]
          /\ req'[Len(req) + 1] = r
      BY <3>1, AppendProperties
    <3>. QED  BY <3>1, <3>2, ServeAssumption DEF cur, Ids
  <2>2. /\ pc' = "body" /\ UNCHANGED <<warm, lock, kimi, th>>
        /\ pc = "accept" /\ cur < MaxRequests
    BY <1>1 DEF Accept, threads
  <2>3. Types'
    <3>1. cur' <= MaxRequests
      BY <2>1, ServeAssumption DEF Ids
    <3>. QED  BY <1>0, <2>1, <2>2, <3>1 DEF Types, Places
  <2>4. OneThread'
    BY <1>0, <2>1, <2>2, ServeAssumption DEF OneThread, Ids
  <2>5. LockHeld'
    BY <2>2 DEF LockHeld, Busy
  <2>6. Templates' /\ EngineInFront'
    <3>. SUFFICES ASSUME NEW i \in 1 .. cur + 1,
                         th[i] \in {"start", "generate", "hung"}
                  PROVE  /\ kimi[i] = (req'[i].model \in Kimi)
                         /\ th[i] \in Busy => warm # <<>> /\ Head(warm) = req'[i].model
      BY <2>1, <2>2 DEF Templates, EngineInFront, Prompted, Busy
    <3>1. i \in 1 .. cur /\ req'[i] = req[i]
      BY <1>0, <2>1 DEF OneThread, Ids
    <3>. QED  BY <3>1 DEF Templates, EngineInFront, Prompted
  <2>. QED  BY <2>3, <2>4, <2>5, <2>6
<1>2. CASE ReadBody \/ Query \/ Respond
  <2>1. /\ pc \in {"body", "query", "json", "error"}
        /\ pc' \in {"query", "warm", "json", "error", "accept", "dead"}
        /\ pc' \in {"query", "warm"} => pc = "body"
        /\ pc' = "warm" => req[cur].op \notin {"unknown", "query"}
        /\ UNCHANGED <<warm, lock, req, kimi, th>> /\ cur' = cur
    BY <1>2 DEF ReadBody, Query, Respond, threads, cur
  <2>2. pc' = "warm" => req[cur].op \in {"plain", "stream"}
    <3>1. req[cur] \in Requests
      BY <1>0, <2>1, Numbers DEF OneThread
    <3>. QED  BY <2>1, <3>1, ServeAssumption
  <2>3. Types' /\ OneThread'
    BY <1>0, <2>1, <2>2 DEF Types, Places, OneThread
  <2>. QED
    BY <1>0, <2>1, <2>3 DEF LockHeld, Busy, Templates, Prompted, EngineInFront
<1>4. CASE Spawn
  <2>1. /\ pc = "stream" /\ pc' = "headers" /\ th' = [th EXCEPT ![cur] = "start"]
        /\ UNCHANGED <<warm, lock, req, kimi>> /\ cur' = cur
    BY <1>4 DEF Spawn, cur
  <2>2. cur \in Ids /\ cur \in 1 .. cur /\ th[cur] = "none"
    BY <1>0, <2>1 DEF OneThread
  <2>3. Types' /\ OneThread'
    BY <1>0, <2>1, <2>2 DEF Types, Places, Lives, OneThread
  <2>4. LockHeld'
    BY <1>0, <2>1, <2>2 DEF LockHeld, Busy, Types
  <2>5. Templates'
    BY <1>0, <2>1, <2>2 DEF Templates, Prompted, Types
  <2>6. EngineInFront'
    BY <1>0, <2>1, <2>2 DEF EngineInFront, Busy, Types
  <2>. QED  BY <2>3, <2>4, <2>5, <2>6
<1>5. CASE WriteHeaders \/ ReadEnd \/ WriteFails \/ \E k \in 1 .. 2 : Read(k)
  <2>1. /\ pc \in {"headers", "respond"} /\ pc' \in {"respond", "accept"}
        /\ UNCHANGED <<warm, lock, req, kimi, th>> /\ cur' = cur
    BY <1>5 DEF WriteHeaders, ReadEnd, WriteFails, Read, threads, cur
  <2>. QED
    BY <1>0, <2>1
       DEF Types, Places, OneThread, LockHeld, Busy, Templates, Prompted, EngineInFront
<1>6. CASE \E how \in {"stalled", "left"} : Leave(how)
  <2>1. UNCHANGED <<pc, warm, lock, req, kimi, th>> /\ cur' = cur
    BY <1>6 DEF Leave, threads, cur
  <2>. QED
    BY <1>0, <2>1 DEF Types, OneThread, LockHeld, Templates, Prompted, EngineInFront
<1>. QED  BY <1>1, <1>2, <1>4, <1>5, <1>6

(* WarmFirst changes the registry while the lock is free, so while nobody  *)
(* generates, and chooses the template of the model now in front.          *)
LEMMA WarmFirstEngineInv ==
  ASSUME EngineInv, WarmFirst
  PROVE  EngineInv'
<1>. USE DEF EngineInv
<1>0. Types /\ cur \in 0 .. MaxRequests /\ 1 .. cur \subseteq Ids /\ Free \notin Ids /\ Free # Main
  BY Numbers
<1>1. /\ pc = "warm" /\ lock = Free /\ UNCHANGED <<lock, req, th>> /\ cur' = cur
      /\ cur \in 1 .. cur /\ th[cur] = "none"
  BY <1>0 DEF WarmFirst, threads, cur, OneThread
<1>2. \A i \in Ids : th[i] \notin Busy
  BY <1>0, <1>1 DEF LockHeld
<1>3. CASE poisoned
  <2>1. pc' = "dead" /\ UNCHANGED <<warm, kimi>>
    BY <1>3 DEF WarmFirst
  <2>. QED
    BY <1>0, <1>1, <1>2, <2>1
       DEF Types, Places, OneThread, LockHeld, Busy, Templates, Prompted, EngineInFront
<1>4. CASE ~poisoned
  <2>1. PICK u \in WarmUps(req[cur].model) :
          /\ warm' = u.warm
          /\ kimi' = IF u.ok THEN [kimi EXCEPT ![cur] = u.warm[1] \in Kimi] ELSE kimi
          /\ pc' = IF u.ok /\ req[cur].valid THEN req[cur].op ELSE "error"
    BY <1>4 DEF WarmFirst
  <2>2. /\ u.warm \in Seq(Models) /\ u.ok \in BOOLEAN
        /\ u.ok => u.warm[1] = req[cur].model
    BY <2>1, WarmUpFront DEF Types
  <2>3. /\ pc' \in {"plain", "stream", "error"}
        /\ pc' # "error" => u.ok
    BY <1>1, <2>1, <2>2 DEF OneThread
  <2>4. /\ kimi' \in [Ids -> BOOLEAN]
        /\ \A i \in 1 .. cur : i # cur => kimi'[i] = kimi[i]
        /\ u.ok => kimi'[cur] = (req[cur].model \in Kimi)
    <3>1. CASE u.ok
      <4>. DEFINE b == u.warm[1] \in Kimi
      <4>1. b \in BOOLEAN /\ kimi' = [kimi EXCEPT ![cur] = b]
        BY <2>1, <3>1
      <4>2. b = (req[cur].model \in Kimi)
        BY <2>2, <3>1
      <4>. HIDE DEF b
      <4>3. kimi' \in [Ids -> BOOLEAN] /\ kimi'[cur] = b
            /\ \A i \in 1 .. cur : i # cur => kimi'[i] = kimi[i]
        BY <1>0, <1>1, <4>1 DEF Types
      <4>. QED  BY <4>2, <4>3
    <3>2. CASE ~u.ok
      BY <2>1, <3>2, <1>0 DEF Types
    <3>. QED  BY <3>1, <3>2
  <2>5. Types'
    BY <1>0, <1>1, <2>1, <2>2, <2>3, <2>4 DEF Types, Places
  <2>6. OneThread' /\ LockHeld' /\ EngineInFront'
    BY <1>0, <1>1, <1>2, <2>3 DEF OneThread, LockHeld, EngineInFront, Busy
  <2>7. Templates'
    <3>. SUFFICES ASSUME NEW i \in 1 .. cur, Prompted(i)'
                  PROVE  kimi'[i] = (req[i].model \in Kimi)
      BY <1>1 DEF Templates
    <3>1. CASE i = cur
      BY <1>1, <2>3, <2>4, <3>1 DEF Prompted
    <3>2. CASE i # cur
      BY <1>1, <2>4, <3>2 DEF Templates, Prompted
    <3>. QED  BY <3>1, <3>2
  <2>. QED  BY <2>5, <2>6, <2>7
<1>. QED  BY <1>3, <1>4

(* A plain request takes the lock with its model in front, and lets go of  *)
(* it at its end.                                                          *)
LEMMA PlainEngineInv ==
  ASSUME EngineInv, PlainBegin \/ PlainEnd
  PROVE  EngineInv'
<1>. USE DEF EngineInv
<1>0. Types /\ cur \in 0 .. MaxRequests /\ 1 .. cur \subseteq Ids
      /\ Free \notin Ids /\ Free # Main /\ Main \notin Ids
  BY Numbers
<1>1. CASE PlainEnd
  <2>1. /\ pc = "generate" /\ pc' \in {"json", "error"} /\ lock = Main /\ lock' = Free
        /\ UNCHANGED <<warm, req, kimi, th>> /\ cur' = cur
    BY <1>1 DEF PlainEnd, threads, cur, LockHeld, Busy
  <2>. QED
    BY <1>0, <2>1
       DEF Types, Places, OneThread, LockHeld, Busy, Templates, Prompted, EngineInFront
<1>2. CASE PlainBegin
  <2>1. /\ pc = "plain" /\ lock = Free /\ UNCHANGED <<req, kimi, th>> /\ cur' = cur
        /\ cur \in 1 .. cur /\ th[cur] = "none"
    BY <1>0, <1>2 DEF PlainBegin, threads, cur, OneThread
  <2>2. \A i \in Ids : th[i] \notin Busy
    BY <1>0, <2>1 DEF LockHeld
  <2>3. \/ pc' \in {"dead", "error"} /\ lock' = Free /\ warm' \in Seq(Models)
        \/ /\ pc' = "generate" /\ lock' = Main /\ warm' \in Seq(Models)
           /\ warm' # <<>> /\ Head(warm') = req[cur].model
    <3>1. CASE poisoned
      BY <1>2, <2>1, <3>1 DEF PlainBegin, Types
    <3>2. CASE ~poisoned
      <4>1. PICK u \in WarmUps(req[cur].model) :
              /\ warm' = u.warm
              /\ lock' = IF u.ok THEN Main ELSE Free
              /\ pc' = IF u.ok THEN "generate" ELSE "error"
        BY <1>2, <3>2 DEF PlainBegin, WarmAgain
      <4>. QED  BY <4>1, WarmUpFront DEF Types
    <3>. QED  BY <3>1, <3>2
  <2>. QED
    BY <1>0, <2>1, <2>2, <2>3
       DEF Types, Places, OneThread, LockHeld, Busy, Templates, Prompted, EngineInFront
<1>. QED  BY <1>1, <1>2

(* A thread that ends, for whatever reason, lets go of the lock.           *)
LEMMA ThreadEnds ==
  ASSUME EngineInv, NEW i \in Ids, th[i] = "start" \/ th[i] = "generate",
         NEW t \in {"done", "panicked", "crashed"}, th' = [th EXCEPT ![i] = t],
         th[i] = "generate" \/ lock = Free, lock' = Free, warm' \in Seq(Models),
         th[i] = "generate" => warm' = warm,
         UNCHANGED <<pc, req, kimi>>
  PROVE  EngineInv'
<1>. USE DEF EngineInv
<1>0. Types /\ cur \in 0 .. MaxRequests /\ 1 .. cur \subseteq Ids /\ cur' = cur
      /\ Free \notin Ids /\ Free # Main /\ Main \notin Ids /\ i \in 1 .. cur
  <2>1. i <= cur
    BY Numbers DEF OneThread, Ids
  <2>. QED  BY <2>1, Numbers DEF cur, Ids
<1>1. lock = i \/ lock = Free
  BY DEF LockHeld, Busy
<1>2. \A j \in Ids : j # i => th[j] \notin Busy
  BY <1>0, <1>1 DEF LockHeld
<1>3. pc \notin Busy
  BY <1>0, <1>1 DEF LockHeld
<1>4. Types'
  BY <1>0 DEF Types, Lives
<1>5. th'[i] \notin Busy /\ \A j \in Ids : th'[j] \notin Busy
  BY <1>0, <1>2 DEF Types, Busy
<1>6. OneThread' /\ LockHeld' /\ EngineInFront'
  <2>1. OneThread'
    BY <1>0 DEF Types, OneThread
  <2>2. LockHeld'
    BY <1>0, <1>3, <1>5 DEF LockHeld
  <2>3. EngineInFront'
    BY <1>0, <1>3, <1>5 DEF EngineInFront
  <2>. QED  BY <2>1, <2>2, <2>3
<1>7. Templates'
  BY <1>0 DEF Types, Templates, Prompted
<1>. QED  BY <1>4, <1>6, <1>7

(* A thread that starts takes the free lock with its model in front.       *)
LEMMA ThreadEngineInv ==
  ASSUME EngineInv, NEW i \in Ids, Run(i)
  PROVE  EngineInv'
<1>. USE DEF EngineInv
<1>0. Types /\ cur \in 0 .. MaxRequests /\ 1 .. cur \subseteq Ids
      /\ Free \notin Ids /\ Free # Main /\ Main \notin Ids
  BY Numbers
<1>1. /\ th[i] \in {"start", "generate"} /\ UNCHANGED <<pc, req, kimi>> /\ cur' = cur
  BY DEF Run, Begin, Token, StepFails, Finish, cur
<1>2. i \in 1 .. cur
  BY <1>0, <1>1 DEF OneThread, Ids
<1>3. ASSUME th[i] = "generate", warm' = warm, UNCHANGED <<th, lock>>
      PROVE  EngineInv'
  BY <1>0, <1>1, <1>3
     DEF Types, OneThread, LockHeld, Templates, Prompted, EngineInFront
<1>4. ASSUME NEW t \in {"done", "panicked", "crashed"}, th' = [th EXCEPT ![i] = t],
             th[i] = "generate" \/ lock = Free, lock' = Free, warm' \in Seq(Models),
             th[i] = "generate" => warm' = warm
      PROVE  EngineInv'
  BY <1>1, <1>4, ThreadEnds
<1>5. CASE Begin(i)
  <2>1. th[i] = "start" /\ lock = Free
    BY <1>5 DEF Begin
  <2>2. CASE poisoned
    BY <1>4, <1>5, <2>1, <2>2, <1>0 DEF Begin, Types
  <2>3. CASE ~poisoned
    <3>1. PICK u \in WarmUps(req[i].model), acquired \in BOOLEAN :
            /\ warm' = u.warm
            /\ IF u.ok /\ acquired
               THEN lock' = i /\ th' = [th EXCEPT ![i] = "generate"]
               ELSE th' = [th EXCEPT ![i] = "done"] /\ lock' = Free
      BY <1>5, <2>3 DEF Begin, WarmAgain, End
    <3>2. /\ u.warm \in Seq(Models)
          /\ u.ok => u.warm # <<>> /\ Head(u.warm) = req[i].model
      BY <1>0, <3>1, WarmUpFront DEF Types
    <3>3. CASE u.ok /\ acquired
      <4>1. /\ lock' = i /\ th' = [th EXCEPT ![i] = "generate"] /\ warm' \in Seq(Models)
            /\ warm' # <<>> /\ Head(warm') = req[i].model
        BY <3>1, <3>2, <3>3
      <4>2. pc \notin Busy /\ \A j \in Ids : th[j] \notin Busy
        BY <1>0, <2>1 DEF LockHeld
      <4>3. Types'
        BY <1>0, <1>1, <4>1 DEF Types, Lives
      <4>4. OneThread' /\ LockHeld' /\ EngineInFront'
        <5>1. /\ th'[i] = "generate" /\ \A j \in Ids : j # i => th'[j] = th[j]
              /\ \A j \in Ids : th'[j] \in Busy <=> j = i
          BY <1>0, <4>1, <4>2 DEF Types, Busy
        <5>2. OneThread'
          BY <1>0, <1>1, <1>2, <2>1, <5>1 DEF OneThread
        <5>3. LockHeld'
          BY <1>0, <1>1, <4>1, <4>2, <5>1 DEF LockHeld
        <5>4. EngineInFront'
          BY <1>0, <1>1, <4>1, <4>2, <5>1 DEF EngineInFront
        <5>. QED  BY <5>2, <5>3, <5>4
      <4>5. Templates'
        BY <1>0, <1>1, <2>1, <4>1 DEF Types, Templates, Prompted
      <4>. QED  BY <4>3, <4>4, <4>5
    <3>4. CASE ~(u.ok /\ acquired)
      <4>1. th' = [th EXCEPT ![i] = "done"] /\ lock' = Free /\ warm' = u.warm
        BY <3>1, <3>4
      <4>. QED  BY <1>4, <2>1, <3>2, <4>1
    <3>. QED  BY <3>3, <3>4
  <2>. QED  BY <2>2, <2>3
<1>6. CASE StepFails(i) \/ Finish(i)
  <2>1. th[i] = "generate" /\ th' = [th EXCEPT ![i] = "done"] /\ lock' = Free /\ warm' = warm
    BY <1>6 DEF StepFails, Finish, End
  <2>. QED  BY <1>0, <1>4, <2>1 DEF Types
<1>7. ASSUME NEW t \in Tokens, Token(i, t)
      PROVE  EngineInv'
  <2>1. th[i] = "generate" /\ warm' = warm
    BY <1>7 DEF Token
  <2>2. \/ UNCHANGED <<th, lock>>
        \/ th' = [th EXCEPT ![i] = "panicked"] /\ lock' = Free
    BY <1>7 DEF Token
  <2>. QED  BY <1>0, <1>3, <1>4, <2>1, <2>2 DEF Types
<1>. QED  BY <1>5, <1>6, <1>7 DEF Run

(* A panic lets go of the lock, in the one that generates or while nobody  *)
(* does; who waits for ever keeps it, its engine and its template.         *)
LEMMA FaultEngineInv ==
  ASSUME EngineInv, Fault
  PROVE  EngineInv'
<1>. USE DEF EngineInv
<1>0. Types /\ cur \in 0 .. MaxRequests /\ 1 .. cur \subseteq Ids
      /\ Free \notin Ids /\ Free # Main /\ Main \notin Ids
  BY Numbers
<1>1. CASE MainPanics
  <2>1. /\ pc' = "dead" /\ lock' = Free /\ UNCHANGED <<warm, req, kimi, th>> /\ cur' = cur
        /\ pc \in {"query", "warm", "plain", "generate"}
        /\ pc = "generate" \/ lock = Free
    BY <1>1 DEF MainPanics, threads, cur
  <2>2. \A j \in Ids : th[j] \notin Busy
    BY <1>0, <2>1 DEF LockHeld, Busy
  <2>. QED
    BY <1>0, <2>1, <2>2
       DEF Types, Places, OneThread, LockHeld, Busy, Templates, Prompted, EngineInFront
<1>2. CASE MainHangs
  <2>1. pc = "generate" /\ pc' = "hung" /\ UNCHANGED <<warm, lock, req, kimi, th>> /\ cur' = cur
    BY <1>2 DEF MainHangs, threads, cur
  <2>. QED
    BY <1>0, <2>1
       DEF Types, Places, OneThread, LockHeld, Busy, Templates, Prompted, EngineInFront
<1>3. ASSUME NEW i \in Ids, ThreadPanics(i)
      PROVE  EngineInv'
  <2>1. /\ th' = [th EXCEPT ![i] = "crashed"] /\ lock' = Free /\ UNCHANGED <<warm, pc, req, kimi>>
        /\ th[i] = "generate" \/ (th[i] = "start" /\ lock = Free)
    BY <1>3 DEF ThreadPanics
  <2>. QED  BY <1>0, <2>1, ThreadEnds DEF Types
<1>4. ASSUME NEW i \in Ids, ThreadHangs(i)
      PROVE  EngineInv'
  <2>1. /\ th[i] = "generate" /\ th' = [th EXCEPT ![i] = "hung"]
        /\ UNCHANGED <<warm, lock, pc, req, kimi>> /\ cur' = cur
    BY <1>4 DEF ThreadHangs, cur
  <2>2. \A j \in Ids : j # i => th'[j] = th[j]
    BY <1>0, <2>1 DEF Types
  <2>3. th[i] \in Busy /\ th'[i] = "hung" /\ th'[i] \in Busy
    BY <1>0, <2>1 DEF Types, Busy
  <2>4. Types' /\ OneThread'
    BY <1>0, <2>1 DEF Types, Lives, OneThread
  <2>5. LockHeld' /\ EngineInFront'
    BY <1>0, <2>1, <2>2, <2>3 DEF LockHeld, EngineInFront
  <2>6. Templates'
    BY <1>0, <2>1, <2>2 DEF Templates, Prompted
  <2>. QED  BY <2>4, <2>5, <2>6
<1>. QED  BY <1>1, <1>2, <1>3, <1>4 DEF Fault

(* Whoever generates does so on its own engine and template: the invariant *)
(* says what the lock protects, and that nothing else needs protecting.    *)
LEMMA EngineInvNext ==
  ASSUME EngineInv, [Next]_vars
  PROVE  EngineInv'
<1>1. CASE UNCHANGED vars
  BY <1>1 DEF vars, threads, EngineInv, Types, OneThread, LockHeld, Templates, Prompted,
     EngineInFront, cur
<1>2. CASE Work \/ Client
  BY <1>2, MainKeepsEngineInv, WarmFirstEngineInv, PlainEngineInv DEF Work, Client
<1>3. ASSUME NEW i \in Ids, Run(i)
      PROVE  EngineInv'
  BY <1>3, ThreadEngineInv
<1>. QED  BY <1>1, <1>2, <1>3, FaultEngineInv DEF Next

(* Although handle lets go of the lock after it has chosen the template,   *)
(* every generation runs, alone, on the model its request names, and a     *)
(* chat with its template.                                                 *)
THEOREM EngineSafe == Spec => []EngineMatchesPrompt
<1>1. ASSUME EngineInv
      PROVE  EngineMatchesPrompt
  <2>1. DOMAIN req = 1 .. cur /\ 1 .. cur \subseteq Ids /\ Main \notin Ids
    BY <1>1, Numbers DEF EngineInv
  <2>. SUFFICES ASSUME NEW i \in 1 .. cur, th[i] \in Busy \/ (i = cur /\ pc \in Busy)
                PROVE  /\ lock = IF th[i] \in Busy THEN i ELSE Main
                       /\ warm # <<>> /\ Head(warm) = req[i].model
                       /\ kimi[i] = (Head(warm) \in Kimi)
    BY <2>1 DEF EngineMatchesPrompt
  <2>2. warm # <<>> /\ Head(warm) = req[i].model
    BY <1>1 DEF EngineInv, EngineInFront
  <2>3. kimi[i] = (req[i].model \in Kimi)
    BY <1>1 DEF EngineInv, Templates, Prompted, Busy
  <2>4. lock = IF th[i] \in Busy THEN i ELSE Main
    BY <1>1, <2>1 DEF EngineInv, LockHeld
  <2>. QED  BY <2>2, <2>3, <2>4
<1>. QED  BY EngineInvInit, EngineInvNext, <1>1, PTL DEF Spec

-----------------------------------------------------------------------------
(* The channel and its reader.                                             *)

Unit(m) == <<(m + 1) \div 2, 2 - (m % 2)>>
Units(n) == [m \in 1 .. n |-> Unit(m)]

(* The first n units of a stream are a sequence of n pairs.                *)
LEMMA UnitsType ==
  ASSUME NEW n \in Nat
  PROVE  /\ Units(n) \in Seq(Int \X Int) /\ Len(Units(n)) = n
         /\ \A m \in 1 .. n : Units(n)[m] = Unit(m)
<1>1. \A m \in 1 .. n : Unit(m) \in Int \X Int
  BY DEF Unit
<1>2. Units(n) \in [1 .. n -> Int \X Int]
  BY <1>1 DEF Units
<1>. QED  BY <1>2 DEF Units

(* Unit x of event e is in the place that the order of events gives it.    *)
LEMMA UnitOfEvent ==
  ASSUME NEW e \in Nat \ {0}, NEW x \in 1 .. 2
  PROVE  Unit(2 * (e - 1) + x) = <<e, x>>
<1>1. CASE x = 1
  <2>1. (2 * (e - 1) + 1 + 1) \div 2 = e /\ (2 * (e - 1) + 1) % 2 = 1
    OBVIOUS
  <2>. QED  BY <1>1, <2>1 DEF Unit
<1>2. CASE x = 2
  <2>1. (2 * (e - 1) + 2 + 1) \div 2 = e /\ (2 * (e - 1) + 2) % 2 = 0
    OBVIOUS
  <2>. QED  BY <1>2, <2>1 DEF Unit
<1>. QED  BY <1>1, <1>2

(* What one read adds continues the stream where the last one stopped.     *)
LEMMA ReadContinues ==
  ASSUME NEW e \in Nat \ {0}, NEW f \in 0 .. 2, NEW u \in f .. 2
  PROVE  Units(2 * (e - 1) + f) \o [j \in 1 .. (u - f) |-> <<e, f + j>>] = Units(2 * (e - 1) + u)
<1>. DEFINE n == 2 * (e - 1) + f
            more == [j \in 1 .. (u - f) |-> <<e, f + j>>]
            S == Int \X Int
<1>1. n \in Nat /\ u - f \in Nat /\ n + (u - f) = 2 * (e - 1) + u /\ n + (u - f) \in Nat
  OBVIOUS
<1>2. more \in Seq(S) /\ Len(more) = u - f
  <2>1. \A j \in 1 .. (u - f) : <<e, f + j>> \in S
    OBVIOUS
  <2>2. more \in [1 .. (u - f) -> S]
    BY <2>1
  <2>3. \A d \in Nat : \A s \in [1 .. d -> S] : s \in Seq(S) /\ Len(s) = d
    OBVIOUS
  <2>. HIDE DEF more, S
  <2>. QED  BY <1>1, <2>2, <2>3
<1>3. /\ Units(n) \o more \in Seq(S)
      /\ Len(Units(n) \o more) = n + (u - f)
      /\ \A i \in 1 .. n + (u - f) :
           (Units(n) \o more)[i] = IF i <= n THEN Units(n)[i] ELSE more[i - n]
  <2>. HIDE DEF n, more, S
  <2>1. Units(n) \in Seq(S) /\ Len(Units(n)) = n
    BY <1>1, UnitsType DEF S
  <2>2. /\ Units(n) \o more \in Seq(S)
        /\ Len(Units(n) \o more) = Len(Units(n)) + Len(more)
        /\ \A i \in 1 .. Len(Units(n)) + Len(more) :
             (Units(n) \o more)[i] = IF i <= Len(Units(n)) THEN Units(n)[i] ELSE more[i - Len(Units(n))]
    BY <1>2, <2>1, ConcatProperties
  <2>. QED  BY <1>1, <1>2, <2>1, <2>2
<1>4. ASSUME NEW i \in 1 .. n + (u - f)
      PROVE  (Units(n) \o more)[i] = Units(n + (u - f))[i]
  <2>1. Units(n + (u - f))[i] = Unit(i)
    BY <1>1, UnitsType
  <2>2. CASE i <= n
    <3>1. Units(n)[i] = Unit(i)
      BY <1>1, <2>2, UnitsType
    <3>. QED  BY <1>3, <2>1, <2>2, <3>1
  <2>3. CASE i > n
    <3>1. i - n \in 1 .. (u - f) /\ f + (i - n) \in 1 .. 2 /\ 2 * (e - 1) + (f + (i - n)) = i
      BY <1>1, <2>3
    <3>2. more[i - n] = <<e, f + (i - n)>>
      <4>. DEFINE k == i - n
      <4>1. k \in 1 .. (u - f)
        BY <3>1
      <4>. HIDE DEF k
      <4>2. more[k] = <<e, f + k>>
        BY <4>1
      <4>. QED  BY <4>2 DEF k
    <3>3. Unit(i) = <<e, f + (i - n)>>
      BY <3>1, UnitOfEvent
    <3>4. (Units(n) \o more)[i] = more[i - n]
      BY <1>1, <1>3, <2>3
    <3>. QED  BY <2>1, <3>2, <3>3, <3>4
  <2>4. i <= n \/ i > n
    BY <1>1
  <2>. HIDE DEF n, more
  <2>. QED  BY <2>2, <2>3, <2>4
<1>5. Units(n) \o more = Units(n + (u - f))
  <2>. HIDE DEF n, more
  <2>1. Units(n + (u - f)) \in Seq(S) /\ Len(Units(n + (u - f))) = n + (u - f)
    BY <1>1, UnitsType
  <2>. QED  BY <1>3, <1>4, <2>1, SeqEqual
<1>. QED  BY <1>1, <1>5

(* Fewer units are a prefix of more.                                       *)
LEMMA UnitsPrefix ==
  ASSUME NEW n \in Nat, NEW k \in Nat, n <= k
  PROVE  IsPrefix(Units(n), Units(k))
<1>1. /\ Units(n) \in Seq(Int \X Int) /\ Len(Units(n)) = n
      /\ Units(k) \in Seq(Int \X Int) /\ Len(Units(k)) = k
      /\ \A m \in 1 .. n : Units(n)[m] = Unit(m) /\ Units(k)[m] = Unit(m)
  BY UnitsType
<1>2. SubSeq(Units(n), 1, n) = Units(n)
  BY <1>1, SubSeqFull
<1>3. /\ SubSeq(Units(k), 1, n) \in Seq(Int \X Int)
      /\ Len(SubSeq(Units(k), 1, n)) = n
      /\ \A m \in 1 .. n : SubSeq(Units(k), 1, n)[m] = Units(k)[m]
  <2>1. \A m \in 1 .. n : Units(k)[m] \in Int \X Int
    BY <1>1, ElementOfSeq
  <2>2. /\ SubSeq(Units(k), 1, n) \in Seq(Int \X Int)
        /\ Len(SubSeq(Units(k), 1, n)) = IF 1 <= n THEN n - 1 + 1 ELSE 0
        /\ \A m \in 1 .. n - 1 + 1 : SubSeq(Units(k), 1, n)[m] = Units(k)[1 + m - 1]
    BY <2>1, SubSeqProperties
  <2>. QED  BY <2>2
<1>4. SubSeq(Units(k), 1, n) = Units(n)
  BY <1>1, <1>3, SeqEqual
<1>. QED  BY <1>1, <1>2, <1>4 DEF IsPrefix

Answers == {"none", "json", "error", "streamed", "lost"}

ChannelTypes ==
  /\ status \in [Ids -> Answers]
  /\ DOMAIN sent = Ids /\ \A i \in Ids : IsSeq(sent[i])
  /\ taken \in Nat /\ pos \in 0 .. 2

\* A thread that has not begun has sent nothing.
NothingSent == \A i \in Ids : th[i] \in {"none", "start"} => sent[i] = <<>>

ReadSoFar == IF taken = 0 THEN 0 ELSE 2 * (taken - 1) + pos

\* Where the reader is in its stream; it is new when the response begins.
Reading ==
  /\ pc \notin {"accept", "respond"} => taken = 0 /\ pos = 0 /\ got = <<>>
  /\ pc = "respond" =>
       /\ taken <= Len(sent[cur])
       /\ taken = 0 <=> pos = 0
       /\ got = Units(ReadSoFar)

\* A response that has ended has read all, and nothing more will be sent.
AllRead ==
  pc = "accept" /\ cur > 0 /\ status[cur] = "streamed" =>
    Gone(cur) /\ got = Units(2 * Len(sent[cur]))

StreamInv == EngineInv /\ ChannelTypes /\ NothingSent /\ Reading /\ AllRead

(* Nothing is sent or read before the first request.                       *)
LEMMA StreamInvInit ==
  ASSUME Init
  PROVE  StreamInv
<1>1. EngineInv
  BY EngineInvInit
<1>2. ChannelTypes /\ NothingSent
  <2>1. IsSeq(<<>>)
    BY ShortSeqs
  <2>. QED  BY <2>1 DEF Init, ChannelTypes, NothingSent, Answers
<1>. QED  BY <1>1, <1>2, ServeAssumption DEF Init, StreamInv, Reading, AllRead, cur

(* A thread only adds events to its own channel, while it lives.           *)
LEMMA ThreadSends ==
  ASSUME StreamInv, NEW i \in Ids, Run(i)
  PROVE  /\ th[i] \in {"start", "generate"}
         /\ th'[i] \in {"generate", "done", "panicked"}
         /\ \A j \in Ids : j # i => th'[j] = th[j] /\ sent'[j] = sent[j]
         /\ DOMAIN sent' = Ids
         /\ IsSeq(sent'[i]) /\ Len(sent[i]) <= Len(sent'[i])
         /\ UNCHANGED <<pc, req, status, taken, pos, got>>
<1>1. /\ DOMAIN sent = Ids /\ DOMAIN th = Ids
      /\ IsSeq(sent[i]) /\ Len(sent[i]) \in Nat
      /\ th[i] = "start" => sent[i] = <<>>
  BY SeqsGrow DEF StreamInv, EngineInv, Types, ChannelTypes, NothingSent
<1>2. UNCHANGED <<pc, req, status, taken, pos, got>>
  BY DEF Run, Begin, Token, StepFails, Finish, reader
<1>3. ASSUME NEW e, sent' = [sent EXCEPT ![i] = e], IsSeq(e), Len(sent[i]) <= Len(e),
             NEW t \in {"generate", "done", "panicked"}, th' = [th EXCEPT ![i] = t],
             th[i] \in {"start", "generate"}
      PROVE  /\ th[i] \in {"start", "generate"}
             /\ th'[i] \in {"generate", "done", "panicked"}
             /\ \A j \in Ids : j # i => th'[j] = th[j] /\ sent'[j] = sent[j]
             /\ DOMAIN sent' = Ids
             /\ IsSeq(sent'[i]) /\ Len(sent[i]) <= Len(sent'[i])
  BY <1>1, <1>3
<1>4. ASSUME UNCHANGED sent,
             NEW t \in {"generate", "done", "panicked"}, th' = [th EXCEPT ![i] = t],
             th[i] \in {"start", "generate"}
      PROVE  /\ th[i] \in {"start", "generate"}
             /\ th'[i] \in {"generate", "done", "panicked"}
             /\ \A j \in Ids : j # i => th'[j] = th[j] /\ sent'[j] = sent[j]
             /\ DOMAIN sent' = Ids
             /\ IsSeq(sent'[i]) /\ Len(sent[i]) <= Len(sent'[i])
  <2>1. sent' = sent
    BY <1>4
  <2>2. IsSeq(sent'[i]) /\ Len(sent[i]) <= Len(sent'[i]) /\ DOMAIN sent' = Ids
    BY <1>1, <2>1
  <2>. QED  BY <1>1, <1>4, <2>1, <2>2
<1>5. ASSUME NEW a, NEW b
      PROVE  /\ IsSeq(sent[i] \o <<a>>) /\ Len(sent[i]) <= Len(sent[i] \o <<a>>)
             /\ IsSeq(sent[i] \o <<a, b>>) /\ Len(sent[i]) <= Len(sent[i] \o <<a, b>>)
             /\ IsSeq(Append(sent[i], a)) /\ Len(sent[i]) <= Len(Append(sent[i], a))
             /\ th[i] = "start" => /\ Len(sent[i]) <= Len(<<a>>)
                                   /\ Len(sent[i]) <= Len(<<>>)
  <2>1. IsSeq(<<a>>) /\ Len(<<a>>) = 1 /\ IsSeq(<<a, b>>) /\ Len(<<a, b>>) = 2
        /\ Len(<<>>) = 0
    BY ShortSeqs
  <2>2. /\ IsSeq(sent[i] \o <<a>>) /\ Len(sent[i] \o <<a>>) = Len(sent[i]) + 1
        /\ IsSeq(sent[i] \o <<a, b>>) /\ Len(sent[i] \o <<a, b>>) = Len(sent[i]) + 2
        /\ IsSeq(Append(sent[i], a)) /\ Len(Append(sent[i], a)) = Len(sent[i]) + 1
    BY <1>1, <2>1, SeqsGrow
  <2>. QED  BY <1>1, <2>1, <2>2
<1>6. CASE Begin(i)
  <2>1. th[i] = "start"
    BY <1>6 DEF Begin
  <2>2. CASE poisoned
    <3>1. th' = [th EXCEPT ![i] = "panicked"] /\ UNCHANGED sent
      BY <1>6, <2>2 DEF Begin
    <3>. QED  BY <1>2, <1>4, <2>1, <3>1
  <2>3. CASE ~poisoned
    <3>1. \/ /\ th' = [th EXCEPT ![i] = "generate"]
             /\ sent' = [sent EXCEPT ![i] = IF req[i].chat THEN <<Role>> ELSE <<>>]
          \/ /\ th' = [th EXCEPT ![i] = "done"]
             /\ sent' = [sent EXCEPT ![i] = @ \o <<Error>>]
      BY <1>6, <2>3 DEF Begin, End
    <3>2. CASE th' = [th EXCEPT ![i] = "generate"]
                /\ sent' = [sent EXCEPT ![i] = IF req[i].chat THEN <<Role>> ELSE <<>>]
      <4>. DEFINE e == IF req[i].chat THEN <<Role>> ELSE <<>>
      <4>1. IsSeq(e) /\ Len(sent[i]) <= Len(e)
        BY <1>5, <2>1, ShortSeqs
      <4>2. sent' = [sent EXCEPT ![i] = e]
        BY <3>2
      <4>. HIDE DEF e
      <4>. QED  BY <1>2, <1>3, <2>1, <3>2, <4>1, <4>2
    <3>3. CASE th' = [th EXCEPT ![i] = "done"] /\ sent' = [sent EXCEPT ![i] = @ \o <<Error>>]
      <4>1. sent' = [sent EXCEPT ![i] = sent[i] \o <<Error>>]
        BY <3>3
      <4>. QED  BY <1>2, <1>3, <1>5, <2>1, <3>3, <4>1
    <3>. QED  BY <3>1, <3>2, <3>3
  <2>. QED  BY <2>2, <2>3
<1>7. CASE StepFails(i)
  <2>1. th[i] = "generate" /\ th' = [th EXCEPT ![i] = "done"]
        /\ sent' = [sent EXCEPT ![i] = sent[i] \o <<Error>>]
    BY <1>7 DEF StepFails, End
  <2>. QED  BY <1>2, <1>3, <1>5, <2>1
<1>8. CASE Finish(i)
  <2>1. th[i] = "generate" /\ th' = [th EXCEPT ![i] = "done"]
        /\ sent' = [sent EXCEPT ![i] = sent[i] \o <<Final, Done>>]
    BY <1>8 DEF Finish, End
  <2>. QED  BY <1>2, <1>3, <1>5, <2>1
<1>9. ASSUME NEW t \in Tokens, Token(i, t)
      PROVE  /\ th[i] \in {"start", "generate"}
             /\ th'[i] \in {"generate", "done", "panicked"}
             /\ \A j \in Ids : j # i => th'[j] = th[j] /\ sent'[j] = sent[j]
             /\ DOMAIN sent' = Ids
             /\ IsSeq(sent'[i]) /\ Len(sent[i]) <= Len(sent'[i])
  <2>1. th[i] = "generate"
    BY <1>9 DEF Token
  <2>2. \/ UNCHANGED <<th, sent>>
        \/ UNCHANGED th /\ \E d : sent' = [sent EXCEPT ![i] = Append(sent[i], d)]
        \/ th' = [th EXCEPT ![i] = "panicked"] /\ UNCHANGED sent
    BY <1>9 DEF Token
  <2>3. CASE UNCHANGED th /\ \E d : sent' = [sent EXCEPT ![i] = Append(sent[i], d)]
    <3>1. th' = [th EXCEPT ![i] = "generate"]
      BY <1>1, <2>1, <2>3 DEF StreamInv, EngineInv, Types
    <3>2. PICK d : sent' = [sent EXCEPT ![i] = Append(sent[i], d)]
      BY <2>3
    <3>. QED  BY <1>3, <1>5, <2>1, <3>1, <3>2
  <2>. QED  BY <1>1, <1>4, <2>1, <2>2, <2>3
<1>. QED  BY <1>2, <1>6, <1>7, <1>8, <1>9 DEF Run

(* Events that are added while a client reads stay behind its position.    *)
LEMMA ThreadStreamInv ==
  ASSUME StreamInv, NEW i \in Ids, Run(i)
  PROVE  StreamInv'
<1>0. EngineInv' /\ Types /\ cur' = cur /\ cur \in Nat /\ 1 .. cur \subseteq Ids
  BY ThreadEngineInv, ThreadSends, Numbers DEF StreamInv, EngineInv, cur
<1>1. ChannelTypes'
  BY ThreadSends DEF StreamInv, ChannelTypes
<1>2. NothingSent'
  BY ThreadSends DEF StreamInv, NothingSent
<1>3. \A j \in Ids : Len(sent[j]) \in Nat /\ Len(sent'[j]) \in Nat /\ Len(sent[j]) <= Len(sent'[j])
  BY <1>1, ThreadSends, SeqsGrow DEF StreamInv, ChannelTypes
<1>4. Reading'
  <2>1. pc = "respond" => cur \in Ids
    BY <1>0 DEF StreamInv, EngineInv, OneThread
  <2>. QED  BY <1>0, <1>3, <2>1, ThreadSends DEF StreamInv, Reading, ReadSoFar, ChannelTypes
<1>5. AllRead'
  <2>. SUFFICES ASSUME pc = "accept", cur > 0, status[cur] = "streamed"
                PROVE  Gone(cur)' /\ got = Units(2 * Len(sent'[cur]))
    BY <1>0, ThreadSends DEF AllRead
  <2>1. cur \in Ids /\ Gone(cur) /\ got = Units(2 * Len(sent[cur])) /\ cur # i
    BY <1>0, ThreadSends DEF StreamInv, AllRead, Gone
  <2>. QED  BY <1>0, <2>1, ThreadSends DEF Gone
<1>. QED  BY <1>0, <1>1, <1>2, <1>4, <1>5 DEF StreamInv

(* A read takes the units that follow; the response ends at the end.       *)
LEMMA ReaderStreamInv ==
  ASSUME StreamInv, ReadEnd \/ WriteFails \/ \E k \in 1 .. 2 : Read(k)
  PROVE  StreamInv'
<1>0. /\ EngineInv' /\ Types /\ cur' = cur /\ cur \in Nat /\ cur \in Ids
      /\ pc = "respond" /\ UNCHANGED <<req, th, sent>>
  <2>1. pc = "respond" /\ UNCHANGED <<req, th, sent>> /\ cur' = cur
    BY DEF ReadEnd, WriteFails, Read, threads, cur
  <2>. QED  BY <2>1, MainKeepsEngineInv, Numbers DEF StreamInv, EngineInv, OneThread, cur
<1>1. /\ Len(sent[cur]) \in Nat /\ taken \in 0 .. Len(sent[cur]) /\ pos \in 0 .. 2
      /\ taken = 0 <=> pos = 0
      /\ got = Units(ReadSoFar)
  BY <1>0, SeqsGrow DEF StreamInv, ChannelTypes, Reading
<1>2. NothingSent'
  BY <1>0 DEF StreamInv, NothingSent
<1>3. CASE ReadEnd
  <2>1. /\ UsedUp /\ taken = Len(sent[cur]) /\ Gone(cur) /\ pc' = "accept"
        /\ status' = [status EXCEPT ![cur] = "streamed"] /\ UNCHANGED <<taken, pos, got>>
    BY <1>3 DEF ReadEnd, reader
  <2>2. ReadSoFar = 2 * Len(sent[cur])
    BY <1>1, <2>1 DEF ReadSoFar, UsedUp
  <2>3. ChannelTypes'
    BY <1>0, <2>1 DEF StreamInv, ChannelTypes, Answers
  <2>. QED  BY <1>0, <1>1, <1>2, <2>1, <2>2, <2>3 DEF StreamInv, Reading, AllRead, Gone
<1>4. CASE WriteFails
  <2>1. /\ pc' = "accept" /\ status' = [status EXCEPT ![cur] = "lost"]
        /\ UNCHANGED <<taken, pos, got>>
    BY <1>4 DEF WriteFails, reader
  <2>2. ChannelTypes' /\ status'[cur] = "lost"
    BY <1>0, <2>1 DEF StreamInv, ChannelTypes, Answers
  <2>. QED  BY <1>0, <1>2, <2>1, <2>2 DEF StreamInv, Reading, AllRead
<1>5. ASSUME NEW k \in 1 .. 2, Read(k)
      PROVE  StreamInv'
  <2>. DEFINE event == IF UsedUp THEN taken + 1 ELSE taken
              from == IF UsedUp THEN 0 ELSE pos
              upto == IF from + k > 2 THEN 2 ELSE from + k
  <2>1. /\ event <= Len(sent[cur]) /\ taken' = event /\ pos' = upto
        /\ got' = got \o [j \in 1 .. (upto - from) |-> <<event, from + j>>]
        /\ UNCHANGED <<pc, status>>
    BY <1>5 DEF Read
  <2>2. /\ event \in Nat \ {0} /\ from \in 0 .. 2 /\ upto \in from .. 2 /\ upto # 0
        /\ ReadSoFar = 2 * (event - 1) + from
    BY <1>1 DEF UsedUp, ReadSoFar
  <2>. HIDE DEF event, from, upto
  <2>3. got' = Units(2 * (event - 1) + upto)
    BY <1>1, <2>1, <2>2, ReadContinues
  <2>4. ReadSoFar' = 2 * (event - 1) + upto
    BY <2>1, <2>2 DEF ReadSoFar
  <2>5. Reading'
    BY <1>0, <2>1, <2>2, <2>3, <2>4 DEF Reading
  <2>6. ChannelTypes' /\ AllRead'
    BY <1>0, <2>1, <2>2 DEF StreamInv, ChannelTypes, AllRead
  <2>. QED  BY <1>0, <1>2, <2>5, <2>6 DEF StreamInv
<1>. QED  BY <1>3, <1>4, <1>5

(* Every other step of main leaves the channels alone, and a new request   *)
(* gets a new reader.                                                      *)
LEMMA MainStreamInv ==
  ASSUME StreamInv,
         \/ \E r \in Requests : Accept(r)
         \/ ReadBody \/ Query \/ WarmFirst \/ PlainBegin \/ PlainEnd \/ Respond
         \/ Spawn \/ WriteHeaders
         \/ \E how \in {"stalled", "left"} : Leave(how)
  PROVE  StreamInv'
<1>0. EngineInv' /\ Types /\ cur \in 0 .. MaxRequests /\ 1 .. cur \subseteq Ids
  BY MainKeepsEngineInv, WarmFirstEngineInv, PlainEngineInv, Numbers DEF StreamInv, EngineInv
<1>1. ASSUME NEW r \in Requests, Accept(r)
      PROVE  StreamInv'
  <2>1. /\ pc' = "body" /\ UNCHANGED <<status, th, sent>>
        /\ taken' = 0 /\ pos' = 0 /\ got' = <<>>
    BY <1>1 DEF Accept, threads
  <2>. QED
    BY <1>0, <2>1 DEF StreamInv, ChannelTypes, NothingSent, Reading, AllRead
<1>2. CASE ReadBody \/ Query \/ WarmFirst \/ PlainBegin \/ PlainEnd
  <2>1. /\ pc \notin {"accept", "respond"} /\ pc' \notin {"accept", "respond"}
        /\ UNCHANGED <<status, th, sent, taken, pos, got>>
    <3>1. pc \in {"body", "query", "warm", "plain", "generate"}
          /\ UNCHANGED <<status, th, sent, taken, pos, got>>
      BY <1>2 DEF ReadBody, Query, WarmFirst, PlainBegin, PlainEnd, threads, reader
    <3>2. WarmFirst => pc' \in {"plain", "stream", "error", "dead"}
      <4>1. pc = "warm" => req[cur].op \in {"plain", "stream"}
        BY DEF StreamInv, EngineInv, OneThread
      <4>. QED  BY <4>1 DEF WarmFirst
    <3>3. ~WarmFirst => pc' \in {"query", "warm", "json", "error", "dead", "generate"}
      BY <1>2 DEF ReadBody, Query, PlainBegin, PlainEnd
    <3>. QED  BY <3>1, <3>2, <3>3
  <2>. QED
    BY <1>0, <2>1 DEF StreamInv, ChannelTypes, NothingSent, Reading, AllRead
<1>3. CASE Respond
  <2>1. /\ pc \in {"json", "error"} /\ pc' = "accept" /\ status' = [status EXCEPT ![cur] = pc]
        /\ UNCHANGED <<req, th, sent, taken, pos, got>> /\ cur' = cur
    BY <1>3 DEF Respond, threads, reader, cur
  <2>2. cur \in Ids
    BY <1>0, <2>1 DEF StreamInv, EngineInv, OneThread
  <2>3. ChannelTypes' /\ status'[cur] = pc
    BY <2>1, <2>2 DEF StreamInv, ChannelTypes, Answers
  <2>. QED
    BY <1>0, <2>1, <2>3 DEF StreamInv, NothingSent, Reading, AllRead
<1>4. CASE Spawn
  <2>1. /\ pc = "stream" /\ pc' = "headers" /\ th' = [th EXCEPT ![cur] = "start"]
        /\ UNCHANGED <<req, status, sent, taken, pos, got>> /\ cur' = cur
    BY <1>4 DEF Spawn, reader, cur
  <2>2. cur \in Ids /\ th[cur] = "none"
    BY <1>0, <2>1 DEF StreamInv, EngineInv, OneThread
  <2>3. ChannelTypes' /\ NothingSent'
    BY <2>1, <2>2, <1>0 DEF StreamInv, ChannelTypes, NothingSent, Types
  <2>. QED  BY <1>0, <2>1, <2>3 DEF StreamInv, Reading, AllRead
<1>5. CASE WriteHeaders
  <2>1. /\ pc = "headers" /\ UNCHANGED <<req, th, sent, taken, pos, got>> /\ cur' = cur
        /\ \/ pc' = "respond" /\ UNCHANGED status
           \/ pc' = "accept" /\ status' = [status EXCEPT ![cur] = "lost"]
    BY <1>5 DEF WriteHeaders, threads, reader, cur
  <2>2. cur \in Ids
    BY <1>0, <2>1 DEF StreamInv, EngineInv, OneThread
  <2>3. ChannelTypes' /\ NothingSent'
    BY <2>1, <2>2 DEF StreamInv, ChannelTypes, NothingSent, Answers
  <2>4. Len(sent[cur]) \in Nat /\ Units(0) = <<>>
    BY <2>2, SeqsGrow, UnitsType DEF StreamInv, ChannelTypes
  <2>5. Reading'
    BY <2>1, <2>4 DEF StreamInv, Reading, ReadSoFar
  <2>6. AllRead'
    <3>1. status \in [Ids -> Answers]
      BY DEF StreamInv, ChannelTypes
    <3>. QED  BY <2>1, <2>2, <3>1 DEF AllRead
  <2>. QED  BY <1>0, <2>3, <2>5, <2>6 DEF StreamInv
<1>6. CASE \E how \in {"stalled", "left"} : Leave(how)
  <2>1. pc # "accept" /\ UNCHANGED <<pc, req, status, th, sent, taken, pos, got>> /\ cur' = cur
    BY <1>6 DEF Leave, threads, cur
  <2>. QED
    BY <1>0, <2>1 DEF StreamInv, ChannelTypes, NothingSent, Reading, ReadSoFar, AllRead
<1>. QED  BY <1>1, <1>2, <1>3, <1>4, <1>5, <1>6

(* A fault sends nothing and reads nothing; a thread it ends had not ended. *)
LEMMA FaultLeaves ==
  ASSUME StreamInv, Fault
  PROVE  /\ UNCHANGED <<req, status, out, printed, sent, taken, pos, got>>
         /\ poisoned => poisoned'
         /\ pc' = pc \/ (pc \notin {"accept", "respond"} /\ pc' \in {"hung", "dead"})
         /\ th' \in [Ids -> Lives]
         /\ \A j \in Ids : \/ th'[j] = th[j]
                           \/ th[j] = "generate" /\ th'[j] = "hung"
                           \/ /\ th[j] \in {"start", "generate"} /\ th'[j] = "crashed"
                              /\ poisoned'
<1>0. th \in [Ids -> Lives]
  BY DEF StreamInv, EngineInv, Types
<1>1. CASE MainPanics \/ MainHangs
  BY <1>0, <1>1 DEF MainPanics, MainHangs, threads, reader
<1>2. ASSUME NEW i \in Ids, ThreadPanics(i) \/ ThreadHangs(i)
      PROVE  /\ UNCHANGED <<req, status, out, printed, sent, taken, pos, got, pc>>
             /\ poisoned => poisoned'
             /\ th' \in [Ids -> Lives]
             /\ \A j \in Ids : \/ th'[j] = th[j]
                               \/ th[j] = "generate" /\ th'[j] = "hung"
                               \/ /\ th[j] \in {"start", "generate"} /\ th'[j] = "crashed"
                                  /\ poisoned'
  <2>1. CASE ThreadPanics(i)
    BY <1>0, <2>1 DEF ThreadPanics, reader, Lives
  <2>2. CASE ThreadHangs(i)
    BY <1>0, <2>2 DEF ThreadHangs, reader, Lives
  <2>. QED  BY <1>2, <2>1, <2>2
<1>. QED  BY <1>1, <1>2 DEF Fault

(* What was read before a fault stays read.                                *)
LEMMA FaultStreamInv ==
  ASSUME StreamInv, Fault
  PROVE  StreamInv'
<1>1. EngineInv' /\ cur' = cur /\ cur \in 0 .. MaxRequests
  BY FaultEngineInv, FaultLeaves, Numbers DEF StreamInv, EngineInv, cur
<1>2. ChannelTypes'
  BY FaultLeaves DEF StreamInv, ChannelTypes
<1>3. NothingSent'
  BY FaultLeaves DEF StreamInv, NothingSent
<1>4. Reading'
  BY <1>1, FaultLeaves DEF StreamInv, Reading, ReadSoFar
<1>5. AllRead'
  <2>. SUFFICES ASSUME pc = "accept", cur > 0, status[cur] = "streamed"
                PROVE  Gone(cur)' /\ got = Units(2 * Len(sent[cur]))
    BY <1>1, FaultLeaves DEF AllRead
  <2>1. Gone(cur) /\ got = Units(2 * Len(sent[cur])) /\ cur \in Ids
    BY <1>1 DEF StreamInv, AllRead, Ids
  <2>2. th'[cur] = th[cur]
    BY <2>1, FaultLeaves DEF Gone
  <2>. QED  BY <1>1, <2>1, <2>2 DEF Gone
<1>. QED  BY <1>1, <1>2, <1>3, <1>4, <1>5 DEF StreamInv

(* Every step keeps the channels and their readers.                        *)
LEMMA StreamInvNext ==
  ASSUME StreamInv, [Next]_vars
  PROVE  StreamInv'
<1>1. CASE UNCHANGED vars
  <2>1. EngineInv'
    BY <1>1, EngineInvNext DEF StreamInv
  <2>. QED
    BY <1>1, <2>1 DEF vars, threads, reader, StreamInv, ChannelTypes, NothingSent, Reading, AllRead,
       ReadSoFar, Gone, cur
<1>2. CASE Work \/ Client
  BY <1>2, MainStreamInv, ReaderStreamInv DEF Work, Client
<1>3. ASSUME NEW i \in Ids, Run(i)
      PROVE  StreamInv'
  BY <1>3, ThreadStreamInv
<1>. QED  BY <1>1, <1>2, <1>3, FaultStreamInv DEF Next

(* A client reads the events of its own stream, all units in order and     *)
(* none twice, however the reads are cut and however they interleave with  *)
(* the thread that sends; when the response ends it has all that was sent. *)
THEOREM ClientReadsWholeStream == Spec => []ClientGetsStream
<1>1. ASSUME StreamInv
      PROVE  ClientGetsStream
  <2>. SUFFICES ASSUME pc = "respond" \/ (cur > 0 /\ pc = "accept" /\ status[cur] = "streamed")
                PROVE  /\ IsPrefix(got, Units(2 * Len(sent[cur])))
                       /\ pc = "accept" => got = Units(2 * Len(sent[cur]))
    BY DEF ClientGetsStream, Units, Unit
  <2>1. cur \in Ids
    BY <1>1, Numbers DEF StreamInv, EngineInv, OneThread
  <2>2. Len(sent[cur]) \in Nat
    BY <1>1, <2>1, SeqsGrow DEF StreamInv, ChannelTypes
  <2>3. CASE pc = "respond"
    <3>1. /\ got = Units(ReadSoFar) /\ ReadSoFar \in Nat /\ ReadSoFar <= 2 * Len(sent[cur])
      BY <1>1, <2>2, <2>3 DEF StreamInv, Reading, ReadSoFar, ChannelTypes
    <3>. QED  BY <2>2, <2>3, <3>1, UnitsPrefix
  <2>4. CASE pc = "accept"
    <3>1. got = Units(2 * Len(sent[cur]))
      BY <1>1, <2>4 DEF StreamInv, AllRead
    <3>. QED  BY <2>2, <3>1, UnitsPrefix
  <2>. QED  BY <2>3, <2>4
<1>. QED  BY StreamInvInit, StreamInvNext, <1>1, PTL DEF Spec

-----------------------------------------------------------------------------
(* Streams are whole.                                                      *)

\* The tokens ids, and so all generated before them, end between characters.
Whole(ids) == \A k \in 0 .. Len(ids) : Bad \notin Range(Decode(SubSeq(ids, 1, k)))

(* If they do with a token more, they did without it.                      *)
LEMMA WholeStep ==
  ASSUME NEW ids \in Seq(Tokens), NEW t \in Tokens, Whole(Append(ids, t))
  PROVE  Whole(ids) /\ Bad \notin Range(Decode(ids))
<1>. DEFINE more == Append(ids, t)
<1>1. /\ more \in Seq(Tokens) /\ Len(more) = Len(ids) + 1 /\ Len(ids) \in Nat
      /\ \A k \in 1 .. Len(ids) : more[k] = ids[k]
  BY AppendProperties
<1>. HIDE DEF more
<1>2. ASSUME NEW k \in 0 .. Len(ids)
      PROVE  SubSeq(more, 1, k) = SubSeq(ids, 1, k)
  <2>1. /\ SubSeq(more, 1, k) \in Seq(Tokens) /\ Len(SubSeq(more, 1, k)) = k
        /\ \A i \in 1 .. k : SubSeq(more, 1, k)[i] = more[i]
    <3>1. k \in 0 .. Len(more)
      BY <1>1
    <3>. QED  BY <1>1, <3>1, SubSeqPrefixes
  <2>2. /\ SubSeq(ids, 1, k) \in Seq(Tokens) /\ Len(SubSeq(ids, 1, k)) = k
        /\ \A i \in 1 .. k : SubSeq(ids, 1, k)[i] = ids[i]
    BY SubSeqPrefixes
  <2>3. \A i \in 1 .. Len(SubSeq(ids, 1, k)) : SubSeq(more, 1, k)[i] = SubSeq(ids, 1, k)[i]
    BY <1>1, <2>1, <2>2
  <2>. QED  BY <2>1, <2>2, <2>3, SeqEqual
<1>3. \A k \in 0 .. Len(ids) : Bad \notin Range(Decode(SubSeq(ids, 1, k)))
  <2>1. \A k \in 0 .. Len(more) : Bad \notin Range(Decode(SubSeq(more, 1, k)))
    BY DEF Whole, more
  <2>2. \A k \in 0 .. Len(ids) : k \in 0 .. Len(more)
    BY <1>1
  <2>. QED  BY <1>2, <2>1, <2>2
<1>4. SubSeq(ids, 1, Len(ids)) = ids /\ Len(ids) \in 0 .. Len(ids)
  BY <1>1, SubSeqFull
<1>. QED  BY <1>3, <1>4 DEF Whole

(* The events of a stream can be told apart.                               *)
LEMMA Kinds ==
  /\ Role # Done /\ Role # Error /\ Final # Role /\ Final # Done /\ Final # Error
  /\ Done # Error
  /\ \A x : Delta(x) # Role /\ Delta(x) # Done /\ Delta(x) # Error
<1>1. /\ Role.kind = "role" /\ Final.kind = "final" /\ Done.kind = "[DONE]" /\ Error.kind = "error"
      /\ \A x : Delta(x).kind = "delta"
  BY DEF Role, Final, Done, Error, Delta
<1>. QED  BY <1>1

\* The role comes first and only in a chat, the end last and only when it is done.
Ordered(s, chat, done) ==
  \A k \in DOMAIN s : /\ s[k] = Role => k = 1 /\ chat
                      /\ s[k] \in {Done, Error} => k = Len(s) /\ done

(* An event that is neither may come at any time before the end.           *)
LEMMA OrderedAppend ==
  ASSUME NEW s \in Seq(Events), NEW e \in Events, NEW chat, Ordered(s, chat, FALSE), e # Role
  PROVE  /\ Append(s, e) \in Seq(Events) /\ Append(s, e) # <<>> /\ Last(Append(s, e)) = e
         /\ e \notin {Done, Error} => Ordered(Append(s, e), chat, FALSE)
         /\ Ordered(Append(s, e), chat, TRUE)
<1>1. /\ Append(s, e) \in Seq(Events) /\ Len(Append(s, e)) = Len(s) + 1 /\ Len(s) \in Nat
      /\ \A k \in 1 .. Len(s) : Append(s, e)[k] = s[k]
      /\ Append(s, e)[Len(s) + 1] = e /\ DOMAIN Append(s, e) = 1 .. Len(s) + 1
      /\ DOMAIN s = 1 .. Len(s)
  <2>. HIDE DEF Events
  <2>. QED  BY AppendProperties
<1>2. \A k \in 1 .. Len(s) : /\ Append(s, e)[k] = Role => k = 1 /\ chat
                             /\ Append(s, e)[k] \notin {Done, Error}
  BY <1>1 DEF Ordered
<1>3. Append(s, e) # <<>> /\ Last(Append(s, e)) = e
  BY <1>1 DEF Last
<1>4. \A k \in 1 .. Len(s) + 1 : k \in 1 .. Len(s) \/ k = Len(s) + 1
  BY <1>1
<1>5. e \notin {Done, Error} => Ordered(Append(s, e), chat, FALSE)
  BY <1>1, <1>2, <1>4 DEF Ordered
<1>6. Ordered(Append(s, e), chat, TRUE)
  BY <1>1, <1>2, <1>4 DEF Ordered
<1>. QED  BY <1>1, <1>3, <1>5, <1>6

StreamTypes ==
  /\ out \in [Ids -> Seq(Tokens)] /\ printed \in [Ids -> Text] /\ sent \in [Ids -> Seq(Events)]

\* The stream of request i: empty before it begins; while all is whole, the text
\* printed and the deltas are what the tokens decode to; it ends once.
StreamOf(i) ==
  /\ th[i] \in {"none", "start"} => out[i] = <<>> /\ printed[i] = <<>> /\ sent[i] = <<>>
  /\ Whole(out[i]) => printed[i] = Decode(out[i]) /\ TextOf(sent[i]) = printed[i]
  /\ th[i] = "generate" => Ordered(sent[i], req[i].chat, FALSE)
  /\ Ordered(sent[i], req[i].chat, TRUE)
  /\ th[i] = "done" => sent[i] # <<>> /\ Last(sent[i]) \in {Done, Error}
  /\ th[i] \in {"crashed", "panicked"} => poisoned
  /\ th[i] = "panicked" => out[i] = <<>> \/ ~Whole(out[i])

WholeInv == StreamInv /\ StreamTypes /\ \A i \in Ids : StreamOf(i)

(* No tokens make no text, and no events send any.                         *)
LEMMA EmptyTexts == TextOf(<<>>) = <<>> /\ Decode(<<>>) = <<>>
<1>1. <<>> \in Seq(Events) /\ <<>> \in Seq(Tokens)
  OBVIOUS
<1>2. TextOf(<<>>) = <<>>
  BY <1>1, TextOfStep
<1>3. Decode(<<>>) = <<>>
  BY <1>1, DecodeGrows
<1>. QED  BY <1>2, <1>3

(* Streams are empty at first.                                             *)
LEMMA WholeInvInit ==
  ASSUME Init
  PROVE  WholeInv
<1>1. StreamInv
  BY StreamInvInit
<1>2. <<>> \in Text /\ <<>> \in Seq(Tokens) /\ <<>> \in Seq(Events)
  BY DEF Text
<1>3. StreamTypes
  BY <1>2 DEF Init, StreamTypes
<1>4. ASSUME NEW i \in Ids
      PROVE  StreamOf(i)
  <2>1. th[i] = "none" /\ out[i] = <<>> /\ printed[i] = <<>> /\ sent[i] = <<>>
    BY DEF Init
  <2>2. Ordered(<<>>, req[i].chat, TRUE)
    BY DEF Ordered
  <2>. QED  BY <2>1, <2>2, EmptyTexts DEF StreamOf
<1>. QED  BY <1>1, <1>3, <1>4 DEF WholeInv

(* main keeps off the streams; a new request has an empty one.             *)
LEMMA MainWholeInv ==
  ASSUME WholeInv, Work \/ Client
  PROVE  WholeInv'
<1>0. /\ StreamInv' /\ DOMAIN req = 1 .. cur /\ cur \in Nat
      /\ \A i \in Ids : i > cur => th[i] = "none"
      /\ th \in [Ids -> Lives]
  <2>1. StreamInv'
    BY MainStreamInv, ReaderStreamInv DEF WholeInv, Work, Client
  <2>. QED  BY <2>1, Numbers DEF WholeInv, StreamInv, EngineInv, OneThread, Types
<1>1. /\ UNCHANGED <<out, printed, sent, poisoned>>
      /\ UNCHANGED th \/ (pc = "stream" /\ th' = [th EXCEPT ![cur] = "start"])
      /\ UNCHANGED req \/ \E r \in Requests : req' = Append(req, r)
  BY DEF Work, Client, ReadBody, Query, WarmFirst, PlainBegin, PlainEnd, Respond, Spawn,
     WriteHeaders, ReadEnd, Read, WriteFails, Leave, Accept, threads
<1>2. StreamTypes'
  BY <1>1 DEF WholeInv, StreamTypes
<1>3. ASSUME NEW i \in Ids
      PROVE  StreamOf(i)'
  <2>1. CASE th[i] = "none"
    <3>1. th'[i] \in {"none", "start"}
      BY <1>0, <1>1, <2>1
    <3>2. out'[i] = <<>> /\ printed'[i] = <<>> /\ sent'[i] = <<>>
      BY <1>1, <2>1 DEF WholeInv, StreamOf
    <3>3. Ordered(<<>>, req'[i].chat, TRUE)
      BY DEF Ordered
    <3>. QED  BY <3>1, <3>2, <3>3, EmptyTexts DEF StreamOf
  <2>2. CASE th[i] # "none"
    <3>1. th'[i] = th[i]
      <4>1. pc = "stream" => th[cur] = "none"
        BY DEF WholeInv, StreamInv, EngineInv, OneThread
      <4>. QED  BY <1>0, <1>1, <2>2, <4>1
    <3>2. req'[i] = req[i]
      <4>1. i \in 1 .. cur /\ req \in Seq(Requests) /\ i \in 1 .. Len(req)
        BY <1>0, <2>2 DEF WholeInv, StreamInv, EngineInv, Types, Ids, cur
      <4>2. \A r \in Requests : Append(req, r)[i] = req[i]
        BY <4>1, AppendProperties
      <4>3. CASE UNCHANGED req
        BY <4>3
      <4>4. CASE \E r \in Requests : req' = Append(req, r)
        <5>1. PICK r \in Requests : req' = Append(req, r)
          BY <4>4
        <5>2. Append(req, r)[i] = req[i]
          BY <4>2
        <5>. QED  BY <5>1, <5>2
      <4>. QED  BY <1>1, <4>3, <4>4
    <3>. QED  BY <1>1, <3>1, <3>2 DEF WholeInv, StreamOf
  <2>. QED  BY <2>1, <2>2
<1>. QED  BY <1>0, <1>2, <1>3 DEF WholeInv

(* Whatever the end of a stream is, the text before it stays what it is.   *)
LEMMA EndWhole ==
  ASSUME WholeInv, NEW i \in Ids, th[i] = "generate",
         \/ End(i, <<Error>>) \/ End(i, <<Final, Done>>),
         UNCHANGED <<out, printed, poisoned, req>>
  PROVE  StreamTypes' /\ StreamOf(i)'
<1>. DEFINE s == sent[i]
<1>1. /\ s \in Seq(Events) /\ Ordered(s, req[i].chat, FALSE)
      /\ th \in [Ids -> Lives]
      /\ Whole(out[i]) => printed[i] = Decode(out[i]) /\ TextOf(s) = printed[i]
  BY DEF WholeInv, StreamTypes, StreamOf, StreamInv, EngineInv, Types
<1>2. Error \in Events /\ Done \in Events /\ Final \in Events
  BY DEF Events
<1>. HIDE DEF s
<1>3. PICK e \in {<<Error>>, <<Final, Done>>} :
        sent' = [sent EXCEPT ![i] = s \o e] /\ th' = [th EXCEPT ![i] = "done"]
  BY DEF End, s
<1>4. /\ s \o e \in Seq(Events) /\ s \o e # <<>> /\ Last(s \o e) \in {Done, Error}
      /\ Ordered(s \o e, req[i].chat, TRUE) /\ TextOf(s \o e) = TextOf(s)
  <2>1. CASE e = <<Error>>
    <3>1. s \o e = Append(s, Error)
      BY <1>1, <1>2, <2>1, AppendIsConcat
    <3>2. /\ Append(s, Error) \in Seq(Events) /\ Append(s, Error) # <<>>
          /\ Last(Append(s, Error)) = Error
          /\ Ordered(Append(s, Error), req[i].chat, TRUE)
      BY <1>1, <1>2, Kinds, OrderedAppend
    <3>3. TextOf(Append(s, Error)) = TextOf(s)
      BY <1>1, TextOfStep
    <3>. QED  BY <3>1, <3>2, <3>3
  <2>2. CASE e = <<Final, Done>>
    <3>. DEFINE r == Append(s, Final)
    <3>1. r \in Seq(Events) /\ Ordered(r, req[i].chat, FALSE)
      BY <1>1, <1>2, Kinds, OrderedAppend
    <3>2. s \o e = Append(r, Done)
      <4>1. r = s \o <<Final>>
        BY <1>1, <1>2, AppendIsConcat
      <4>2. Append(r, Done) = r \o <<Done>>
        BY <1>2, <3>1, AppendIsConcat
      <4>3. <<Final>> \in Seq(Events) /\ <<Done>> \in Seq(Events)
        BY <1>2
      <4>4. (s \o <<Final>>) \o <<Done>> = s \o (<<Final>> \o <<Done>>)
        BY <1>1, <4>3, ConcatAssociative
      <4>5. <<Final>> \o <<Done>> = <<Final, Done>>
        <5>1. Append(<<Final>>, Done) = <<Final>> \o <<Done>>
          BY <1>2, <4>3, AppendIsConcat
        <5>2. /\ Append(<<Final>>, Done) \in Seq(Events) /\ Len(Append(<<Final>>, Done)) = 2
              /\ Append(<<Final>>, Done)[1] = Final /\ Append(<<Final>>, Done)[2] = Done
          <6>1. Len(<<Final>>) = 1 /\ <<Final>>[1] = Final
            OBVIOUS
          <6>. QED  BY <1>2, <4>3, <6>1, AppendProperties
        <5>3. /\ <<Final, Done>> \in Seq(Events) /\ Len(<<Final, Done>>) = 2
              /\ <<Final, Done>>[1] = Final /\ <<Final, Done>>[2] = Done
          BY <1>2
        <5>4. \A k \in 1 .. Len(<<Final, Done>>) : <<Final, Done>>[k] = Append(<<Final>>, Done)[k]
          BY <5>2, <5>3
        <5>. QED  BY <5>1, <5>2, <5>3, <5>4, SeqEqual
      <4>. QED  BY <2>2, <4>1, <4>2, <4>4, <4>5
    <3>3. TextOf(r) = TextOf(s) /\ TextOf(Append(r, Done)) = TextOf(r)
      <4>1. TextOf(r) = TextOf(s)
        BY <1>1, TextOfStep
      <4>. HIDE DEF r
      <4>. QED  BY <3>1, <4>1, TextOfStep
    <3>. HIDE DEF r
    <3>4. /\ Append(r, Done) \in Seq(Events) /\ Append(r, Done) # <<>>
          /\ Last(Append(r, Done)) = Done
          /\ Ordered(Append(r, Done), req[i].chat, TRUE)
      BY <1>2, <3>1, Kinds, OrderedAppend
    <3>. QED  BY <3>2, <3>3, <3>4
  <2>. QED  BY <2>1, <2>2
<1>. DEFINE q == s \o e
<1>5. sent' = [sent EXCEPT ![i] = q] /\ q \in Seq(Events)
  BY <1>3, <1>4
<1>6. /\ q # <<>> /\ Last(q) \in {Done, Error}
      /\ Ordered(q, req[i].chat, TRUE) /\ TextOf(q) = TextOf(s)
  BY <1>4
<1>. HIDE DEF q
<1>7. StreamTypes' /\ sent'[i] = q /\ th'[i] = "done"
  BY <1>1, <1>3, <1>5 DEF WholeInv, StreamTypes
<1>8. StreamOf(i)'
  BY <1>1, <1>6, <1>7 DEF StreamOf
<1>. QED  BY <1>7, <1>8

(* A thread that begins sends the role of a chat, or its one event.        *)
LEMMA BeginWhole ==
  ASSUME WholeInv, NEW i \in Ids, Begin(i)
  PROVE  StreamTypes' /\ StreamOf(i)'
<1>1. /\ th[i] = "start" /\ out[i] = <<>> /\ printed[i] = <<>> /\ sent[i] = <<>>
      /\ th \in [Ids -> Lives] /\ StreamTypes
      /\ UNCHANGED <<poisoned, req, out, printed>>
  BY DEF WholeInv, StreamInv, EngineInv, Types, StreamOf, Begin
<1>2. TextOf(<<>>) = <<>> /\ Decode(<<>>) = <<>>
  BY EmptyTexts
<1>3. ASSUME NEW e \in {Role, Error}
      PROVE  /\ <<e>> \in Seq(Events) /\ Len(<<e>>) = 1 /\ DOMAIN <<e>> = {1} /\ <<e>>[1] = e
             /\ <<e>> # <<>> /\ Last(<<e>>) = e /\ TextOf(<<e>>) = <<>>
  <2>1. e \in Events
    BY DEF Events
  <2>2. <<e>> \in Seq(Events) /\ Len(<<e>>) = 1 /\ DOMAIN <<e>> = {1} /\ <<e>>[1] = e /\ <<e>> # <<>>
    BY <2>1
  <2>3. <<>> \in Seq(Events) /\ <<e>> = Append(<<>>, e)
    BY <2>1
  <2>4. TextOf(Append(<<>>, e)) = TextOf(<<>>)
    BY <2>3, TextOfStep
  <2>. QED  BY <1>2, <2>2, <2>3, <2>4 DEF Last
<1>4. CASE poisoned
  <2>1. th' = [th EXCEPT ![i] = "panicked"] /\ UNCHANGED sent
    BY <1>4 DEF Begin
  <2>2. StreamTypes'
    BY <1>1, <2>1 DEF StreamTypes
  <2>3. Ordered(<<>>, req[i].chat, TRUE) /\ Ordered(<<>>, req[i].chat, FALSE)
    BY DEF Ordered
  <2>4. th'[i] = "panicked"
    BY <1>1, <2>1
  <2>. QED  BY <1>1, <1>2, <1>4, <2>1, <2>2, <2>3, <2>4 DEF StreamOf
<1>5. CASE ~poisoned
  <2>1. \/ /\ th' = [th EXCEPT ![i] = "generate"]
           /\ sent' = [sent EXCEPT ![i] = IF req[i].chat THEN <<Role>> ELSE <<>>]
        \/ /\ th' = [th EXCEPT ![i] = "done"]
           /\ sent' = [sent EXCEPT ![i] = @ \o <<Error>>]
    BY <1>5 DEF Begin, End
  <2>2. CASE /\ th' = [th EXCEPT ![i] = "generate"]
             /\ sent' = [sent EXCEPT ![i] = IF req[i].chat THEN <<Role>> ELSE <<>>]
    <3>. DEFINE s == IF req[i].chat THEN <<Role>> ELSE <<>>
    <3>1. s \in Seq(Events) /\ TextOf(s) = <<>>
      BY <1>2, <1>3
    <3>2. Ordered(s, req[i].chat, FALSE) /\ Ordered(s, req[i].chat, TRUE)
      BY <1>3, Kinds DEF Ordered
    <3>3. sent' = [sent EXCEPT ![i] = s]
      BY <2>2
    <3>. HIDE DEF s
    <3>4. StreamTypes' /\ sent'[i] = s /\ th'[i] = "generate"
      BY <1>1, <2>2, <3>1, <3>3 DEF StreamTypes
    <3>. QED  BY <1>1, <1>2, <3>1, <3>2, <3>4 DEF StreamOf
  <2>3. CASE /\ th' = [th EXCEPT ![i] = "done"]
             /\ sent' = [sent EXCEPT ![i] = @ \o <<Error>>]
    <3>1. <<>> \o <<Error>> = <<Error>>
      BY <1>3, ConcatEmptySeq
    <3>2. sent' = [sent EXCEPT ![i] = <<Error>>]
      BY <1>1, <2>3, <3>1
    <3>3. StreamTypes' /\ sent'[i] = <<Error>> /\ th'[i] = "done"
      BY <1>1, <1>3, <2>3, <3>2 DEF StreamTypes
    <3>4. Ordered(<<Error>>, req[i].chat, TRUE)
      BY <1>3, Kinds DEF Ordered
    <3>. QED  BY <1>1, <1>2, <1>3, <3>3, <3>4 DEF StreamOf
  <2>. QED  BY <2>1, <2>2, <2>3
<1>. QED  BY <1>4, <1>5

(* A token adds to the text what it decodes to; only where an earlier one  *)
(* has ended inside a character can it fail to.                            *)
LEMMA TokenWhole ==
  ASSUME WholeInv, NEW i \in Ids, NEW t \in Tokens, Token(i, t)
  PROVE  StreamTypes' /\ StreamOf(i)'
<1>. DEFINE ids == Append(out[i], t)
            full == Decode(ids)
            p == printed[i]
            s == sent[i]
<1>1. /\ th[i] = "generate" /\ StreamTypes /\ out[i] \in Seq(Tokens) /\ p \in Text
      /\ s \in Seq(Events) /\ Ordered(s, req[i].chat, FALSE)
      /\ th \in [Ids -> Lives]
      /\ Whole(out[i]) => p = Decode(out[i]) /\ TextOf(s) = p
  BY DEF Token, WholeInv, StreamTypes, StreamOf, StreamInv, EngineInv, Types
<1>2. ids \in Seq(Tokens) /\ ids # <<>> /\ full \in Text
  <2>1. ids \in Seq(Tokens) /\ ids # <<>>
    BY <1>1, AppendProperties
  <2>. HIDE DEF ids
  <2>. QED  BY <2>1, DecodeGrows
<1>3. Whole(ids) => /\ Whole(out[i]) /\ IsPre(p, full) /\ TextOf(s) = p
                    /\ Cuts(full, Size(p)) = {Len(p)}
                    /\ Size(full) <= Size(p) => full = p
                    /\ p \o SubSeq(full, Len(p) + 1, Len(full)) = full
  <2>. SUFFICES ASSUME Whole(ids)
                PROVE  /\ Whole(out[i]) /\ IsPre(p, full) /\ TextOf(s) = p
                       /\ Cuts(full, Size(p)) = {Len(p)}
                       /\ Size(full) <= Size(p) => full = p
                       /\ p \o SubSeq(full, Len(p) + 1, Len(full)) = full
    OBVIOUS
  <2>1. Whole(out[i]) /\ Bad \notin Range(Decode(out[i]))
    BY <1>1, WholeStep
  <2>2. p = Decode(out[i]) /\ TextOf(s) = p
    BY <1>1, <2>1
  <2>3. IsPre(p, full)
    BY <1>1, <2>1, <2>2, DecodeGrows
  <2>. HIDE DEF p, full
  <2>. QED  BY <1>1, <1>2, <2>1, <2>2, <2>3, CutAfterPrefix
<1>4. /\ out' = [out EXCEPT ![i] = ids] /\ UNCHANGED req
      /\ \/ Size(full) <= Size(p) /\ UNCHANGED <<th, poisoned, printed, sent>>
         \/ \E k \in Cuts(full, Size(p)) :
              /\ sent' = [sent EXCEPT ![i] = Append(s, Delta(SubSeq(full, k + 1, Len(full))))]
              /\ printed' = [printed EXCEPT ![i] = full]
              /\ UNCHANGED <<th, poisoned>>
         \/ /\ Cuts(full, Size(p)) = {} /\ th' = [th EXCEPT ![i] = "panicked"] /\ poisoned' = TRUE
            /\ UNCHANGED <<printed, sent>>
  BY DEF Token, PrintedLen
<1>. HIDE DEF ids, full, p, s
<1>5. out'[i] = ids /\ out' \in [Ids -> Seq(Tokens)]
  BY <1>1, <1>2, <1>4 DEF StreamTypes
<1>6. Ordered(s, req[i].chat, TRUE)
  BY <1>1 DEF Ordered
<1>7. CASE Size(full) <= Size(p) /\ UNCHANGED <<th, poisoned, printed, sent>>
  <2>1. StreamTypes' /\ printed'[i] = p /\ sent'[i] = s /\ th'[i] = "generate"
    BY <1>1, <1>5, <1>7 DEF StreamTypes, p, s
  <2>2. Whole(ids) => p = Decode(ids) /\ TextOf(s) = p
    BY <1>3, <1>7 DEF full
  <2>. QED  BY <1>1, <1>4, <1>5, <1>6, <2>1, <2>2 DEF StreamOf
<1>8. ASSUME NEW k \in Cuts(full, Size(p)),
             sent' = [sent EXCEPT ![i] = Append(s, Delta(SubSeq(full, k + 1, Len(full))))],
             printed' = [printed EXCEPT ![i] = full],
             UNCHANGED <<th, poisoned>>
      PROVE  StreamTypes' /\ StreamOf(i)'
  <2>. DEFINE x == SubSeq(full, k + 1, Len(full))
              q == Append(s, Delta(x))
  <2>1. x \in Text
    <3>1. k \in 0 .. Len(full)
      BY DEF Cuts
    <3>2. Len(full) \in Nat /\ \A j \in k + 1 .. Len(full) : full[j] \in (DOMAIN Width) \cup {Bad}
      BY <1>2, <3>1 DEF Text
    <3>. QED  BY <3>1, <3>2, SubSeqProperties DEF Text
  <2>. HIDE DEF x
  <2>2. Delta(x) \in Events
    BY <2>1 DEF Events
  <2>3. q \in Seq(Events) /\ Ordered(q, req[i].chat, FALSE) /\ Ordered(q, req[i].chat, TRUE)
    BY <1>1, <2>2, Kinds, OrderedAppend
  <2>4. TextOf(q) = TextOf(s) \o x
    BY <1>1, <2>1, TextOfStep
  <2>5. Whole(ids) => full = Decode(ids) /\ TextOf(q) = full
    <3>1. Whole(ids) => k = Len(p)
      BY <1>3
    <3>. QED  BY <1>3, <2>4, <3>1 DEF full, x
  <2>6. sent' = [sent EXCEPT ![i] = q]
    BY <1>8 DEF x
  <2>. HIDE DEF q
  <2>7. StreamTypes' /\ printed'[i] = full /\ sent'[i] = q /\ th'[i] = "generate"
    BY <1>1, <1>2, <1>5, <1>8, <2>3, <2>6 DEF StreamTypes
  <2>. QED  BY <1>4, <1>5, <2>3, <2>5, <2>7 DEF StreamOf
<1>9. CASE /\ Cuts(full, Size(p)) = {} /\ th' = [th EXCEPT ![i] = "panicked"] /\ poisoned' = TRUE
           /\ UNCHANGED <<printed, sent>>
  <2>1. StreamTypes' /\ sent'[i] = s /\ th'[i] = "panicked"
    BY <1>1, <1>5, <1>9 DEF StreamTypes, s
  <2>2. ~Whole(ids)
    BY <1>3, <1>9
  <2>. QED  BY <1>1, <1>4, <1>5, <1>6, <1>9, <2>1, <2>2 DEF StreamOf
<1>. QED  BY <1>4, <1>7, <1>8, <1>9

(* No thread touches the stream of another.                                *)
LEMMA ThreadWholeInv ==
  ASSUME WholeInv, NEW i \in Ids, Run(i)
  PROVE  WholeInv'
<1>1. StreamInv' /\ \A j \in Ids : j # i => th'[j] = th[j] /\ sent'[j] = sent[j]
  BY ThreadStreamInv, ThreadSends DEF WholeInv
<1>2. StreamTypes' /\ StreamOf(i)'
  <2>1. CASE Begin(i)
    BY <2>1, BeginWhole
  <2>2. CASE StepFails(i) \/ Finish(i)
    <3>1. /\ th[i] = "generate" /\ UNCHANGED <<out, printed, poisoned, req>>
          /\ End(i, <<Error>>) \/ End(i, <<Final, Done>>)
      BY <2>2 DEF StepFails, Finish
    <3>. QED  BY <3>1, EndWhole
  <2>. QED  BY <2>1, <2>2, TokenWhole DEF Run
<1>3. /\ UNCHANGED req /\ (poisoned => poisoned')
      /\ \A j \in Ids : j # i => out'[j] = out[j] /\ printed'[j] = printed[j]
  <2>1. StreamTypes
    BY DEF WholeInv
  <2>. QED  BY <2>1 DEF Run, Begin, Token, StepFails, Finish, StreamTypes
<1>4. ASSUME NEW j \in Ids, j # i
      PROVE  StreamOf(j)'
  <2>1. StreamOf(j)
    BY DEF WholeInv
  <2>2. /\ th'[j] = th[j] /\ sent'[j] = sent[j] /\ out'[j] = out[j] /\ printed'[j] = printed[j]
        /\ req' = req /\ (poisoned => poisoned')
    BY <1>1, <1>3, <1>4
  <2>. QED  BY <2>1, <2>2 DEF StreamOf
<1>. QED  BY <1>1, <1>2, <1>4 DEF WholeInv

(* A fault leaves the streams as they are, and the lock poisoned if it     *)
(* ends one.                                                               *)
LEMMA FaultWholeInv ==
  ASSUME WholeInv, Fault
  PROVE  WholeInv'
<1>1. StreamInv /\ StreamInv'
  BY FaultStreamInv DEF WholeInv
<1>2. StreamTypes'
  BY <1>1, FaultLeaves DEF WholeInv, StreamTypes
<1>3. ASSUME NEW i \in Ids
      PROVE  StreamOf(i)'
  <2>1. StreamOf(i)
    BY DEF WholeInv
  <2>2. /\ UNCHANGED <<req, out, printed, sent>> /\ (poisoned => poisoned')
        /\ \/ th'[i] = th[i]
           \/ th[i] = "generate" /\ th'[i] = "hung"
           \/ th'[i] = "crashed" /\ poisoned'
    BY <1>1, FaultLeaves
  <2>. QED  BY <2>1, <2>2 DEF StreamOf
<1>. QED  BY <1>1, <1>2, <1>3 DEF WholeInv

(* Every step keeps the streams whole.                                     *)
LEMMA WholeInvNext ==
  ASSUME WholeInv, [Next]_vars
  PROVE  WholeInv'
<1>1. CASE UNCHANGED vars
  <2>1. StreamInv'
    BY <1>1, StreamInvNext DEF WholeInv
  <2>. QED  BY <1>1, <2>1 DEF vars, threads, WholeInv, StreamTypes, StreamOf
<1>. QED  BY <1>1, MainWholeInv, ThreadWholeInv, FaultWholeInv DEF Next

(* A thread that has ended has sent the role first, in a chat, then deltas, *)
(* the usage and [DONE], or else an error at the end; while every token so  *)
(* far ends between characters, the deltas are what the tokens decode to,   *)
(* whatever the tokenizer's tokens are. A thread ends without a last event  *)
(* only by a panic that leaves the lock poisoned: the decoder's, that of a  *)
(* token inside a character, or the one on a lock that is poisoned already. *)
THEOREM StreamsAreWhole == Spec => []StreamsWhole
<1>1. ASSUME WholeInv
      PROVE  StreamsWhole
  <2>. SUFFICES ASSUME NEW i \in DOMAIN req
                PROVE  /\ th[i] = "done" => sent[i] # <<>> /\ Last(sent[i]) \in {Done, Error}
                       /\ WholeSoFar(i) => TextOf(sent[i]) = Decode(out[i])
                       /\ th[i] \in {"crashed", "panicked"} => poisoned
                       /\ th[i] = "panicked" => out[i] = <<>> \/ ~WholeSoFar(i)
                       /\ \A k \in DOMAIN sent[i] :
                            /\ sent[i][k] = Role => k = 1 /\ req[i].chat
                            /\ sent[i][k] \in {Done, Error} => k = Len(sent[i])
    BY DEF StreamsWhole
  <2>1. i \in Ids
    BY <1>1, Numbers DEF WholeInv, StreamInv, EngineInv
  <2>2. StreamOf(i)
    BY <1>1, <2>1 DEF WholeInv
  <2>3. WholeSoFar(i) <=> Whole(out[i])
    BY DEF WholeSoFar, Whole
  <2>. QED  BY <2>2, <2>3 DEF StreamOf, Ordered
<1>. QED  BY WholeInvInit, WholeInvNext, <1>1, PTL DEF Spec
==============================================================================
