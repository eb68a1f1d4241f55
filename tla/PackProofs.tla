----------------------------- MODULE PackProofs -----------------------------
(***************************************************************************)
(* Proofs about Pack, for every set of models, every block and buffer      *)
(* size, any checkpoint and any number of conversions: what a server reads *)
(* from two files that are rewritten under it.                             *)
(*                                                                         *)
(* A model determines the files that its conversion ends with: P, the      *)
(* finished pack, whose k-th blob begins after off[k] units, and C, the    *)
(* finished core file. All that is ever on disk, in the converter's buffer *)
(* or in the server is part of those two, or a hole that is not yet        *)
(* written. U is a set that has every unit of both.                        *)
(***************************************************************************)
EXTENDS Pack, SequenceTheorems, FiniteSetTheorems, TLAPS

-----------------------------------------------------------------------------
(* The finished files.                                                     *)

Laid(k) == Stored(LayerAt(k), ExpertAt(k))
FinalRaw == IF model.zip THEN 7 ELSE 0

PackLaid(U, P, off, T) ==
  /\ T = Total /\ T \in Nat \ {0}
  /\ Zero \in U /\ P \in Seq(U)
  /\ off \in [0..T -> Nat] /\ off[0] = IndexEnd /\ off[T] = Len(P)
  /\ Align + T <= off[0] /\ off[0] < Len(P)
  /\ P[1] = Magic /\ P[2] = Meta(FinalRaw)
  /\ \A i \in 3..Align : P[i] = Zero
  /\ \A i \in (Align + T + 1)..off[0] : P[i] = Zero
  /\ \A k \in 0..(T - 1) :
       /\ Laid(k) \in Seq(U) /\ Len(Laid(k)) >= 1
       /\ off[0] <= off[k] /\ off[k + 1] <= Len(P)
       /\ off[k + 1] = off[k] + align_up(Len(Laid(k)))
       /\ P[Align + k + 1] = Entry([offset |-> off[k], nbytes |-> Len(Laid(k))])
       /\ \A j \in 1..Len(Laid(k)) : P[off[k] + j] = Laid(k)[j]
       /\ \A i \in (off[k] + Len(Laid(k)) + 1)..off[k + 1] : P[i] = Zero

CoreLaid(U, C) ==
  /\ C \in Seq(U)
  /\ CoreTensors \in Seq(TextTensors) /\ Range(CoreTensors) = TextTensors
  /\ Len(C) = Len(CoreTensors) + 1
  /\ C[1] = CoreHeader
  /\ \A i \in 1..Len(CoreTensors) : C[i + 1] = Tensor(CoreTensors[i])

-----------------------------------------------------------------------------
(* Files on their way there.                                               *)

\* f is B, overwritten by Q from position base to position pos.
Over(U, f, B, base, Q, pos) ==
  /\ f \in Seq(U)
  /\ IF pos = base THEN f = B
     ELSE /\ Len(f) = IF Len(B) >= pos THEN Len(B) ELSE pos
          /\ \A i \in 1..Len(f) :
               f[i] = IF i \in (base + 1)..pos THEN Q[i]
                      ELSE IF i <= Len(B) THEN B[i] ELSE Zero

\* A BufWriter that began at base, writes Q over B: f has what left the buffer.
Tracks(U, f, wr, B, base, Q) ==
  /\ wr = [pos |-> wr.pos, buf |-> wr.buf]
  /\ wr.pos \in Nat /\ base <= wr.pos /\ wr.buf \in Seq(U)
  /\ wr.pos + Len(wr.buf) <= Len(Q)
  /\ \A j \in 1..Len(wr.buf) : wr.buf[j] = Q[wr.pos + j]
  /\ Over(U, f, B, base, Q, wr.pos)

\* The pack when finish begins: header and index are a hole.
Blank(P, off) == [i \in 1..Len(P) |-> IF i <= off[0] THEN Zero ELSE P[i]]

PrefixOf(U, f, Q) ==
  /\ f \in Seq(U) /\ Len(f) <= Len(Q)
  /\ \A i \in 1..Len(f) : f[i] = Q[i]

\* A unit that is written may still be a hole in header and index only.
Holed(U, f, P, off) ==
  /\ f \in Seq(U) /\ Len(f) <= Len(P)
  /\ \A i \in 1..Len(f) : f[i] = P[i] \/ (i <= off[0] /\ f[i] = Zero)

-----------------------------------------------------------------------------
(* The inductive invariant.                                                *)

EntryIn(P, k) == [offset |-> P[Align + k + 1].offset, nbytes |-> P[Align + k + 1].nbytes]

\* The index that PackWriter has built, with k entries.
Indexed(P, k) == index = [i \in 1..k |-> EntryIn(P, i - 1)]

Blobs(U, P, off, T) ==
  pc = "blobs" =>
    /\ made = "none"
    /\ \E k \in 0..T :
         /\ Indexed(P, k)
         /\ cursor = off[k] /\ w.pos + Len(w.buf) = off[k]
         /\ maxraw = IF k = 0 THEN 0 ELSE P[2].maxraw
    /\ Tracks(U, pack, w, <<>>, off[0], P)

Finishing(U, P, off, T) ==
  pc = "index" =>
    /\ made = "none" /\ Indexed(P, T)
    /\ n \in 0..T /\ w.pos + Len(w.buf) = Align + n
    /\ Tracks(U, pack, w, Blank(P, off), 0, P)

\* What a conversion that has ended has left.
Left(U, P, off) ==
  pc \notin {"blobs", "index"} =>
    /\ pc \in {"idle", "core", "create"}
    /\ pc = "create" => w = Writer(0)
    /\ made \in {"none", "failed", "torn", "whole"}
    /\ made = "none" => pack = <<>>
    /\ made = "failed" => PrefixOf(U, pack, Blank(P, off))
    /\ made = "torn" => Holed(U, pack, P, off)
    /\ made = "whole" => pack = P

Core(U, C) ==
  /\ PrefixOf(U, core, C)
  /\ pc = "core" => /\ n \in Nat /\ w.pos + Len(w.buf) = n + 1
                    /\ Tracks(U, core, w, <<>>, 0, C)

Server(U, P, C, T) ==
  /\ rpc # "closed" => meta = P[2]
  /\ rpc \in {"core", "open"} => hdr = C[1].names
  /\ got \in Seq(U) /\ Len(got) <= 4
  /\ rpc \in {"closed", "header"} => got = <<>>
  /\ rpc = "open" =>
       /\ DOMAIN idx = 0..(T - 1)
       /\ \A k \in 0..(T - 1) : idx[k] \in {NoEntry, EntryIn(P, k)}

Shape(U, P, off, T, C) ==
  /\ Blobs(U, P, off, T) /\ Finishing(U, P, off, T) /\ Left(U, P, off)
  /\ Core(U, C)
  /\ Server(U, P, C, T)

Good(U, P, off, T, C) ==
  /\ model \in Models
  /\ PackLaid(U, P, off, T) /\ CoreLaid(U, C)
  /\ Shape(U, P, off, T, C)

PackInv == CoreWhole /\ \E U, P, off, T, C : Good(U, P, off, T, C)

-----------------------------------------------------------------------------
(* What the BufWriter does to a file.                                      *)

(* Max of two numbers.                                                     *)
LEMMA MaxOfTwo ==
  ASSUME NEW a \in Nat, NEW b \in Nat
  PROVE  Max({a, b}) = IF a >= b THEN a ELSE b
<1>. DEFINE m == IF a >= b THEN a ELSE b
<1>1. m \in {a, b} /\ \A y \in {a, b} : m >= y
  OBVIOUS
<1>2. \A x \in {a, b} : (\A y \in {a, b} : x >= y) => x = m
  OBVIOUS
<1>. HIDE DEF m
<1>3. Max({a, b}) = m
  BY <1>1, <1>2 DEF Max
<1>. QED  BY <1>3 DEF m

\* g is f with data at position pos.
Patched(U, g, f, pos, data) ==
  /\ g \in Seq(U)
  /\ Len(g) = IF Len(f) >= pos + Len(data) THEN Len(f) ELSE pos + Len(data)
  /\ \A i \in 1..Len(g) :
       g[i] = IF i \in (pos + 1)..(pos + Len(data)) THEN data[i - pos]
              ELSE IF i <= Len(f) THEN f[i] ELSE Zero

(* What WriteAt makes of a file: its length, and each unit.                *)
LEMMA WriteAtIs ==
  ASSUME NEW U, Zero \in U, NEW f \in Seq(U), NEW pos \in Nat, NEW data \in Seq(U)
  PROVE  Patched(U, WriteAt(f, pos, data), f, pos, data)
<1>. DEFINE l == IF Len(f) >= pos + Len(data) THEN Len(f) ELSE pos + Len(data)
            u(i) == IF i \in (pos + 1)..(pos + Len(data)) THEN data[i - pos]
                    ELSE IF i <= Len(f) THEN f[i] ELSE Zero
<1>1. Len(f) \in Nat /\ Len(data) \in Nat /\ l \in Nat
  OBVIOUS
<1>2. Max({Len(f), pos + Len(data)}) = l
  BY <1>1, MaxOfTwo
<1>3. WriteAt(f, pos, data) = [i \in 1..l |-> u(i)]
  BY <1>2 DEF WriteAt
<1>4. \A i \in 1..l : u(i) \in U
  <2>. SUFFICES ASSUME NEW i \in 1..l
                PROVE  u(i) \in U
    OBVIOUS
  <2>1. CASE i \in (pos + 1)..(pos + Len(data))
    <3>1. i - pos \in 1..Len(data)
      BY <2>1, <1>1
    <3>. QED  BY <2>1, <3>1, ElementOfSeq
  <2>2. CASE i \notin (pos + 1)..(pos + Len(data)) /\ i <= Len(f)
    <3>1. i \in 1..Len(f)
      BY <2>2, <1>1
    <3>. QED  BY <2>2, <3>1, ElementOfSeq
  <2>3. CASE i \notin (pos + 1)..(pos + Len(data)) /\ ~(i <= Len(f))
    BY <2>3
  <2>. QED  BY <2>1, <2>2, <2>3
<1>. HIDE DEF l, u
<1>5. [i \in 1..l |-> u(i)] \in Seq(U) /\ Len([i \in 1..l |-> u(i)]) = l
  BY <1>1, <1>4
<1>. QED  BY <1>3, <1>5 DEF l, u, Patched

(* A file from which the buffer has been flushed is written that much      *)
(* further.                                                                *)
LEMMA FlushedOver ==
  ASSUME NEW U, Zero \in U, NEW f, NEW wr, NEW B \in Seq(U), NEW base \in Nat,
         NEW Q \in Seq(U), Tracks(U, f, wr, B, base, Q)
  PROVE  Over(U, Flushed(f, wr), B, base, Q, wr.pos + Len(wr.buf))
<1>. DEFINE pos == wr.pos
            buf == wr.buf
            g == WriteAt(f, pos, buf)
<1>1. /\ pos \in Nat /\ base <= pos /\ buf \in Seq(U) /\ Len(buf) \in Nat
      /\ \A j \in 1..Len(buf) : buf[j] = Q[pos + j]
      /\ f \in Seq(U) /\ Over(U, f, B, base, Q, pos) /\ Len(B) \in Nat
  BY DEF Tracks, Over
<1>2. CASE buf = <<>>
  <2>1. Len(buf) = 0 /\ Flushed(f, wr) = f
    BY <1>2 DEF Flushed
  <2>. QED  BY <1>1, <2>1
<1>3. CASE buf # <<>>
  <2>1. Len(buf) > 0 /\ Flushed(f, wr) = g
    BY <1>1, <1>3 DEF Flushed
  <2>2. Patched(U, g, f, pos, buf)
    BY <1>1, WriteAtIs
  <2>. HIDE DEF g, pos, buf
  <2>3. Len(g) = IF Len(B) >= pos + Len(buf) THEN Len(B) ELSE pos + Len(buf)
    BY <1>1, <2>1, <2>2 DEF Over, Patched
  <2>4. ASSUME NEW i \in 1..Len(g)
        PROVE  g[i] = IF i \in (base + 1)..(pos + Len(buf)) THEN Q[i]
                      ELSE IF i <= Len(B) THEN B[i] ELSE Zero
    <3>1. CASE i \in (pos + 1)..(pos + Len(buf))
      <4>1. i - pos \in 1..Len(buf) /\ pos + (i - pos) = i
        BY <3>1, <1>1
      <4>2. g[i] = buf[i - pos]
        BY <2>2, <3>1 DEF Patched
      <4>3. buf[i - pos] = Q[i]
        BY <1>1, <4>1
      <4>4. i \in (base + 1)..(pos + Len(buf))
        BY <1>1, <3>1
      <4>. QED  BY <4>2, <4>3, <4>4
    <3>2. CASE i \notin (pos + 1)..(pos + Len(buf)) /\ i <= Len(f)
      <4>1. g[i] = f[i] /\ i \in 1..Len(f)
        BY <2>2, <3>2, <1>1 DEF Patched
      <4>. QED  BY <1>1, <2>1, <3>2, <4>1 DEF Over
    <3>3. CASE i \notin (pos + 1)..(pos + Len(buf)) /\ ~(i <= Len(f))
      <4>1. g[i] = Zero /\ Len(f) >= Len(B)
        BY <2>2, <3>3, <1>1 DEF Over, Patched
      <4>. QED  BY <1>1, <2>1, <2>3, <3>3, <4>1 DEF Over
    <3>. QED  BY <3>1, <3>2, <3>3
  <2>. QED  BY <1>1, <2>1, <2>2, <2>3, <2>4 DEF Over, Patched, pos, buf
<1>. QED  BY <1>2, <1>3

(* A writer with another buffer.                                           *)
LEMMA OtherBuf ==
  ASSUME NEW wr, wr = [pos |-> wr.pos, buf |-> wr.buf], NEW buf
  PROVE  [wr EXCEPT !.buf = buf] = [pos |-> wr.pos, buf |-> buf]
<1>1. \A p, q : [[pos |-> p, buf |-> q] EXCEPT !.buf = buf] = [pos |-> p, buf |-> buf]
  OBVIOUS
<1>. DEFINE p == wr.pos
            q == wr.buf
<1>2. wr = [pos |-> p, buf |-> q]
  OBVIOUS
<1>. HIDE DEF p, q
<1>3. [wr EXCEPT !.buf = buf] = [pos |-> p, buf |-> buf]
  BY <1>1, <1>2
<1>. QED  BY <1>3 DEF p

\* r, of file and writer, is where f and wr get with data that Q has next.
Moved(U, r, wr, data, B, base, Q) ==
  /\ Tracks(U, r.file, r.w, B, base, Q)
  /\ r.w.pos + Len(r.w.buf) = wr.pos + Len(wr.buf) + Len(data)

\* data is what Q has from where wr is.
Due(wr, data, Q) ==
  /\ wr.pos + Len(wr.buf) + Len(data) <= Len(Q)
  /\ \A j \in 1..Len(data) : data[j] = Q[wr.pos + Len(wr.buf) + j]

(* Writing through the buffer what comes next keeps track.                 *)
LEMMA WrittenTracks ==
  ASSUME NEW U, Zero \in U, NEW f, NEW wr, NEW B \in Seq(U), NEW base \in Nat,
         NEW Q \in Seq(U), Tracks(U, f, wr, B, base, Q), Cap \in Nat \ {0},
         NEW data \in Seq(U), Due(wr, data, Q)
  PROVE  Moved(U, Written(f, wr, data), wr, data, B, base, Q)
<1>. DEFINE full == Len(wr.buf) + Len(data) > Cap
            file == IF full THEN Flushed(f, wr) ELSE f
            next == IF full THEN Writer(wr.pos + Len(wr.buf)) ELSE wr
            past == Writer(next.pos + Len(data))
            kept == [next EXCEPT !.buf = @ \o data]
            end == wr.pos + Len(wr.buf) + Len(data)
<1>1. /\ wr = [pos |-> wr.pos, buf |-> wr.buf]
      /\ wr.pos \in Nat /\ base <= wr.pos /\ wr.buf \in Seq(U) /\ Len(wr.buf) \in Nat
      /\ wr.pos + Len(wr.buf) <= Len(Q)
      /\ \A j \in 1..Len(wr.buf) : wr.buf[j] = Q[wr.pos + j]
      /\ Len(data) \in Nat /\ Len(Q) \in Nat /\ end \in Nat /\ end <= Len(Q)
      /\ \A j \in 1..Len(data) : data[j] = Q[wr.pos + Len(wr.buf) + j]
  BY DEF Tracks, Due
<1>2. /\ Tracks(U, file, next, B, base, Q)
      /\ next.pos + Len(next.buf) = wr.pos + Len(wr.buf)
      /\ next = [pos |-> next.pos, buf |-> next.buf]
      /\ next.pos \in Nat /\ next.buf \in Seq(U) /\ Len(next.buf) \in Nat
      /\ full => next.buf = <<>>
  <2>1. CASE full
    <3>1. Over(U, Flushed(f, wr), B, base, Q, wr.pos + Len(wr.buf))
      BY FlushedOver
    <3>2. next.pos = wr.pos + Len(wr.buf) /\ next.buf = <<>> /\ file = Flushed(f, wr)
          /\ next = [pos |-> next.pos, buf |-> next.buf]
      BY <2>1 DEF Writer
    <3>3. Len(next.buf) = 0 /\ next.buf \in Seq(U)
      <4>. HIDE DEF next
      <4>. QED  BY <3>2
    <3>. HIDE DEF full, file, next
    <3>. QED  BY <1>1, <3>1, <3>2, <3>3 DEF Tracks
  <2>2. CASE ~full
    <3>1. next = wr /\ file = f
      BY <2>2
    <3>. HIDE DEF full, file, next
    <3>. QED  BY <1>1, <2>2, <3>1
  <2>. QED  BY <2>1, <2>2
<1>3. \A j \in 1..Len(data) : data[j] = Q[next.pos + Len(next.buf) + j]
  BY <1>1, <1>2
<1>4. CASE Len(data) >= Cap
  <2>1. Len(data) > 0 /\ Written(f, wr, data).file = WriteAt(file, next.pos, data)
        /\ Written(f, wr, data).w = past
    BY <1>1, <1>4 DEF Written
  <2>2. next.buf = <<>> /\ Len(next.buf) = 0
    <3>1. full \/ Len(wr.buf) = 0
      BY <1>1, <1>4
    <3>2. ~full /\ Len(wr.buf) = 0 => next.buf = <<>>
      BY <1>1, EmptySeq
    <3>3. next.buf = <<>>
      BY <1>2, <3>1, <3>2
    <3>. QED  BY <3>3
  <2>. DEFINE one == [pos |-> next.pos, buf |-> data]
  <2>3. Tracks(U, file, one, B, base, Q)
    <3>1. one.pos = next.pos /\ one.buf = data /\ one = [pos |-> one.pos, buf |-> one.buf]
      OBVIOUS
    <3>. HIDE DEF one, file, next
    <3>. QED  BY <1>1, <1>2, <1>3, <2>2, <3>1 DEF Tracks
  <2>4. Over(U, Flushed(file, one), B, base, Q, one.pos + Len(one.buf))
    <3>. HIDE DEF one, file
    <3>. QED  BY <2>3, FlushedOver
  <2>5. Flushed(file, one) = WriteAt(file, next.pos, data)
    BY <2>1 DEF Flushed
  <2>6. one.pos + Len(one.buf) = end /\ next.pos + Len(data) = end
    BY <1>2, <2>2
  <2>7. past.pos = end /\ past.buf = <<>> /\ past = [pos |-> past.pos, buf |-> past.buf]
        /\ Len(past.buf) = 0 /\ past.buf \in Seq(U)
    BY <2>6 DEF Writer
  <2>8. Over(U, WriteAt(file, next.pos, data), B, base, Q, end)
    BY <2>4, <2>5, <2>6
  <2>9. base <= end /\ end <= Len(Q)
    BY <1>1
  <2>. HIDE DEF past, file, next, end
  <2>10. Tracks(U, WriteAt(file, next.pos, data), past, B, base, Q)
    BY <1>1, <2>7, <2>8, <2>9 DEF Tracks
  <2>. QED  BY <1>1, <2>1, <2>7, <2>10 DEF end, Moved
<1>5. CASE ~(Len(data) >= Cap)
  <2>1. Written(f, wr, data).file = file /\ Written(f, wr, data).w = kept
    BY <1>5 DEF Written
  <2>2. kept = [pos |-> kept.pos, buf |-> kept.buf] /\ kept.pos = next.pos
        /\ kept.buf = next.buf \o data
    <3>1. kept = [next EXCEPT !.buf = next.buf \o data]
      OBVIOUS
    <3>. HIDE DEF next, kept
    <3>2. kept = [pos |-> next.pos, buf |-> next.buf \o data]
      BY <1>2, <3>1, OtherBuf
    <3>. QED  BY <3>2
  <2>. HIDE DEF kept, file, next, full
  <2>3. kept.buf \in Seq(U) /\ Len(kept.buf) = Len(next.buf) + Len(data)
        /\ \A j \in 1..Len(kept.buf) :
             kept.buf[j] = IF j <= Len(next.buf) THEN next.buf[j] ELSE data[j - Len(next.buf)]
    BY <1>2, <2>2, ConcatProperties
  <2>4. ASSUME NEW j \in 1..Len(kept.buf)
        PROVE  kept.buf[j] = Q[kept.pos + j]
    <3>1. CASE j <= Len(next.buf)
      <4>1. j \in 1..Len(next.buf)
        BY <3>1, <1>2
      <4>. QED  BY <4>1, <3>1, <1>2, <2>2, <2>3 DEF Tracks
    <3>2. CASE ~(j <= Len(next.buf))
      <4>1. j - Len(next.buf) \in 1..Len(data)
            /\ next.pos + Len(next.buf) + (j - Len(next.buf)) = next.pos + j
        <5>. DEFINE a == Len(next.buf)
                    d == Len(data)
                    p == next.pos
        <5>1. j \in Nat /\ j <= a + d /\ j > a /\ a \in Nat /\ p \in Nat /\ d \in Nat
          <6>1. j \in 1..(a + d)
            BY <2>3
          <6>2. a \in Nat /\ p \in Nat /\ d \in Nat
            BY <1>1, <1>2
          <6>3. ~(j <= a)
            BY <3>2
          <6>. HIDE DEF a, d, p
          <6>. QED  BY <6>1, <6>2, <6>3
        <5>. HIDE DEF a, d, p
        <5>2. j - a \in 1..d /\ p + a + (j - a) = p + j
          BY <5>1
        <5>. QED  BY <5>2 DEF a, d, p
      <4>2. kept.buf[j] = data[j - Len(next.buf)]
        BY <3>2, <2>3
      <4>3. data[j - Len(next.buf)] = Q[next.pos + j]
        BY <1>3, <4>1
      <4>. QED  BY <4>2, <4>3, <2>2
    <3>. QED  BY <3>1, <3>2
  <2>5. kept.pos + Len(kept.buf) = end
    BY <1>1, <1>2, <2>2, <2>3
  <2>6. Tracks(U, file, kept, B, base, Q)
    BY <1>1, <1>2, <2>2, <2>3, <2>4, <2>5 DEF Tracks
  <2>. QED  BY <2>1, <2>5, <2>6 DEF Moved
<1>. QED  BY <1>4, <1>5

(* A writer that starts at base has written nothing yet.                   *)
LEMMA WriterTracks ==
  ASSUME NEW U, NEW B \in Seq(U), NEW base \in Nat, NEW Q \in Seq(U), base <= Len(Q)
  PROVE  /\ Tracks(U, B, Writer(base), B, base, Q)
         /\ Writer(base).pos + Len(Writer(base).buf) = base
<1>1. /\ Writer(base).pos = base /\ Writer(base).buf = <<>>
      /\ Writer(base) = [pos |-> Writer(base).pos, buf |-> Writer(base).buf]
  BY DEF Writer
<1>2. Writer(base).buf \in Seq(U) /\ Len(Writer(base).buf) = 0
  BY <1>1
<1>3. Over(U, B, B, base, Q, base)
  BY DEF Over
<1>. QED  BY <1>1, <1>2, <1>3 DEF Tracks

\* sent is wr with less to write than it had with next.
Sent(U, f, sent, wr, next, B, base, Q) ==
  /\ Tracks(U, f, sent, B, base, Q)
  /\ sent.pos + Len(sent.buf) <= wr.pos + Len(wr.buf) + Len(next)

(* Part of what is in the buffer and of what comes next may reach the file. *)
LEMMA PartTracks ==
  ASSUME NEW U, NEW f, NEW wr, NEW B \in Seq(U), NEW base \in Nat,
         NEW Q \in Seq(U), Tracks(U, f, wr, B, base, Q),
         NEW next \in Seq(U), Due(wr, next, Q),
         NEW k \in 0..Len(wr.buf \o next)
  PROVE  Sent(U, f, [wr EXCEPT !.buf = SubSeq(wr.buf \o next, 1, k)], wr, next, B, base, Q)
<1>. DEFINE due == wr.buf \o next
            sent == [wr EXCEPT !.buf = SubSeq(due, 1, k)]
<1>1. /\ wr = [pos |-> wr.pos, buf |-> wr.buf]
      /\ wr.pos \in Nat /\ base <= wr.pos /\ wr.buf \in Seq(U) /\ Len(wr.buf) \in Nat
      /\ \A j \in 1..Len(wr.buf) : wr.buf[j] = Q[wr.pos + j]
      /\ Len(next) \in Nat /\ Len(Q) \in Nat
      /\ wr.pos + Len(wr.buf) + Len(next) <= Len(Q)
      /\ \A j \in 1..Len(next) : next[j] = Q[wr.pos + Len(wr.buf) + j]
      /\ Over(U, f, B, base, Q, wr.pos)
  BY DEF Tracks, Due
<1>2. due \in Seq(U) /\ Len(due) = Len(wr.buf) + Len(next)
      /\ \A j \in 1..Len(due) :
           due[j] = IF j <= Len(wr.buf) THEN wr.buf[j] ELSE next[j - Len(wr.buf)]
  BY <1>1, ConcatProperties
<1>3. ASSUME NEW j \in 1..Len(due)
      PROVE  due[j] = Q[wr.pos + j]
  <2>1. CASE j <= Len(wr.buf)
    BY <1>1, <1>2, <2>1
  <2>2. CASE ~(j <= Len(wr.buf))
    <3>1. j - Len(wr.buf) \in 1..Len(next)
          /\ wr.pos + Len(wr.buf) + (j - Len(wr.buf)) = wr.pos + j
      BY <1>1, <1>2, <2>2
    <3>2. due[j] = next[j - Len(wr.buf)]
      BY <1>2, <2>2
    <3>. HIDE DEF due
    <3>. QED  BY <1>1, <3>1, <3>2
  <2>. QED  BY <2>1, <2>2
<1>. HIDE DEF due
<1>4. k \in 0..Len(due)
  BY DEF due
<1>5. SubSeq(due, 1, k) \in Seq(U) /\ Len(SubSeq(due, 1, k)) = k
      /\ \A j \in 1..k : SubSeq(due, 1, k)[j] = due[j]
  <2>1. k \in Nat /\ k <= Len(due)
    BY <1>2, <1>4
  <2>. QED  BY <1>2, <2>1, SubSeqProperties
<1>6. sent.pos = wr.pos /\ sent.buf = SubSeq(due, 1, k)
      /\ sent = [pos |-> sent.pos, buf |-> sent.buf]
  <2>1. sent = [pos |-> wr.pos, buf |-> SubSeq(due, 1, k)]
    BY <1>1, OtherBuf
  <2>. HIDE DEF sent
  <2>. QED  BY <2>1
<1>. HIDE DEF sent
<1>7. Tracks(U, f, sent, B, base, Q)
  <2>. DEFINE b == SubSeq(due, 1, k)
  <2>1. b \in Seq(U) /\ Len(b) = k /\ k \in Nat /\ k <= Len(due)
    BY <1>2, <1>4, <1>5
  <2>2. \A j \in 1..k : b[j] = Q[wr.pos + j]
    <3>1. \A j \in 1..k : j \in 1..Len(due)
      BY <1>2, <2>1
    <3>. QED  BY <1>3, <1>5, <3>1
  <2>. HIDE DEF b
  <2>3. wr.pos + k <= Len(Q)
    BY <1>1, <1>2, <2>1
  <2>4. sent.pos = wr.pos /\ sent.buf = b
    BY <1>6 DEF b
  <2>5. sent = [pos |-> sent.pos, buf |-> sent.buf]
    BY <1>6
  <2>. QED  BY <1>1, <2>1, <2>2, <2>3, <2>4, <2>5 DEF Tracks
<1>8. sent.pos + Len(sent.buf) <= wr.pos + Len(wr.buf) + Len(next)
  BY <1>1, <1>2, <1>4, <1>5, <1>6
<1>. QED  BY <1>7, <1>8 DEF sent, due, Sent

-----------------------------------------------------------------------------
(* Numbers.                                                                *)

Shared == INSTANCE SharedProofs
            WITH Parts <- 1, SlotsPerPart <- 1, IdsPerPart <- 1,
                 NumIds <- 1, DecayInterval <- 1, MaxFreq <- 1

(* The least element of a set of naturals, and induction (SharedProofs).   *)
LEMMA LeastNatural ==
  ASSUME NEW S, S \subseteq Nat, S # {}
  PROVE  \E m \in S : \A x \in S : m <= x
<1>1. 1 \in Nat \ {0}
  OBVIOUS
<1>. QED  BY <1>1, Shared!LeastNatural

LEMMA UpTo ==
  ASSUME NEW n0 \in Nat, NEW S, 0 \in S, \A k \in 0..n0 : k \in S /\ k < n0 => k + 1 \in S
  PROVE  \A k \in 0..n0 : k \in S
<1>1. 1 \in Nat \ {0}
  OBVIOUS
<1>. QED  BY <1>1, Shared!UpTo

(* Quotient and remainder are unique.                                      *)
LEMMA DivMod ==
  ASSUME NEW d \in Nat \ {0}, NEW q \in Nat, NEW r \in 0..(d - 1)
  PROVE  (q * d + r) \div d = q /\ (q * d + r) % d = r
<1>. DEFINE x == q * d + r
            q2 == x \div d
            r2 == x % d
<1>1. x \in Nat /\ q * d \in Nat
  OBVIOUS
<1>2. q2 \in Nat /\ r2 \in 0..(d - 1) /\ x = d * q2 + r2
  <2>. HIDE DEF x
  <2>. QED  BY <1>1
<1>. HIDE DEF q2, r2
<1>3. ~(q2 >= q + 1)
  <2>1. q2 >= q + 1 => d * q2 >= d * (q + 1)
    BY <1>2
  <2>2. d * (q + 1) = q * d + d
    OBVIOUS
  <2>3. d * q2 \in Nat
    BY <1>2
  <2>. QED  BY <1>1, <1>2, <2>1, <2>2, <2>3
<1>4. ~(q >= q2 + 1)
  <2>1. q >= q2 + 1 => d * q >= d * (q2 + 1)
    BY <1>2
  <2>2. d * (q2 + 1) = d * q2 + d /\ d * q = q * d /\ d * q2 \in Nat
    BY <1>2
  <2>. QED  BY <1>1, <1>2, <2>1, <2>2
<1>5. q2 = q
  BY <1>2, <1>3, <1>4
<1>6. r2 = r
  <2>1. d * q = q * d
    OBVIOUS
  <2>. QED  BY <1>1, <1>2, <1>5, <2>1
<1>. QED  BY <1>5, <1>6 DEF q2, r2

(* align_up goes up, by less than a block.                                 *)
LEMMA AlignUp ==
  ASSUME NEW k \in Nat, Align \in Nat \ {0, 1}
  PROVE  align_up(k) \in Nat /\ align_up(k) >= k
<1>. DEFINE x == k + Align - 1
            q == x \div Align
            r == x % Align
<1>1. x \in Nat
  OBVIOUS
<1>2. q \in Nat /\ r \in 0..(Align - 1) /\ x = Align * q + r
  <2>. HIDE DEF x
  <2>. QED  BY <1>1
<1>. HIDE DEF q, r
<1>3. align_up(k) = q * Align
  BY DEF align_up, q
<1>4. q * Align = Align * q /\ q * Align \in Nat
  BY <1>2
<1>. QED  BY <1>2, <1>3, <1>4

(* Running totals: of n numbers, from b.                                   *)
Totals(g, n0, b, s) ==
  /\ g \in [0..n0 -> Nat] /\ g[0] = b
  /\ \A k \in 0..(n0 - 1) : g[k + 1] = g[k] + s[k]

LEMMA TotalsExist ==
  ASSUME NEW n0 \in Nat, NEW b \in Nat, NEW s \in [0..(n0 - 1) -> Nat]
  PROVE  \E g : Totals(g, n0, b, s)
<1>. DEFINE S == {k \in 0..n0 : \E g : Totals(g, k, b, s)}
<1>1. 0 \in S
  <2>. DEFINE g == [k \in 0..0 |-> b]
  <2>1. Totals(g, 0, b, s)
    BY DEF Totals
  <2>. HIDE DEF g
  <2>. QED  BY <2>1
<1>2. ASSUME NEW k \in 0..n0, k \in S, k < n0
      PROVE  k + 1 \in S
  <2>1. PICK g : Totals(g, k, b, s)
    BY <1>2
  <2>. DEFINE h == [j \in 0..(k + 1) |-> IF j = k + 1 THEN g[k] + s[k] ELSE g[j]]
  <2>2. k \in 0..(n0 - 1) /\ k + 1 \in 0..n0
    BY <1>2
  <2>3. Totals(h, k + 1, b, s)
    BY <2>1, <2>2 DEF Totals
  <2>. HIDE DEF h
  <2>. QED  BY <2>2, <2>3
<1>. HIDE DEF S
<1>3. \A k \in 0..n0 : k \in S
  BY <1>1, <1>2, UpTo
<1>4. n0 \in S
  BY <1>3
<1>. QED  BY <1>4 DEF S

(* Running totals never fall.                                              *)
LEMMA TotalsGrow ==
  ASSUME NEW n0 \in Nat, NEW b \in Nat, NEW s \in [0..(n0 - 1) -> Nat],
         NEW g, Totals(g, n0, b, s)
  PROVE  \A k \in 0..n0 : \A j \in 0..k : g[j] <= g[k]
<1>. DEFINE S == {k \in 0..n0 : \A j \in 0..k : g[j] <= g[k]}
<1>1. 0 \in S
  BY DEF Totals
<1>2. ASSUME NEW k \in 0..n0, k \in S, k < n0
      PROVE  k + 1 \in S
  <2>1. k \in 0..(n0 - 1) /\ g[k + 1] = g[k] + s[k] /\ s[k] \in Nat /\ g[k] \in Nat
    BY <1>2 DEF Totals
  <2>2. ASSUME NEW j \in 0..(k + 1)
        PROVE  g[j] <= g[k + 1]
    <3>1. CASE j = k + 1
      BY <2>1, <3>1 DEF Totals
    <3>2. CASE j # k + 1
      <4>1. j \in 0..k /\ g[j] \in Nat
        BY <1>2, <3>2 DEF Totals
      <4>. QED  BY <1>2, <2>1, <4>1
    <3>. QED  BY <3>1, <3>2
  <2>. QED  BY <1>2, <2>2
<1>. HIDE DEF S
<1>3. \A k \in 0..n0 : k \in S
  BY <1>1, <1>2, UpTo
<1>. QED  BY <1>3 DEF S

-----------------------------------------------------------------------------
(* Every model has finished files.                                         *)

(* The sizes of a model; layers and experts of its pack.                   *)
LEMMA Sizes ==
  ASSUME model \in Models
  PROVE  /\ MoeLayers \in Nat \ {0} /\ Experts \in Nat \ {0} /\ Total \in Nat \ {0}
         /\ model.dense \in Nat /\ model.layers \in Nat
         /\ IndexEnd \in Nat /\ Align + Total <= IndexEnd
         /\ Align \in Nat \ {0, 1} /\ Cap \in Nat \ {0}
         /\ FinalRaw \in {0, 7}
         /\ \A k \in 0..(Total - 1) : LayerAt(k) \in Nat /\ ExpertAt(k) \in 0..(Experts - 1)
         /\ \A i \in InPack :
              /\ (i[1] - model.dense) * Experts + i[2] \in 0..(Total - 1)
              /\ LayerAt((i[1] - model.dense) * Experts + i[2]) = i[1]
              /\ ExpertAt((i[1] - model.dense) * Experts + i[2]) = i[2]
<1>1. /\ MoeLayers \in Nat \ {0} /\ Experts \in Nat \ {0}
      /\ model.dense \in Nat /\ model.layers \in Nat
      /\ Align \in Nat \ {0, 1} /\ Cap \in Nat \ {0}
      /\ FinalRaw \in {0, 7}
  <2>1. /\ Experts \in Nat \ {0} /\ Align \in Nat \ {0, 1} /\ Cap \in Nat \ {0}
        /\ model.layers \in Nat /\ model.dense \in 0..(model.layers - 1)
    BY PackAssumption, Zenon
  <2>. QED  BY <2>1 DEF MoeLayers, FinalRaw
<1>2. Total \in Nat \ {0}
  <2>1. \A a, b \in Nat \ {0} : a * b \in Nat \ {0}
    OBVIOUS
  <2>. QED  BY <1>1, <2>1 DEF Total
<1>3. IndexEnd \in Nat /\ Align + Total <= IndexEnd
  <2>1. Align + Total \in Nat
    BY <1>1, <1>2
  <2>. QED  BY <1>1, <2>1, AlignUp DEF IndexEnd
<1>4. \A k \in 0..(Total - 1) : LayerAt(k) \in Nat /\ ExpertAt(k) \in 0..(Experts - 1)
  BY <1>1, <1>2 DEF LayerAt, ExpertAt
<1>5. ASSUME NEW i \in InPack
      PROVE  /\ (i[1] - model.dense) * Experts + i[2] \in 0..(Total - 1)
             /\ LayerAt((i[1] - model.dense) * Experts + i[2]) = i[1]
             /\ ExpertAt((i[1] - model.dense) * Experts + i[2]) = i[2]
  <2>. DEFINE q == i[1] - model.dense
              r == i[2]
  <2>1. q \in 0..(MoeLayers - 1) /\ r \in 0..(Experts - 1) /\ i[1] = model.dense + q
    BY <1>1 DEF InPack, MoeLayers
  <2>. HIDE DEF q, r
  <2>2. q * Experts + r \in 0..(MoeLayers * Experts - 1)
    <3>1. q * Experts <= (MoeLayers - 1) * Experts /\ q * Experts \in Nat
      BY <1>1, <2>1
    <3>2. (MoeLayers - 1) * Experts = MoeLayers * Experts - Experts
          /\ MoeLayers * Experts \in Nat
      BY <1>1
    <3>. QED  BY <1>1, <2>1, <3>1, <3>2
  <2>3. (q * Experts + r) \div Experts = q /\ (q * Experts + r) % Experts = r
    <3>1. q \in Nat /\ r \in 0..(Experts - 1) /\ Experts \in Nat \ {0}
      BY <1>1, <2>1
    <3>. QED  BY <3>1, DivMod
  <2>4. LayerAt(q * Experts + r) = i[1] /\ ExpertAt(q * Experts + r) = r
    BY <2>1, <2>3 DEF LayerAt, ExpertAt
  <2>. QED  BY <2>2, <2>4 DEF q, r, Total
<1>. QED  BY <1>1, <1>2, <1>3, <1>4, <1>5

\* A sequence of units, and not an empty one.
Some(s) == \E m \in Nat \ {0} : s = [j \in 1..m |-> s[j]] /\ Len(s) = m

(* What a pack stores of an expert has some units.                         *)
LEMMA StoredIs ==
  ASSUME NEW l \in Nat, NEW e \in Nat
  PROVE  Some(Stored(l, e)) /\ Some(Blob(l, e)) /\ Len(Blob(l, e)) = 7
<1>1. \A m \in Nat : \A s : s = [j \in 1..m |-> s[j]] => Len(s) = m
  OBVIOUS
<1>2. Blob(l, e) = [j \in 1..7 |-> Blob(l, e)[j]]
  BY DEF Blob
<1>3. Some(Blob(l, e)) /\ Len(Blob(l, e)) = 7
  BY <1>1, <1>2 DEF Some
<1>. DEFINE m == 1 + ((l + e) % 3)
<1>4. m \in Nat \ {0}
  OBVIOUS
<1>5. Frame(l, e) = [j \in 1..m |-> Frame(l, e)[j]]
  BY DEF Frame
<1>. HIDE DEF m
<1>6. Some(Frame(l, e))
  BY <1>1, <1>4, <1>5 DEF Some
<1>. QED  BY <1>3, <1>6 DEF Stored

(* The core file has each text tensor once.                                *)
LEMMA CoreTensorsAre ==
  ASSUME model \in Models
  PROVE  CoreTensors \in Seq(TextTensors) /\ Range(CoreTensors) = TextTensors
<1>. DEFINE S == TextTensors
            m == Cardinality(S)
            f == SetToSeq(S)
<1>1. IsFiniteSet(S)
  <2>1. IsFiniteSet(model.core)
    BY PackAssumption, Zenon
  <2>2. S \subseteq model.core
    BY DEF TextTensors
  <2>. QED  BY <2>1, <2>2, FS_Subset
<1>. HIDE DEF S
<1>2. m \in Nat /\ ExistsBijection(1..m, S)
  BY <1>1, FS_CardinalityType
<1>3. \E g \in [1..m -> S] : IsInjective(g)
  BY <1>2 DEF ExistsBijection, Bijection, Injection
<1>4. f \in [1..m -> S] /\ IsInjective(f)
  BY <1>3 DEF SetToSeq
<1>. HIDE DEF f
<1>5. f \in Injection(1..m, S)
  BY <1>4 DEF Injection
<1>6. IsFiniteSet(1..m) /\ Cardinality(1..m) = m
  BY <1>2, FS_Interval
<1>. HIDE DEF m
<1>7. f \in Surjection(1..m, S)
  BY <1>1, <1>5, <1>6, FS_Injection DEF m
<1>8. Range(f) = S
  BY <1>4, <1>7 DEF Surjection, Range
<1>9. f \in Seq(S)
  BY <1>2, <1>4, SeqDef
<1>. QED  BY <1>8, <1>9 DEF f, S, CoreTensors

(* A function on the first numbers is a sequence of what it returns.       *)
LEMMA SomeSeq ==
  ASSUME NEW U, NEW s, NEW m \in Nat, s = [j \in 1..m |-> s[j]], \A j \in 1..m : s[j] \in U
  PROVE  s \in Seq(U) /\ Len(s) = m
<1>1. s \in [1..m -> U]
  OBVIOUS
<1>2. s \in Seq(U)
  BY <1>1, SeqDef
<1>. QED  BY <1>1, <1>2, LenProperties

(* The finished files of a model.                                          *)
LEMMA FilesExist ==
  ASSUME model \in Models
  PROVE  \E U, P, off, T, C : PackLaid(U, P, off, T) /\ CoreLaid(U, C)
<1>. DEFINE T == Total
            ln == [k \in 0..(T - 1) |-> Len(Laid(k))]
            s == [k \in 0..(T - 1) |-> align_up(ln[k])]
            cm == Len(CoreTensors) + 1
            C == [i \in 1..cm |-> IF i = 1 THEN CoreHeader ELSE Tensor(CoreTensors[i - 1])]
<1>1. /\ T \in Nat \ {0} /\ IndexEnd \in Nat /\ Align + T <= IndexEnd
      /\ Align \in Nat \ {0, 1}
      /\ \A k \in 0..(T - 1) : LayerAt(k) \in Nat /\ ExpertAt(k) \in 0..(Experts - 1)
      /\ Experts \in Nat \ {0}
  BY Sizes
<1>. HIDE DEF T
<1>2. ASSUME NEW k \in 0..(T - 1)
      PROVE  /\ Some(Laid(k)) /\ ln[k] \in Nat \ {0}
             /\ Laid(k) = [j \in 1..ln[k] |-> Laid(k)[j]] /\ ln[k] = Len(Laid(k))
  <2>1. LayerAt(k) \in Nat /\ ExpertAt(k) \in Nat
    BY <1>1
  <2>2. Some(Laid(k))
    BY <2>1, StoredIs DEF Laid
  <2>3. ln[k] = Len(Laid(k))
    OBVIOUS
  <2>. HIDE DEF ln
  <2>. QED  BY <2>2, <2>3 DEF Some
<1>. HIDE DEF ln
<1>3. \A k \in 0..(T - 1) : s[k] = align_up(ln[k]) /\ s[k] \in Nat /\ s[k] >= ln[k]
  BY <1>1, <1>2, AlignUp
<1>4. s \in [0..(T - 1) -> Nat]
  BY <1>3
<1>. HIDE DEF s
<1>5. PICK off : Totals(off, T, IndexEnd, s)
  BY <1>1, <1>4, TotalsExist
<1>6. \A k \in 0..T : \A j \in 0..k : off[j] <= off[k]
  BY <1>1, <1>4, <1>5, TotalsGrow
<1>7. /\ off \in [0..T -> Nat] /\ off[0] = IndexEnd
      /\ \A k \in 0..(T - 1) : /\ off[k] \in Nat /\ off[k + 1] \in Nat
                               /\ off[k + 1] = off[k] + s[k]
                               /\ off[0] <= off[k] /\ off[k + 1] <= off[T]
                               /\ off[k] + ln[k] <= off[k + 1] /\ off[k] < off[k + 1]
  <2>1. off \in [0..T -> Nat] /\ off[0] = IndexEnd
        /\ \A k \in 0..(T - 1) : off[k + 1] = off[k] + s[k]
    BY <1>5 DEF Totals
  <2>. SUFFICES ASSUME NEW k \in 0..(T - 1)
                PROVE  /\ off[k] \in Nat /\ off[k + 1] \in Nat
                       /\ off[k + 1] = off[k] + s[k]
                       /\ off[0] <= off[k] /\ off[k + 1] <= off[T]
                       /\ off[k] + ln[k] <= off[k + 1] /\ off[k] < off[k + 1]
    BY <2>1
  <2>2. k \in 0..T /\ k + 1 \in 0..T /\ 0 \in 0..k /\ k + 1 \in 0..T /\ T \in 0..T
    BY <1>1
  <2>3. off[0] <= off[k] /\ off[k + 1] <= off[T]
    BY <1>6, <2>2
  <2>. QED  BY <1>2, <1>3, <2>1, <2>2, <2>3
<1>. DEFINE Find(i) == CHOOSE k \in 0..(T - 1) : off[k] < i /\ i <= off[k + 1]
            Data(i) == IF i - off[Find(i)] <= ln[Find(i)]
                       THEN Laid(Find(i))[i - off[Find(i)]] ELSE Zero
            EntryAt(k) == Entry([offset |-> off[k], nbytes |-> ln[k]])
            HeadOf(i) == IF i = 1 THEN Magic ELSE IF i = 2 THEN Meta(FinalRaw)
                         ELSE IF i > Align /\ i <= Align + T THEN EntryAt(i - Align - 1)
                         ELSE Zero
            Unit(i) == IF i <= off[0] THEN HeadOf(i) ELSE Data(i)
            P == [i \in 1..off[T] |-> Unit(i)]
            U == {Zero} \cup {P[i] : i \in 1..off[T]} \cup {C[i] : i \in 1..cm}
                 \cup UNION {{Laid(k)[j] : j \in 1..ln[k]} : k \in 0..(T - 1)}
<1>8. ASSUME NEW k \in 0..(T - 1), NEW i \in Nat, off[k] < i, i <= off[k + 1]
      PROVE  Find(i) = k
  <2>1. \A j \in 0..(T - 1) : j < k => off[j + 1] <= off[k]
    <3>1. \A j \in 0..(T - 1) : j < k => j + 1 \in 0..k
      BY <1>1
    <3>2. k \in 0..T
      BY <1>1
    <3>. QED  BY <1>6, <3>1, <3>2
  <2>2. \A j \in 0..(T - 1) : k < j => off[k + 1] <= off[j]
    <3>1. \A j \in 0..(T - 1) : k < j => k + 1 \in 0..j /\ j \in 0..T
      BY <1>1
    <3>. QED  BY <1>6, <3>1
  <2>3. \A j \in 0..(T - 1) : off[j] < i /\ i <= off[j + 1] => j = k
    <3>. SUFFICES ASSUME NEW j \in 0..(T - 1), off[j] < i, i <= off[j + 1], j # k
                  PROVE  FALSE
      OBVIOUS
    <3>1. j < k \/ k < j
      OBVIOUS
    <3>2. off[j] \in Nat /\ off[j + 1] \in Nat /\ off[k] \in Nat /\ off[k + 1] \in Nat
      BY <1>7
    <3>. QED  BY <1>8, <2>1, <2>2, <3>1, <3>2
  <2>. QED  BY <1>8, <2>3
<1>. HIDE DEF Find
<1>9. off[T] \in Nat /\ off[0] \in Nat /\ off[0] < off[T]
  <2>1. 0 \in 0..(T - 1) /\ T \in 0..T /\ 0 \in 0..T
    BY <1>1
  <2>2. off[0] < off[0 + 1] /\ off[0 + 1] <= off[T] /\ off[0 + 1] \in Nat
    BY <1>7, <2>1
  <2>. QED  BY <1>7, <2>1, <2>2
<1>10. \A i \in 1..off[T] : P[i] = Unit(i) /\ P[i] \in U
  OBVIOUS
<1>11. P \in Seq(U) /\ Len(P) = off[T]
  <2>1. P = [i \in 1..off[T] |-> P[i]]
    OBVIOUS
  <2>. HIDE DEF P, U, Unit
  <2>. QED  BY <1>9, <1>10, <2>1, SomeSeq
<1>12. Zero \in U /\ (\A i \in 1..cm : C[i] \in U)
       /\ \A k \in 0..(T - 1) : \A j \in 1..ln[k] : Laid(k)[j] \in U
  OBVIOUS
<1>. HIDE DEF P, U
<1>13. ASSUME NEW k \in 0..(T - 1)
       PROVE  /\ Laid(k) \in Seq(U) /\ Len(Laid(k)) >= 1
              /\ off[0] <= off[k] /\ off[k + 1] <= Len(P)
              /\ off[k + 1] = off[k] + align_up(Len(Laid(k)))
              /\ P[Align + k + 1] = Entry([offset |-> off[k], nbytes |-> Len(Laid(k))])
              /\ \A j \in 1..Len(Laid(k)) : P[off[k] + j] = Laid(k)[j]
              /\ \A i \in (off[k] + Len(Laid(k)) + 1)..off[k + 1] : P[i] = Zero
  <2>0. Laid(k) = [j \in 1..ln[k] |-> Laid(k)[j]] /\ ln[k] = Len(Laid(k)) /\ ln[k] \in Nat \ {0}
    BY <1>2
  <2>9. ln[k] \in Nat /\ ln[k] >= 1
    <3>. DEFINE m == ln[k]
    <3>1. m \in Nat \ {0}
      BY <2>0
    <3>. HIDE DEF m
    <3>2. m \in Nat /\ m >= 1
      BY <3>1
    <3>. QED  BY <3>2 DEF m
  <2>1. Laid(k) \in Seq(U)
    <3>1. \A j \in 1..ln[k] : Laid(k)[j] \in U
      BY <1>12
    <3>2. ln[k] \in Nat
      BY <2>0
    <3>. DEFINE b == Laid(k)
                m == ln[k]
    <3>3. b = [j \in 1..m |-> b[j]]
      BY <2>0
    <3>. HIDE DEF b, m
    <3>4. b \in Seq(U)
      BY <3>1, <3>2, <3>3, SomeSeq DEF b, m
    <3>. QED  BY <3>4 DEF b
  <2>2. /\ off[0] <= off[k] /\ off[k + 1] <= Len(P) /\ off[k] \in Nat /\ off[k + 1] \in Nat
        /\ off[k + 1] = off[k] + align_up(ln[k]) /\ off[k] + ln[k] <= off[k + 1]
    BY <1>3, <1>7, <1>11
  <2>3. P[Align + k + 1] = Entry([offset |-> off[k], nbytes |-> ln[k]])
    <3>1. /\ Align + k + 1 \in 1..off[T] /\ Align + k + 1 <= off[0] /\ Align + k + 1 > 2
          /\ Align + k + 1 > Align /\ Align + k + 1 <= Align + T
          /\ (Align + k + 1) - Align - 1 = k
      BY <1>1, <1>7, <1>9
    <3>. HIDE DEF EntryAt
    <3>2. P[Align + k + 1] = EntryAt(k)
      BY <1>1, <1>10, <3>1
    <3>. QED  BY <3>2 DEF EntryAt
  <2>4. ASSUME NEW i \in (off[k] + 1)..off[k + 1]
        PROVE  P[i] = IF i - off[k] <= ln[k] THEN Laid(k)[i - off[k]] ELSE Zero
    <3>1. i \in 1..off[T] /\ ~(i <= off[0]) /\ i \in Nat /\ off[k] < i /\ i <= off[k + 1]
      BY <2>2, <1>9, <1>11
    <3>2. Find(i) = k
      BY <1>8, <3>1
    <3>. HIDE DEF HeadOf
    <3>. QED  BY <1>10, <3>1, <3>2
  <2>5. ASSUME NEW j \in 1..ln[k]
        PROVE  P[off[k] + j] = Laid(k)[j]
    <3>1. off[k] + j \in (off[k] + 1)..off[k + 1] /\ (off[k] + j) - off[k] = j /\ j <= ln[k]
      BY <2>2, <2>9
    <3>. QED  BY <2>4, <3>1
  <2>6. ASSUME NEW i \in (off[k] + ln[k] + 1)..off[k + 1]
        PROVE  P[i] = Zero
    <3>1. i \in (off[k] + 1)..off[k + 1] /\ ~(i - off[k] <= ln[k])
      BY <2>2, <2>9
    <3>. QED  BY <2>4, <3>1
  <2>8. ln[k] = Len(Laid(k))
    BY <2>0
  <2>. QED  BY <2>1, <2>2, <2>3, <2>5, <2>6, <2>8, <2>9
<1>14. /\ P[1] = Magic /\ P[2] = Meta(FinalRaw)
       /\ \A i \in 3..Align : P[i] = Zero
       /\ \A i \in (Align + T + 1)..off[0] : P[i] = Zero
  <2>1. \A i \in 1..off[0] : P[i] = HeadOf(i)
    <3>. HIDE DEF HeadOf
    <3>1. \A i \in 1..off[0] : Unit(i) = HeadOf(i) /\ i \in 1..off[T]
      BY <1>9
    <3>. HIDE DEF Unit
    <3>. QED  BY <1>10, <3>1
  <2>2. Align + T <= off[0]
    BY <1>1, <1>7
  <2>3. 1 \in 1..off[0] /\ 2 \in 1..off[0]
    BY <1>1, <1>9, <2>2
  <2>4. \A i \in 3..Align : i \in 1..off[0] /\ i # 1 /\ i # 2 /\ ~(i > Align)
    BY <1>1, <1>9, <2>2
  <2>5. \A i \in (Align + T + 1)..off[0] :
          i \in 1..off[0] /\ i # 1 /\ i # 2 /\ ~(i <= Align + T)
    BY <1>1, <1>9, <2>2
  <2>6. P[1] = Magic
    BY <2>1, <2>3
  <2>7. P[2] = Meta(FinalRaw)
    <3>. HIDE DEF EntryAt
    <3>1. HeadOf(2) = Meta(FinalRaw)
      OBVIOUS
    <3>. HIDE DEF HeadOf
    <3>. QED  BY <2>1, <2>3, <3>1
  <2>. HIDE DEF EntryAt
  <2>8. \A i \in 3..Align : P[i] = Zero
    BY <2>1, <2>4
  <2>9. \A i \in (Align + T + 1)..off[0] : P[i] = Zero
    BY <2>1, <2>5
  <2>. QED  BY <2>6, <2>7, <2>8, <2>9
<1>15. PackLaid(U, P, off, T)
  <2>1. T = Total
    BY DEF T
  <2>. QED  BY <2>1, <1>1, <1>7, <1>9, <1>11, <1>12, <1>13, <1>14 DEF PackLaid
<1>16. CoreLaid(U, C)
  <2>1. CoreTensors \in Seq(TextTensors) /\ Range(CoreTensors) = TextTensors
        /\ cm \in Nat /\ Len(CoreTensors) \in Nat
    BY CoreTensorsAre
  <2>2. C = [i \in 1..cm |-> C[i]]
    OBVIOUS
  <2>3. C[1] = CoreHeader /\ \A i \in 1..Len(CoreTensors) : C[i + 1] = Tensor(CoreTensors[i])
    <3>. DEFINE l == Len(CoreTensors)
    <3>. HIDE DEF l
    <3>1. l \in Nat /\ C = [i \in 1..(l + 1) |-> IF i = 1 THEN CoreHeader ELSE Tensor(CoreTensors[i - 1])]
      BY <2>1 DEF l
    <3>. HIDE DEF C
    <3>2. C[1] = CoreHeader
      BY <3>1
    <3>3. ASSUME NEW i \in 1..l
          PROVE  C[i + 1] = Tensor(CoreTensors[i])
      <4>1. i + 1 \in 1..(l + 1) /\ i + 1 # 1 /\ (i + 1) - 1 = i
        BY <3>1
      <4>. QED  BY <3>1, <4>1
    <3>. QED  BY <3>2, <3>3 DEF l
  <2>. HIDE DEF C, cm
  <2>4. C \in Seq(U) /\ Len(C) = cm
    BY <1>12, <2>1, <2>2, SomeSeq
  <2>. QED  BY <2>1, <2>3, <2>4 DEF CoreLaid, cm
<1>. HIDE DEF C
<1>. QED  BY <1>15, <1>16

(* The finished files stay the same: no step changes the model.            *)
LEMMA LaidSame ==
  ASSUME NEW U, NEW P, NEW off, NEW T, NEW C, model' = model,
         PackLaid(U, P, off, T), CoreLaid(U, C)
  PROVE  PackLaid(U, P, off, T)' /\ CoreLaid(U, C)'
<1>1. Total' = Total
  BY DEF Total, MoeLayers
<1>2. IndexEnd' = IndexEnd
  BY <1>1 DEF IndexEnd, align_up
<1>3. ASSUME NEW k
      PROVE  Laid(k)' = Laid(k)
  BY DEF Laid, Stored, Frame, Blob, LayerAt, ExpertAt
<1>4. Meta(FinalRaw)' = Meta(FinalRaw)
  BY DEF Meta, FinalRaw, MoeLayers
<1>5. TextTensors' = TextTensors
  BY DEF TextTensors
<1>6. CoreTensors' = CoreTensors
  BY <1>5 DEF CoreTensors
<1>7. CoreHeader' = CoreHeader
  BY <1>6 DEF CoreHeader
<1>8. PackLaid(U, P, off, T)'
  BY <1>1, <1>2, <1>3, <1>4 DEF PackLaid, align_up, Magic, Zero, Entry
<1>9. CoreLaid(U, C)'
  BY <1>5, <1>6, <1>7 DEF CoreLaid, Tensor, Range
<1>. QED  BY <1>8, <1>9

-----------------------------------------------------------------------------
(* What the files are, given how far they are written.                     *)

(* The finished pack, its types and positions.                             *)
LEMMA LaidTypes ==
  ASSUME NEW U, NEW P, NEW off, NEW T, PackLaid(U, P, off, T), Align \in Nat \ {0, 1}
  PROVE  /\ T \in Nat \ {0} /\ Zero \in U /\ P \in Seq(U) /\ Len(P) \in Nat
         /\ <<>> \in Seq(U) /\ Len(<<>>) = 0
         /\ off[0] \in Nat /\ 2 <= Align /\ Align + T <= off[0] /\ off[0] < Len(P)
         /\ Blank(P, off) \in Seq(U) /\ Len(Blank(P, off)) = Len(P)
         /\ \A i \in 1..Len(P) : Blank(P, off)[i] = IF i <= off[0] THEN Zero ELSE P[i]
<1>1. /\ T \in Nat \ {0} /\ Zero \in U /\ P \in Seq(U) /\ Len(P) \in Nat
      /\ off[0] \in Nat /\ 2 <= Align /\ Align + T <= off[0] /\ off[0] < Len(P)
  <2>1. T \in Nat \ {0} /\ off \in [0..T -> Nat] /\ P \in Seq(U) /\ Zero \in U
        /\ Align + T <= off[0] /\ off[0] < Len(P)
    BY DEF PackLaid
  <2>2. 0 \in 0..T
    BY <2>1
  <2>. QED  BY <2>1, <2>2
<1>. DEFINE B == Blank(P, off)
            l == Len(P)
<1>2. B = [i \in 1..l |-> B[i]] /\ \A i \in 1..l : B[i] = IF i <= off[0] THEN Zero ELSE P[i]
  BY DEF Blank
<1>3. \A i \in 1..l : P[i] \in U
  BY <1>1
<1>4. l \in Nat
  BY <1>1
<1>. HIDE DEF B, l
<1>5. \A i \in 1..l : B[i] \in U
  BY <1>1, <1>2, <1>3
<1>6. B \in Seq(U) /\ Len(B) = l
  BY <1>2, <1>4, <1>5, SomeSeq
<1>. QED  BY <1>1, <1>2, <1>6, EmptySeq DEF B, l

(* Before finish the pack is the beginning of one without a header.        *)
LEMMA BlobsPrefix ==
  ASSUME NEW U, NEW P, NEW off, NEW T, PackLaid(U, P, off, T), Align \in Nat \ {0, 1},
         NEW f, NEW pos \in Nat, off[0] <= pos, pos <= Len(P),
         Over(U, f, <<>>, off[0], P, pos)
  PROVE  /\ PrefixOf(U, f, Blank(P, off))
         /\ pos = Len(P) => f = Blank(P, off)
<1>1. /\ P \in Seq(U) /\ Len(P) \in Nat /\ off[0] \in Nat /\ off[0] < Len(P)
      /\ Blank(P, off) \in Seq(U) /\ Len(Blank(P, off)) = Len(P) /\ Len(<<>>) = 0
      /\ \A i \in 1..Len(P) : Blank(P, off)[i] = IF i <= off[0] THEN Zero ELSE P[i]
      /\ <<>> \in Seq(U)
  BY LaidTypes
<1>. DEFINE B == Blank(P, off)
<1>2. f \in Seq(U) /\ Len(f) \in Nat
  BY DEF Over
<1>3. CASE pos = off[0]
  BY <1>1, <1>3 DEF Over, PrefixOf
<1>4. CASE pos # off[0]
  <2>1. Len(f) = pos
        /\ \A i \in 1..Len(f) : f[i] = IF i \in (off[0] + 1)..pos THEN P[i] ELSE Zero
    <3>1. ~(0 >= pos) /\ \A i \in 1..Len(f) : ~(i <= 0)
      BY <1>1, <1>4
    <3>. QED  BY <1>1, <1>4, <3>1 DEF Over
  <2>2. \A i \in 1..Len(f) : f[i] = B[i]
    <3>. SUFFICES ASSUME NEW i \in 1..Len(f)
                  PROVE  f[i] = B[i]
      OBVIOUS
    <3>1. i \in 1..Len(P) /\ (i \in (off[0] + 1)..pos <=> ~(i <= off[0]))
      BY <1>1, <2>1
    <3>. QED  BY <1>1, <2>1, <3>1
  <2>3. PrefixOf(U, f, B)
    BY <1>1, <1>2, <2>1, <2>2 DEF PrefixOf
  <2>4. ASSUME pos = Len(P)
        PROVE  f = B
    <3>1. Len(f) = Len(B)
      BY <2>1, <2>4, <1>1
    <3>. HIDE DEF B
    <3>. QED  BY <1>1, <1>2, <2>2, <3>1, SeqEqual DEF B
  <2>. QED  BY <2>3, <2>4
<1>. QED  BY <1>3, <1>4

(* A core file is always the beginning of the finished one.                *)
LEMMA CorePrefix ==
  ASSUME NEW U, NEW C, CoreLaid(U, C), NEW f, NEW pos \in Nat, pos <= Len(C),
         Over(U, f, <<>>, 0, C, pos)
  PROVE  PrefixOf(U, f, C)
<1>1. C \in Seq(U) /\ Len(C) \in Nat /\ f \in Seq(U) /\ Len(<<>>) = 0
  BY EmptySeq DEF CoreLaid, Over
<1>2. CASE pos = 0
  BY <1>1, <1>2 DEF Over, PrefixOf
<1>3. CASE pos # 0
  <2>1. ~(0 >= pos)
    BY <1>3
  <2>2. Len(f) = pos /\ \A i \in 1..Len(f) : i \in (0 + 1)..pos => f[i] = C[i]
    BY <1>1, <1>3, <2>1 DEF Over
  <2>3. \A i \in 1..Len(f) : i \in (0 + 1)..pos
    BY <2>2
  <2>. QED  BY <1>1, <2>2, <2>3 DEF PrefixOf
<1>. QED  BY <1>2, <1>3

(* While the index is written the pack is whole but for holes in it.       *)
LEMMA IndexHoled ==
  ASSUME NEW U, NEW P, NEW off, NEW T, PackLaid(U, P, off, T), Align \in Nat \ {0, 1},
         NEW f, NEW pos \in Nat, pos <= off[0],
         Over(U, f, Blank(P, off), 0, P, pos)
  PROVE  /\ Holed(U, f, P, off) /\ Len(f) = Len(P)
         /\ pos = off[0] => f = P
<1>1. /\ P \in Seq(U) /\ Len(P) \in Nat /\ off[0] \in Nat /\ off[0] < Len(P)
      /\ Blank(P, off) \in Seq(U) /\ Len(Blank(P, off)) = Len(P)
      /\ \A i \in 1..Len(P) : Blank(P, off)[i] = IF i <= off[0] THEN Zero ELSE P[i]
      /\ 0 < off[0]
  BY LaidTypes
<1>2. f \in Seq(U) /\ Len(f) = Len(P)
  BY <1>1 DEF Over
<1>3. \A i \in 1..Len(P) : f[i] = IF i <= pos \/ i > off[0] THEN P[i] ELSE Zero
  <2>1. CASE pos = 0
    BY <1>1, <2>1 DEF Over
  <2>2. CASE pos # 0
    <3>. SUFFICES ASSUME NEW i \in 1..Len(P)
                  PROVE  f[i] = IF i <= pos \/ i > off[0] THEN P[i] ELSE Zero
      OBVIOUS
    <3>1. f[i] = IF i \in (0 + 1)..pos THEN P[i] ELSE Blank(P, off)[i]
      BY <1>1, <1>2, <2>2 DEF Over
    <3>. QED  BY <1>1, <3>1
  <2>. QED  BY <2>1, <2>2
<1>4. Holed(U, f, P, off)
  BY <1>1, <1>2, <1>3 DEF Holed
<1>5. ASSUME pos = off[0]
      PROVE  f = P
  <2>1. \A i \in 1..Len(P) : f[i] = P[i]
    BY <1>1, <1>3, <1>5
  <2>. QED  BY <1>1, <1>2, <2>1, SeqEqual
<1>. QED  BY <1>2, <1>4, <1>5

-----------------------------------------------------------------------------
(* The converter keeps the invariant.                                      *)

(* It holds at first.                                                      *)
LEMMA InitGood ==
  ASSUME Init
  PROVE  PackInv
<1>1. PICK U, P, off, T, C : PackLaid(U, P, off, T) /\ CoreLaid(U, C)
  BY FilesExist DEF Init
<1>2. C \in Seq(U) /\ Len(C) \in Nat /\ <<>> \in Seq(U) /\ Len(<<>>) = 0
  BY <1>1, EmptySeq DEF CoreLaid
<1>3. PrefixOf(U, core, C)
  BY <1>2 DEF Init, PrefixOf
<1>4. Shape(U, P, off, T, C)
  BY <1>2, <1>3 DEF Init, Shape, Blobs, Finishing, Left, Core, Server
<1>5. CoreWhole
  BY <1>2 DEF Init, CoreWhole
<1>6. Good(U, P, off, T, C)
  BY <1>1, <1>4 DEF Good, Init
<1>. QED  BY <1>5, <1>6 DEF PackInv

(* The core file is written: Start, WriteTensor and FlushCore.             *)
LEMMA CoreSteps ==
  ASSUME NEW U, NEW P, NEW off, NEW T, NEW C, Good(U, P, off, T, C),
         (\E c \in Damages : Start(c)) \/ WriteTensor \/ FlushCore
  PROVE  Shape(U, P, off, T, C)'
<1>1. /\ C \in Seq(U) /\ Len(C) \in Nat /\ Len(C) = Len(CoreTensors) + 1
      /\ Len(CoreTensors) \in Nat
      /\ Zero \in U /\ <<>> \in Seq(U) /\ Len(<<>>) = 0 /\ CoreLaid(U, C)
      /\ Left(U, P, off) /\ Core(U, C) /\ Server(U, P, C, T)
      /\ C[1] = CoreHeader /\ \A i \in 1..Len(CoreTensors) : C[i + 1] = Tensor(CoreTensors[i])
      /\ Cap \in Nat \ {0}
  <2>1. CoreLaid(U, C) /\ Zero \in U /\ Shape(U, P, off, T, C) /\ Cap \in Nat \ {0}
    BY Sizes DEF Good, PackLaid
  <2>. QED  BY <2>1, EmptySeq DEF CoreLaid, Shape
<1>2. /\ pc \in {"idle", "core"} /\ pc' \in {"idle", "core", "create"}
      /\ pc' = "create" => w' = Writer(0)
      /\ UNCHANGED <<made, pack, server>>
  BY DEF Start, WriteTensor, FlushCore, files, Writer
<1>3. Blobs(U, P, off, T)' /\ Finishing(U, P, off, T)' /\ Left(U, P, off)'
  BY <1>1, <1>2 DEF Blobs, Finishing, Left, PrefixOf, Holed, Blank
<1>4. Server(U, P, C, T)'
  BY <1>1, <1>2 DEF Server, server, EntryIn, NoEntry
<1>5. ASSUME NEW c \in Damages, Start(c)
      PROVE  Core(U, C)'
  <2>1. CASE OutOfRange(c)
    BY <1>1, <1>5, <2>1 DEF Start, Core, PrefixOf
  <2>2. CASE ~OutOfRange(c)
    <3>1. /\ pc' = "core" /\ n' = 0 /\ core' = <<>>
          /\ w' = [pos |-> 0, buf |-> <<CoreHeader>>]
      BY <1>5, <2>2 DEF Start
    <3>2. CoreHeader \in U
      BY <1>1, ElementOfSeq
    <3>3. w'.buf \in Seq(U) /\ Len(w'.buf) = 1 /\ w'.buf[1] = CoreHeader /\ w'.pos = 0
          /\ w' = [pos |-> w'.pos, buf |-> w'.buf]
      <4>. DEFINE h == CoreHeader
      <4>. HIDE DEF h
      <4>1. <<h>> \in Seq(U) /\ Len(<<h>>) = 1 /\ <<h>>[1] = h
        BY <3>2 DEF h
      <4>2. w'.pos = 0 /\ w'.buf = <<h>> /\ w' = [pos |-> w'.pos, buf |-> w'.buf]
        BY <3>1 DEF h
      <4>. QED  BY <4>1, <4>2 DEF h
    <3>4. Over(U, core', <<>>, 0, C, 0)
      BY <1>1, <3>1 DEF Over
    <3>5. Tracks(U, core', w', <<>>, 0, C)
      BY <1>1, <3>3, <3>4 DEF Tracks
    <3>6. PrefixOf(U, core', C)
      BY <1>1, <3>1 DEF PrefixOf
    <3>. QED  BY <3>1, <3>3, <3>5, <3>6 DEF Core
  <2>. QED  BY <2>1, <2>2
<1>6. ASSUME WriteTensor
      PROVE  Core(U, C)'
  <2>. DEFINE t == Tensor(CoreTensors[n + 1])
              data == <<t>>
              r == Written(core, w, data)
  <2>1. /\ pc = "core" /\ n < Len(CoreTensors) /\ n \in Nat /\ w.pos + Len(w.buf) = n + 1
        /\ Tracks(U, core, w, <<>>, 0, C)
        /\ core' = r.file /\ w' = r.w /\ n' = n + 1 /\ pc' = pc
    BY <1>1, <1>6 DEF WriteTensor, Core
  <2>2. t = C[n + 2] /\ t \in U
    <3>1. n + 1 \in 1..Len(CoreTensors) /\ (n + 1) + 1 = n + 2 /\ n + 2 \in 1..Len(C)
      BY <1>1, <2>1
    <3>2. t = C[(n + 1) + 1]
      BY <1>1, <3>1
    <3>. QED  BY <1>1, <3>1, <3>2, ElementOfSeq
  <2>. HIDE DEF t
  <2>3. data \in Seq(U) /\ Len(data) = 1 /\ \A j \in 1..Len(data) : j = 1 /\ data[j] = t
    BY <2>2
  <2>. HIDE DEF data
  <2>4. Due(w, data, C)
    BY <1>1, <2>1, <2>2, <2>3 DEF Due
  <2>5. Tracks(U, r.file, r.w, <<>>, 0, C) /\ r.w.pos + Len(r.w.buf) = n + 2
    <3>1. Moved(U, r, w, data, <<>>, 0, C)
      BY <1>1, <2>1, <2>3, <2>4, WrittenTracks
    <3>. HIDE DEF r
    <3>. QED  BY <2>1, <2>3, <3>1 DEF Moved
  <2>. HIDE DEF r
  <2>6. PrefixOf(U, r.file, C)
    <3>1. /\ Over(U, r.file, <<>>, 0, C, r.w.pos) /\ r.w.pos \in Nat
          /\ r.w.buf \in Seq(U) /\ r.w.pos + Len(r.w.buf) <= Len(C)
      BY <2>5 DEF Tracks
    <3>2. r.w.pos <= Len(C)
      BY <1>1, <3>1
    <3>. QED  BY <1>1, <3>1, <3>2, CorePrefix
  <2>. QED  BY <2>1, <2>5, <2>6 DEF Core
<1>7. ASSUME FlushCore
      PROVE  Core(U, C)'
  <2>1. pc = "core" /\ Tracks(U, core, w, <<>>, 0, C) /\ core' = Flushed(core, w)
        /\ pc' = "create"
    BY <1>1, <1>7 DEF FlushCore, Core
  <2>2. Over(U, core', <<>>, 0, C, w.pos + Len(w.buf))
    BY <1>1, <2>1, FlushedOver
  <2>3. w.pos + Len(w.buf) \in Nat /\ w.pos + Len(w.buf) <= Len(C)
    BY <2>1 DEF Tracks
  <2>4. PrefixOf(U, core', C)
    BY <1>1, <2>2, <2>3, CorePrefix
  <2>. QED  BY <2>1, <2>4 DEF Core
<1>8. Core(U, C)'
  BY <1>5, <1>6, <1>7
<1>. QED  BY <1>3, <1>4, <1>8 DEF Shape

\* What the steps on the pack start from.
PackFacts(U, P, off, T, C) ==
  /\ Good(U, P, off, T, C) /\ PackLaid(U, P, off, T)
  /\ T \in Nat \ {0} /\ T = Total /\ Zero \in U /\ P \in Seq(U) /\ Len(P) \in Nat
  /\ <<>> \in Seq(U) /\ Len(<<>>) = 0
  /\ off[0] \in Nat /\ Align + T <= off[0] /\ off[0] < Len(P) /\ off[0] = IndexEnd
  /\ Align \in Nat \ {0, 1} /\ Cap \in Nat \ {0}
  /\ \A k \in 0..T : off[k] \in Nat
  /\ \A k \in 0..(T - 1) : Laid(k) \in Seq(U) /\ Len(Laid(k)) \in Nat
  /\ Blobs(U, P, off, T) /\ Finishing(U, P, off, T) /\ Left(U, P, off)
  /\ Core(U, C) /\ Server(U, P, C, T)

LEMMA GoodFacts ==
  ASSUME NEW U, NEW P, NEW off, NEW T, NEW C, Good(U, P, off, T, C)
  PROVE  PackFacts(U, P, off, T, C)
<1>1. /\ PackLaid(U, P, off, T) /\ Align \in Nat \ {0, 1} /\ Cap \in Nat \ {0}
      /\ Shape(U, P, off, T, C)
  BY Sizes DEF Good
<1>2. /\ T \in Nat \ {0} /\ Zero \in U /\ P \in Seq(U) /\ Len(P) \in Nat
      /\ <<>> \in Seq(U) /\ Len(<<>>) = 0
      /\ off[0] \in Nat /\ Align + T <= off[0] /\ off[0] < Len(P)
  BY <1>1, LaidTypes
<1>3. T = Total /\ off[0] = IndexEnd /\ \A k \in 0..T : off[k] \in Nat
  BY <1>1 DEF PackLaid
<1>4. \A k \in 0..(T - 1) : Laid(k) \in Seq(U) /\ Len(Laid(k)) \in Nat
  <2>1. \A k \in 0..(T - 1) : Laid(k) \in Seq(U)
    BY <1>1 DEF PackLaid
  <2>2. \A s \in Seq(U) : Len(s) \in Nat
    OBVIOUS
  <2>. QED  BY <2>1, <2>2
<1>. QED  BY <1>1, <1>2, <1>3, <1>4 DEF PackFacts, Shape

(* Steps on the pack leave the core file and the server alone.             *)
LEMMA OthersKept ==
  ASSUME NEW U, NEW P, NEW off, NEW T, NEW C, Core(U, C), Server(U, P, C, T),
         pc' # "core", UNCHANGED <<core, server>>
  PROVE  Core(U, C)' /\ Server(U, P, C, T)'
<1>1. Core(U, C)'
  BY DEF Core, PrefixOf
<1>2. Server(U, P, C, T)'
  BY DEF Server, server, EntryIn, NoEntry
<1>. QED  BY <1>1, <1>2

(* The pack is created: nothing is written yet.                            *)
LEMMA CreateStep ==
  ASSUME NEW U, NEW P, NEW off, NEW T, NEW C, Good(U, P, off, T, C), CreatePack
  PROVE  Shape(U, P, off, T, C)'
<1>1. PackFacts(U, P, off, T, C)
  BY GoodFacts
<1>2. /\ pack' = <<>> /\ w' = Writer(off[0]) /\ index' = <<>> /\ cursor' = off[0]
      /\ maxraw' = 0 /\ pc' = "blobs" /\ made' = "none" /\ UNCHANGED <<core, server>>
  BY <1>1 DEF CreatePack, PackFacts
<1>3. /\ Tracks(U, <<>>, Writer(off[0]), <<>>, off[0], P)
      /\ Writer(off[0]).pos + Len(Writer(off[0]).buf) = off[0]
  <2>1. off[0] <= Len(P) /\ off[0] \in Nat /\ <<>> \in Seq(U) /\ P \in Seq(U)
    BY <1>1 DEF PackFacts
  <2>. QED  BY <2>1, WriterTracks
<1>4. index' = [i \in 1..0 |-> EntryIn(P, i - 1)]
  BY <1>2
<1>5. Blobs(U, P, off, T)'
  <2>1. 0 \in 0..T
    BY <1>1 DEF PackFacts
  <2>. QED  BY <1>2, <1>3, <1>4, <2>1 DEF Blobs, Indexed, EntryIn, Tracks, Over
<1>. QED  BY <1>1, <1>2, <1>5, OthersKept DEF PackFacts, Shape, Finishing, Left

(* An error: what was written stays, without a header.                     *)
LEMMA BailStep ==
  ASSUME NEW U, NEW P, NEW off, NEW T, NEW C, Good(U, P, off, T, C), pc = "blobs", Bail
  PROVE  Shape(U, P, off, T, C)'
<1>1. PackFacts(U, P, off, T, C)
  BY GoodFacts
<1>2. Tracks(U, pack, w, <<>>, off[0], P)
  BY <1>1 DEF PackFacts, Blobs
<1>3. PrefixOf(U, Flushed(pack, w), Blank(P, off))
  <2>1. Over(U, Flushed(pack, w), <<>>, off[0], P, w.pos + Len(w.buf))
    BY <1>1, <1>2, FlushedOver DEF PackFacts
  <2>2. w.pos + Len(w.buf) \in Nat /\ off[0] <= w.pos + Len(w.buf)
        /\ w.pos + Len(w.buf) <= Len(P)
    BY <1>1, <1>2 DEF Tracks, PackFacts
  <2>. QED  BY <1>1, <2>1, <2>2, BlobsPrefix DEF PackFacts
<1>4. /\ pack' = Flushed(pack, w) /\ pc' = "idle" /\ made' = "failed"
      /\ UNCHANGED <<core, server>>
  BY DEF Bail
<1>5. Left(U, P, off)'
  BY <1>3, <1>4 DEF Left, PrefixOf, Blank
<1>. QED  BY <1>1, <1>4, <1>5, OthersKept DEF PackFacts, Shape, Finishing, Blobs

(* Zeros is a sequence of zeros.                                           *)
LEMMA ZerosAre ==
  ASSUME NEW U, Zero \in U, NEW k \in Nat
  PROVE  Zeros(k) \in Seq(U) /\ Len(Zeros(k)) = k /\ \A j \in 1..k : Zeros(k)[j] = Zero
<1>1. Zeros(k) = [j \in 1..k |-> Zeros(k)[j]] /\ \A j \in 1..k : Zeros(k)[j] = Zero
  BY DEF Zeros
<1>. HIDE DEF Zeros
<1>2. Zeros(k) \in Seq(U) /\ Len(Zeros(k)) = k
  BY <1>1, SomeSeq
<1>. QED  BY <1>1, <1>2

\* Where the k-th blob is.
BlobAt(U, P, off, T, k) ==
  /\ Laid(k) \in Seq(U) /\ Len(Laid(k)) \in Nat \ {0}
  /\ off[k] \in Nat /\ off[k + 1] \in Nat /\ off[0] <= off[k] /\ off[k + 1] <= Len(P)
  /\ off[k + 1] = off[k] + align_up(Len(Laid(k)))
  /\ align_up(Len(Laid(k))) \in Nat /\ align_up(Len(Laid(k))) >= Len(Laid(k))
  /\ P[Align + k + 1] = Entry([offset |-> off[k], nbytes |-> Len(Laid(k))])
  /\ EntryIn(P, k) = [offset |-> off[k], nbytes |-> Len(Laid(k))]
  /\ \A j \in 1..Len(Laid(k)) : P[off[k] + j] = Laid(k)[j]
  /\ \A i \in (off[k] + Len(Laid(k)) + 1)..off[k + 1] : P[i] = Zero

LEMMA BlobsAre ==
  ASSUME NEW U, NEW P, NEW off, NEW T, NEW C, PackFacts(U, P, off, T, C),
         NEW k \in 0..(T - 1)
  PROVE  BlobAt(U, P, off, T, k)
<1>1. /\ Laid(k) \in Seq(U) /\ Len(Laid(k)) >= 1
      /\ off[0] <= off[k] /\ off[k + 1] <= Len(P)
      /\ off[k + 1] = off[k] + align_up(Len(Laid(k)))
      /\ P[Align + k + 1] = Entry([offset |-> off[k], nbytes |-> Len(Laid(k))])
      /\ \A j \in 1..Len(Laid(k)) : P[off[k] + j] = Laid(k)[j]
      /\ \A i \in (off[k] + Len(Laid(k)) + 1)..off[k + 1] : P[i] = Zero
  BY DEF PackFacts, PackLaid
<1>2. T \in Nat /\ \A j \in 0..T : off[j] \in Nat
  BY DEF PackFacts
<1>3. off[k] \in Nat /\ off[k + 1] \in Nat
  <2>1. k \in 0..T /\ k + 1 \in 0..T
    BY <1>2
  <2>. QED  BY <1>2, <2>1
<1>. DEFINE m == Len(Laid(k))
<1>4. m \in Nat
  BY DEF PackFacts
<1>5. m \in Nat \ {0}
  <2>1. m >= 1
    BY <1>1
  <2>. HIDE DEF m
  <2>. QED  BY <1>4, <2>1
<1>6. align_up(m) \in Nat /\ align_up(m) >= m
  <2>1. Align \in Nat \ {0, 1}
    BY DEF PackFacts
  <2>. QED  BY <1>4, <2>1, AlignUp
<1>7. EntryIn(P, k) = [offset |-> off[k], nbytes |-> m]
  <2>. HIDE DEF m
  <2>1. P[Align + k + 1] = Entry([offset |-> off[k], nbytes |-> m])
    BY <1>1 DEF m
  <2>. QED  BY <2>1 DEF EntryIn, Entry
<1>. QED  BY <1>1, <1>3, <1>5, <1>6, <1>7 DEF BlobAt

(* The index grows by one entry.                                           *)
LEMMA IndexGrows ==
  ASSUME NEW P, NEW k \in Nat, Indexed(P, k)
  PROVE  /\ Len(index) = k
         /\ \A e : e = EntryIn(P, k) =>
              Append(index, e) = [i \in 1..(k + 1) |-> EntryIn(P, i - 1)]
<1>. DEFINE E == {EntryIn(P, i) : i \in Nat}
            new == [i \in 1..(k + 1) |-> EntryIn(P, i - 1)]
<1>1. index = [i \in 1..k |-> EntryIn(P, i - 1)]
  BY DEF Indexed
<1>2. ASSUME NEW m \in Nat
      PROVE  \A i \in 1..m : EntryIn(P, i - 1) \in E
  <2>1. \A i \in 1..m : i - 1 \in Nat
    OBVIOUS
  <2>. QED  BY <2>1
<1>3. index \in Seq(E) /\ Len(index) = k
  <2>1. index = [i \in 1..k |-> index[i]] /\ \A i \in 1..k : index[i] \in E
    BY <1>1, <1>2
  <2>. HIDE DEF E
  <2>. QED  BY <2>1, SomeSeq
<1>4. new \in Seq(E) /\ Len(new) = k + 1 /\ \A i \in 1..(k + 1) : new[i] = EntryIn(P, i - 1)
  <2>1. new = [i \in 1..(k + 1) |-> new[i]] /\ \A i \in 1..(k + 1) : new[i] \in E
    BY <1>2
  <2>2. k + 1 \in Nat /\ \A i \in 1..(k + 1) : new[i] = EntryIn(P, i - 1)
    OBVIOUS
  <2>. HIDE DEF E, new
  <2>. QED  BY <2>1, <2>2, SomeSeq
<1>5. EntryIn(P, k) \in E
  OBVIOUS
<1>6. ASSUME NEW e, e = EntryIn(P, k)
      PROVE  Append(index, e) = new
  <2>. HIDE DEF E, new
  <2>1. /\ Append(index, e) \in Seq(E) /\ Len(Append(index, e)) = k + 1
        /\ \A i \in 1..k : Append(index, e)[i] = index[i]
        /\ Append(index, e)[k + 1] = e
    BY <1>3, <1>5, <1>6, AppendProperties
  <2>2. \A i \in 1..(k + 1) : Append(index, e)[i] = new[i]
    <3>1. \A i \in 1..(k + 1) : i \in 1..k \/ i = k + 1
      OBVIOUS
    <3>2. \A i \in 1..k : index[i] = EntryIn(P, i - 1) /\ i \in 1..(k + 1)
      BY <1>1
    <3>3. k + 1 \in 1..(k + 1) /\ (k + 1) - 1 = k
      OBVIOUS
    <3>. QED  BY <1>4, <1>6, <2>1, <3>1, <3>2, <3>3
  <2>. QED  BY <1>4, <2>1, <2>2, SeqEqual
<1>. QED  BY <1>3, <1>6

(* A blob and its padding take the pack to where the next one begins.      *)
LEMMA AppendedTracks ==
  ASSUME NEW U, NEW P, NEW off, NEW T, NEW C, PackFacts(U, P, off, T, C),
         NEW k \in 0..(T - 1), Tracks(U, pack, w, <<>>, off[0], P),
         w.pos + Len(w.buf) = off[k]
  PROVE  /\ Tracks(U, Appended(Laid(k)).file, Appended(Laid(k)).w, <<>>, off[0], P)
         /\ Appended(Laid(k)).w.pos + Len(Appended(Laid(k)).w.buf) = off[k + 1]
<1>. DEFINE b == Laid(k)
            m == Len(b)
            r == Written(pack, w, b)
            pad == align_up(m) - m
            r2 == Written(r.file, r.w, Zeros(pad))
<1>1. BlobAt(U, P, off, T, k)
  BY BlobsAre
<1>2. /\ b \in Seq(U) /\ m \in Nat /\ pad \in Nat /\ off[k] + m + pad = off[k + 1]
      /\ off[k] \in Nat /\ off[k + 1] \in Nat
      /\ off[k + 1] <= Len(P) /\ off[k] + m <= Len(P)
      /\ \A j \in 1..m : P[off[k] + j] = b[j]
      /\ \A i \in (off[k] + m + 1)..off[k + 1] : P[i] = Zero
  <2>1. \A a, c, d \in Nat : c >= d => c - d \in Nat /\ a + d + (c - d) = a + c /\ a + d <= a + c
    OBVIOUS
  <2>2. \A x \in Nat \ {0} : x \in Nat
    OBVIOUS
  <2>3. Len(P) \in Nat /\ \A x, y, z \in Nat : x <= y /\ y <= z => x <= z
    BY DEF PackFacts
  <2>4. m \in Nat /\ align_up(m) \in Nat /\ align_up(m) >= m /\ off[k] \in Nat
    BY <1>1, <2>2 DEF BlobAt
  <2>5. pad \in Nat /\ off[k] + m + pad = off[k] + align_up(m) /\ off[k] + m <= off[k] + align_up(m)
    BY <2>1, <2>4
  <2>6. off[k + 1] = off[k] + align_up(m) /\ off[k + 1] \in Nat /\ off[k + 1] <= Len(P)
    BY <1>1 DEF BlobAt
  <2>7. off[k] + m <= Len(P) /\ off[k] + m \in Nat
    <3>1. off[k] + m \in Nat
      BY <2>4
    <3>. QED  BY <2>3, <2>5, <2>6, <3>1
  <2>. QED  BY <1>1, <2>4, <2>5, <2>6, <2>7 DEF BlobAt
<1>. HIDE DEF b, m, pad
<1>3. m = Len(b)
  BY DEF m
<1>4. /\ Zero \in U /\ P \in Seq(U) /\ off[0] \in Nat /\ <<>> \in Seq(U)
      /\ Cap \in Nat \ {0}
  BY DEF PackFacts
<1>5. Due(w, b, P)
  BY <1>2, <1>3 DEF Due
<1>6. Moved(U, r, w, b, <<>>, off[0], P)
  BY <1>2, <1>4, <1>5, WrittenTracks
<1>. HIDE DEF r
<1>7. Tracks(U, r.file, r.w, <<>>, off[0], P) /\ r.w.pos + Len(r.w.buf) = off[k] + m
  BY <1>3, <1>6 DEF Moved
<1>8. Appended(b) = IF pad > 0 THEN r2 ELSE r
  BY DEF Appended, pad, m, r
<1>9. CASE pad > 0
  <2>. DEFINE z == Zeros(pad)
  <2>1. z \in Seq(U) /\ Len(z) = pad /\ \A j \in 1..pad : z[j] = Zero
    BY <1>2, <1>4, ZerosAre
  <2>2. ASSUME NEW j \in 1..pad
        PROVE  P[off[k] + m + j] = Zero
    <3>1. off[k] + m + j \in (off[k] + m + 1)..off[k + 1]
      BY <1>2
    <3>. QED  BY <1>2, <3>1
  <2>. HIDE DEF z
  <2>3. Due(r.w, z, P)
    BY <1>2, <1>7, <2>1, <2>2 DEF Due
  <2>4. Moved(U, Written(r.file, r.w, z), r.w, z, <<>>, off[0], P)
    BY <1>4, <1>7, <2>1, <2>3, WrittenTracks
  <2>5. Moved(U, r2, r.w, z, <<>>, off[0], P)
    BY <2>4 DEF z
  <2>. HIDE DEF r2
  <2>6. Tracks(U, r2.file, r2.w, <<>>, off[0], P) /\ r2.w.pos + Len(r2.w.buf) = off[k + 1]
    BY <1>2, <1>7, <2>1, <2>5 DEF Moved
  <2>. QED  BY <1>8, <1>9, <2>6 DEF b
<1>10. CASE ~(pad > 0)
  <2>1. pad = 0 /\ Appended(b) = r
    BY <1>2, <1>8, <1>10
  <2>2. off[k] + m = off[k + 1]
    BY <1>2, <2>1
  <2>. QED  BY <1>7, <2>1, <2>2 DEF b
<1>. QED  BY <1>9, <1>10

(* The largest blob so far, once there is one.                             *)
LEMMA RawNoted ==
  ASSUME NEW U, NEW P, NEW off, NEW T, NEW C, PackFacts(U, P, off, T, C),
         maxraw = 0 \/ maxraw = P[2].maxraw
  PROVE  /\ P[2].maxraw = FinalRaw
         /\ note_raw_len(7) = P[2].maxraw
<1>1. P[2] = Meta(FinalRaw)
  BY DEF PackFacts, PackLaid
<1>2. P[2].maxraw = FinalRaw
  BY <1>1 DEF Meta
<1>3. Max({0, 7}) = 7 /\ Max({7, 7}) = 7
  <2>1. \A a, b \in Nat : Max({a, b}) = IF a >= b THEN a ELSE b
    BY MaxOfTwo
  <2>2. Max({0, 7}) = IF 0 >= 7 THEN 0 ELSE 7
    BY <2>1
  <2>3. Max({7, 7}) = IF 7 >= 7 THEN 7 ELSE 7
    BY <2>1
  <2>. QED  BY <2>2, <2>3
<1>4. CASE model.zip
  <2>1. FinalRaw = 7 /\ (maxraw = 0 \/ maxraw = 7) /\ note_raw_len(7) = Max({maxraw, 7})
    BY <1>2, <1>4 DEF FinalRaw, note_raw_len
  <2>. QED  BY <1>2, <1>3, <2>1
<1>5. CASE ~model.zip
  <2>1. FinalRaw = 0 /\ maxraw = 0 /\ note_raw_len(7) = maxraw
    BY <1>2, <1>5 DEF FinalRaw, note_raw_len
  <2>. QED  BY <1>2, <2>1
<1>. QED  BY <1>2, <1>4, <1>5

(* A blob is added.                                                        *)
LEMMA AddStep ==
  ASSUME NEW U, NEW P, NEW off, NEW T, NEW C, Good(U, P, off, T, C), AddBlob
  PROVE  Shape(U, P, off, T, C)'
<1>1. PackFacts(U, P, off, T, C)
  BY GoodFacts
<1>2. PICK k \in 0..T : /\ Indexed(P, k) /\ cursor = off[k] /\ w.pos + Len(w.buf) = off[k]
                        /\ maxraw = IF k = 0 THEN 0 ELSE P[2].maxraw
  BY <1>1 DEF PackFacts, Blobs, AddBlob
<1>3. pc = "blobs" /\ made = "none" /\ Tracks(U, pack, w, <<>>, off[0], P)
  BY <1>1 DEF PackFacts, Blobs, AddBlob
<1>4. T \in Nat /\ T = Total /\ k \in Nat
  BY <1>1 DEF PackFacts
<1>5. Len(index) = k
      /\ \A e : e = EntryIn(P, k) =>
           Append(index, e) = [i \in 1..(k + 1) |-> EntryIn(P, i - 1)]
  BY <1>2, <1>4, IndexGrows
<1>6. k \in 0..(T - 1)
  BY <1>4, <1>5 DEF AddBlob
<1>. DEFINE b == Stored(LayerAt(k), ExpertAt(k))
<1>7. /\ maxraw' = note_raw_len(Len(Blob(LayerAt(k), ExpertAt(k))))
      /\ index' = Append(index, [offset |-> cursor, nbytes |-> Len(b)])
      /\ cursor' = cursor + align_up(Len(b))
      /\ pack' = Appended(b).file /\ w' = Appended(b).w
      /\ pc' = pc /\ made' = made /\ UNCHANGED <<core, server>>
  BY <1>5 DEF AddBlob, Advanced
<1>8. b = Laid(k)
  BY DEF Laid
<1>. HIDE DEF b
<1>9. BlobAt(U, P, off, T, k)
  BY <1>1, <1>6, BlobsAre
<1>10. /\ index' = [i \in 1..(k + 1) |-> EntryIn(P, i - 1)]
       /\ cursor' = off[k + 1]
  BY <1>2, <1>5, <1>7, <1>8, <1>9 DEF BlobAt
<1>11. Tracks(U, pack', w', <<>>, off[0], P) /\ w'.pos + Len(w'.buf) = off[k + 1]
  BY <1>1, <1>2, <1>3, <1>6, <1>7, <1>8, AppendedTracks
<1>12. maxraw' = P[2].maxraw
  <2>1. Len(Blob(LayerAt(k), ExpertAt(k))) = 7
    <3>1. \A j \in 0..(Total - 1) : LayerAt(j) \in Nat /\ ExpertAt(j) \in 0..(Experts - 1)
      BY Sizes DEF Good
    <3>2. Experts \in Nat \ {0}
      BY Sizes DEF Good
    <3>3. LayerAt(k) \in Nat /\ ExpertAt(k) \in Nat
      BY <1>4, <1>6, <3>1, <3>2
    <3>. QED  BY <3>3, StoredIs
  <2>2. note_raw_len(7) = P[2].maxraw
    BY <1>1, <1>2, RawNoted
  <2>. QED  BY <1>7, <2>1, <2>2
<1>13. Blobs(U, P, off, T)'
  <2>1. k + 1 \in 0..T /\ k + 1 # 0
    BY <1>4, <1>6
  <2>2. Indexed(P, k + 1)'
    BY <1>10 DEF Indexed, EntryIn
  <2>3. Tracks(U, pack, w, <<>>, off[0], P)'
    BY <1>11 DEF Tracks, Over
  <2>. QED  BY <1>3, <1>7, <1>10, <1>11, <1>12, <2>1, <2>2, <2>3 DEF Blobs
<1>. QED  BY <1>1, <1>3, <1>7, <1>13, OthersKept DEF PackFacts, Shape, Finishing, Left

(* The header goes to the buffer, and all blobs are in the file.           *)
LEMMA HeaderStep ==
  ASSUME NEW U, NEW P, NEW off, NEW T, NEW C, Good(U, P, off, T, C), FinishHeader
  PROVE  Shape(U, P, off, T, C)'
<1>1. PackFacts(U, P, off, T, C)
  BY GoodFacts
<1>2. PICK k \in 0..T : /\ Indexed(P, k) /\ w.pos + Len(w.buf) = off[k]
                        /\ maxraw = IF k = 0 THEN 0 ELSE P[2].maxraw
  BY <1>1 DEF PackFacts, Blobs, FinishHeader
<1>3. pc = "blobs" /\ made = "none" /\ Tracks(U, pack, w, <<>>, off[0], P)
  BY <1>1 DEF PackFacts, Blobs, FinishHeader
<1>4. T \in Nat \ {0} /\ T = Total /\ off[T] = Len(P) /\ off[0] \in Nat /\ off[0] < Len(P)
      /\ Len(P) \in Nat /\ Align \in Nat \ {0, 1} /\ Align + T <= off[0]
      /\ Zero \in U /\ P \in Seq(U) /\ <<>> \in Seq(U)
  BY <1>1 DEF PackFacts, PackLaid
<1>5. k = T
  <2>1. Len(index) = k
    BY <1>2, IndexGrows
  <2>. QED  BY <1>4, <2>1 DEF FinishHeader
<1>6. maxraw = P[2].maxraw /\ P[2] = Meta(maxraw) /\ P[1] = Magic
      /\ \A i \in 3..Align : P[i] = Zero
  <2>1. maxraw = P[2].maxraw
    BY <1>2, <1>4, <1>5
  <2>2. P[2].maxraw = FinalRaw
    BY <1>1, <2>1, RawNoted
  <2>. QED  BY <1>1, <2>1, <2>2 DEF PackFacts, PackLaid
<1>. DEFINE B == Blank(P, off)
            head == <<Magic, Meta(maxraw)>>
            buf == head \o Zeros(Align - 2)
<1>7. /\ pack' = Flushed(pack, w) /\ w' = [pos |-> 0, buf |-> buf]
      /\ pc' = "index" /\ n' = 0 /\ UNCHANGED <<index, made, core, server>>
  BY DEF FinishHeader
<1>8. pack' = B
  <2>1. Over(U, Flushed(pack, w), <<>>, off[0], P, w.pos + Len(w.buf))
    BY <1>3, <1>4, FlushedOver
  <2>2. w.pos + Len(w.buf) = Len(P)
    BY <1>2, <1>4, <1>5
  <2>3. Over(U, pack', <<>>, off[0], P, Len(P))
    BY <1>7, <2>1, <2>2
  <2>4. PackLaid(U, P, off, T) /\ off[0] <= Len(P) /\ Len(P) <= Len(P)
    BY <1>1, <1>4 DEF PackFacts
  <2>. HIDE DEF B
  <2>. QED  BY <1>4, <2>3, <2>4, BlobsPrefix DEF B
<1>9. buf \in Seq(U) /\ Len(buf) = Align /\ \A j \in 1..Align : buf[j] = P[j]
  <2>. DEFINE mg == Magic
              mt == Meta(maxraw)
  <2>1. 1 \in 1..Len(P) /\ 2 \in 1..Len(P) /\ Align - 2 \in Nat
    BY <1>4
  <2>2. mg = P[1] /\ mt = P[2] /\ mg \in U /\ mt \in U
    <3>1. P[1] \in U /\ P[2] \in U
      BY <1>4, <2>1, ElementOfSeq
    <3>. QED  BY <1>6, <3>1
  <2>. HIDE DEF mg, mt
  <2>3. <<mg, mt>> \in Seq(U) /\ Len(<<mg, mt>>) = 2
        /\ <<mg, mt>>[1] = mg /\ <<mg, mt>>[2] = mt
    BY <2>2
  <2>4. head = <<mg, mt>>
    BY DEF mg, mt
  <2>. HIDE DEF head
  <2>5. head \in Seq(U) /\ Len(head) = 2 /\ head[1] = P[1] /\ head[2] = P[2]
    BY <2>2, <2>3, <2>4
  <2>. DEFINE z == Zeros(Align - 2)
  <2>6. z \in Seq(U) /\ Len(z) = Align - 2 /\ \A j \in 1..(Align - 2) : z[j] = Zero
    BY <1>4, <2>1, ZerosAre
  <2>. HIDE DEF z
  <2>7. /\ head \o z \in Seq(U) /\ Len(head \o z) = Len(head) + Len(z)
        /\ \A j \in 1..(Len(head) + Len(z)) :
             (head \o z)[j] = IF j <= Len(head) THEN head[j] ELSE z[j - Len(head)]
    BY <2>5, <2>6, ConcatProperties
  <2>8. Len(head) + Len(z) = Align
    BY <1>4, <2>5, <2>6
  <2>9. ASSUME NEW j \in 1..Align
        PROVE  (head \o z)[j] = P[j]
    <3>1. CASE j <= 2
      <4>1. j = 1 \/ j = 2
        BY <3>1
      <4>. QED  BY <2>5, <2>7, <2>8, <3>1, <4>1
    <3>2. CASE ~(j <= 2)
      <4>1. j - 2 \in 1..(Align - 2) /\ j \in 3..Align
        BY <1>4, <3>2
      <4>2. (head \o z)[j] = z[j - 2]
        BY <2>5, <2>7, <2>8, <3>2
      <4>. QED  BY <1>6, <2>6, <4>1, <4>2
    <3>. QED  BY <3>1, <3>2
  <2>. QED  BY <2>7, <2>8, <2>9 DEF z
<1>. HIDE DEF buf
<1>10. Tracks(U, pack', w', B, 0, P) /\ w'.pos + Len(w'.buf) = Align + 0
  <2>1. /\ w'.pos = 0 /\ w'.buf = buf /\ w' = [pos |-> w'.pos, buf |-> w'.buf]
    BY <1>7
  <2>2. B \in Seq(U)
    BY <1>1, <1>4, LaidTypes DEF PackFacts
  <2>3. Over(U, pack', B, 0, P, 0)
    BY <1>8, <2>2 DEF Over
  <2>4. 0 + Align <= Len(P) /\ 0 <= 0
    BY <1>4
  <2>. HIDE DEF B
  <2>. QED  BY <1>4, <1>9, <2>1, <2>3, <2>4 DEF Tracks
<1>11. Finishing(U, P, off, T)'
  <2>1. Indexed(P, T)'
    BY <1>2, <1>5, <1>7 DEF Indexed, EntryIn
  <2>2. Tracks(U, pack, w, Blank(P, off), 0, P)'
    BY <1>10 DEF Tracks, Over, Blank, Zero
  <2>3. n' \in 0..T
    BY <1>4, <1>7
  <2>. QED  BY <1>3, <1>7, <1>10, <2>1, <2>2, <2>3 DEF Finishing
<1>. QED  BY <1>1, <1>3, <1>7, <1>11, OthersKept DEF PackFacts, Shape, Blobs, Left

(* The next entry of the index.                                            *)
LEMMA EntryStep ==
  ASSUME NEW U, NEW P, NEW off, NEW T, NEW C, Good(U, P, off, T, C), FinishEntry
  PROVE  Shape(U, P, off, T, C)'
<1>1. PackFacts(U, P, off, T, C)
  BY GoodFacts
<1>. DEFINE B == Blank(P, off)
            u == Entry(index[n + 1])
            data == <<u>>
            r == Written(pack, w, data)
<1>2. /\ pc = "index" /\ made = "none" /\ Indexed(P, T) /\ n \in Nat /\ n < T
      /\ w.pos + Len(w.buf) = Align + n /\ Tracks(U, pack, w, B, 0, P)
      /\ pack' = r.file /\ w' = r.w /\ n' = n + 1
      /\ pc' = pc /\ UNCHANGED <<index, made, core, server>>
  BY <1>1 DEF PackFacts, Finishing, FinishEntry
<1>3. T \in Nat \ {0} /\ off[0] \in Nat /\ off[0] < Len(P) /\ Len(P) \in Nat
      /\ Align \in Nat \ {0, 1} /\ Align + T <= off[0] /\ Cap \in Nat \ {0}
      /\ Zero \in U /\ P \in Seq(U) /\ B \in Seq(U)
  BY <1>1, LaidTypes DEF PackFacts
<1>4. u = P[Align + n + 1] /\ u \in U
  <2>1. n \in 0..(T - 1) /\ Align + n + 1 \in 1..Len(P)
    BY <1>2, <1>3
  <2>2. BlobAt(U, P, off, T, n)
    BY <1>1, <2>1, BlobsAre
  <2>3. index[n + 1] = EntryIn(P, n)
    <3>1. n + 1 \in 1..T /\ (n + 1) - 1 = n
      BY <1>3, <2>1
    <3>. QED  BY <1>2, <3>1 DEF Indexed
  <2>4. u = P[Align + n + 1]
    BY <2>2, <2>3 DEF BlobAt, Entry
  <2>. QED  BY <1>3, <2>1, <2>4, ElementOfSeq
<1>. HIDE DEF u
<1>5. data \in Seq(U) /\ Len(data) = 1 /\ \A j \in 1..Len(data) : j = 1 /\ data[j] = u
  BY <1>4
<1>. HIDE DEF data
<1>6. Due(w, data, P)
  BY <1>2, <1>3, <1>4, <1>5 DEF Due
<1>. HIDE DEF B
<1>7. Moved(U, r, w, data, B, 0, P)
  <2>1. 0 \in Nat
    OBVIOUS
  <2>. QED  BY <1>2, <1>3, <1>5, <1>6, <2>1, WrittenTracks
<1>. HIDE DEF r
<1>8. Tracks(U, pack', w', B, 0, P) /\ w'.pos + Len(w'.buf) = Align + n'
  BY <1>2, <1>3, <1>5, <1>7 DEF Moved
<1>9. Finishing(U, P, off, T)'
  <2>1. Indexed(P, T)'
    BY <1>2 DEF Indexed, EntryIn
  <2>2. Tracks(U, pack, w, Blank(P, off), 0, P)'
    BY <1>8 DEF B, Tracks, Over, Blank, Zero
  <2>3. n' \in 0..T
    BY <1>2, <1>3
  <2>. QED  BY <1>2, <1>8, <2>1, <2>2, <2>3 DEF Finishing
<1>. QED  BY <1>1, <1>2, <1>9, OthersKept DEF PackFacts, Shape, Blobs, Left

(* The end of the index: the pack is the finished one.                     *)
LEMMA FlushStep ==
  ASSUME NEW U, NEW P, NEW off, NEW T, NEW C, Good(U, P, off, T, C), FinishFlush
  PROVE  Shape(U, P, off, T, C)'
<1>1. PackFacts(U, P, off, T, C)
  BY GoodFacts
<1>. DEFINE B == Blank(P, off)
            m == IndexEnd - Align - Total
            z == Zeros(m)
            r == Written(pack, w, z)
<1>2. /\ pc = "index" /\ n = T /\ w.pos + Len(w.buf) = Align + T
      /\ Tracks(U, pack, w, B, 0, P)
      /\ pack' = Flushed(r.file, r.w) /\ pc' = "idle" /\ made' = "whole"
      /\ UNCHANGED <<core, server>>
  BY <1>1 DEF PackFacts, Finishing, FinishFlush
<1>3. /\ T \in Nat \ {0} /\ off[0] \in Nat /\ off[0] < Len(P) /\ Len(P) \in Nat
      /\ Align \in Nat \ {0, 1} /\ Align + T <= off[0] /\ Cap \in Nat \ {0}
      /\ Zero \in U /\ P \in Seq(U) /\ B \in Seq(U)
      /\ \A i \in (Align + T + 1)..off[0] : P[i] = Zero
  <2>1. \A i \in (Align + T + 1)..off[0] : P[i] = Zero
    BY <1>1 DEF PackFacts, PackLaid
  <2>. QED  BY <1>1, <2>1, LaidTypes DEF PackFacts
<1>4. m = off[0] - Align - T /\ m \in Nat /\ Align + T + m = off[0]
  BY <1>1, <1>3 DEF PackFacts
<1>. HIDE DEF m
<1>5. z \in Seq(U) /\ Len(z) = m /\ \A j \in 1..m : z[j] = Zero
  BY <1>3, <1>4, ZerosAre
<1>. HIDE DEF z, B
<1>6. Due(w, z, P)
  <2>1. ASSUME NEW j \in 1..m
        PROVE  P[Align + T + j] = Zero
    <3>1. Align + T + j \in (Align + T + 1)..off[0]
      BY <1>3, <1>4
    <3>. QED  BY <1>3, <3>1
  <2>2. Align + T + m <= Len(P)
    BY <1>3, <1>4
  <2>. QED  BY <1>2, <1>5, <2>1, <2>2 DEF Due
<1>7. Moved(U, r, w, z, B, 0, P)
  <2>1. 0 \in Nat
    OBVIOUS
  <2>. QED  BY <1>2, <1>3, <1>5, <1>6, <2>1, WrittenTracks
<1>. HIDE DEF r
<1>8. Tracks(U, r.file, r.w, B, 0, P) /\ r.w.pos + Len(r.w.buf) = off[0]
  BY <1>2, <1>4, <1>5, <1>7 DEF Moved
<1>9. Over(U, Flushed(r.file, r.w), B, 0, P, off[0])
  <2>1. 0 \in Nat
    OBVIOUS
  <2>2. Over(U, Flushed(r.file, r.w), B, 0, P, r.w.pos + Len(r.w.buf))
    BY <1>3, <1>8, <2>1, FlushedOver
  <2>. QED  BY <1>8, <2>2
<1>10. pack' = P
  <2>1. off[0] <= off[0] /\ PackLaid(U, P, off, T)
    BY <1>1, <1>3 DEF PackFacts
  <2>2. Over(U, pack', Blank(P, off), 0, P, off[0])
    BY <1>2, <1>9 DEF B
  <2>. QED  BY <1>3, <2>1, <2>2, IndexHoled
<1>11. Left(U, P, off)'
  BY <1>2, <1>10 DEF Left
<1>. QED  BY <1>1, <1>2, <1>11, OthersKept DEF PackFacts, Shape, Finishing, Blobs

(* The converter dies: some of what it was about to write is in the file.  *)
LEMMA DieStep ==
  ASSUME NEW U, NEW P, NEW off, NEW T, NEW C, Good(U, P, off, T, C), Die
  PROVE  Shape(U, P, off, T, C)'
<1>1. PackFacts(U, P, off, T, C)
  BY GoodFacts
<1>. DEFINE more == IF pc = "blobs" /\ Len(index) < Total
                    THEN Stored(LayerAt(Len(index)), ExpertAt(Len(index))) ELSE <<>>
            part(k) == [w EXCEPT !.buf = SubSeq(w.buf \o more, 1, k)]
<1>2. PICK k \in 0..Len(w.buf \o more) :
        /\ core' = IF pc = "core" THEN Flushed(core, part(k)) ELSE core
        /\ pack' = IF pc = "core" THEN pack ELSE Flushed(pack, part(k))
  BY DEF Die
<1>3. /\ pc' = "idle" /\ pc # "idle" /\ UNCHANGED server
      /\ made' = CASE pc = "index" -> "torn" [] pc = "blobs" -> "failed" [] OTHER -> made
  BY DEF Die
<1>4. /\ T \in Nat \ {0} /\ off[0] \in Nat /\ off[0] < Len(P) /\ Len(P) \in Nat
      /\ T = Total /\ Align \in Nat \ {0, 1} /\ Align + T <= off[0]
      /\ Zero \in U /\ P \in Seq(U) /\ Blank(P, off) \in Seq(U)
      /\ <<>> \in Seq(U) /\ Len(<<>>) = 0 /\ PackLaid(U, P, off, T)
  BY <1>1, LaidTypes DEF PackFacts
<1>5. Blobs(U, P, off, T)' /\ Finishing(U, P, off, T)'
  BY <1>3 DEF Blobs, Finishing
<1>6. CASE pc = "core"
  <2>1. /\ Tracks(U, core, w, <<>>, 0, C) /\ CoreLaid(U, C) /\ C \in Seq(U) /\ more = <<>>
        /\ Len(C) \in Nat
    BY <1>1, <1>6 DEF PackFacts, Core, Good, CoreLaid
  <2>2. Due(w, more, C) /\ 0 \in Nat
    BY <1>4, <2>1 DEF Due, Tracks
  <2>. HIDE DEF more
  <2>3. Tracks(U, core, part(k), <<>>, 0, C)
    BY <1>4, <2>1, <2>2, PartTracks DEF Sent
  <2>. HIDE DEF part
  <2>4. Over(U, core', <<>>, 0, C, part(k).pos + Len(part(k).buf))
    BY <1>2, <1>4, <1>6, <2>1, <2>2, <2>3, FlushedOver
  <2>5. part(k).pos + Len(part(k).buf) \in Nat /\ part(k).pos + Len(part(k).buf) <= Len(C)
    BY <2>3 DEF Tracks
  <2>6. PrefixOf(U, core', C)
    BY <2>1, <2>4, <2>5, CorePrefix
  <2>7. Core(U, C)'
    BY <1>3, <2>6 DEF Core
  <2>8. pack' = pack /\ made' = made
    BY <1>2, <1>3, <1>6
  <2>9. Left(U, P, off)'
    BY <1>1, <1>3, <1>6, <2>8 DEF PackFacts, Left, PrefixOf, Holed, Blank
  <2>10. Server(U, P, C, T)'
    BY <1>1, <1>3 DEF PackFacts, Server, server, EntryIn, NoEntry
  <2>. QED  BY <1>5, <2>7, <2>9, <2>10 DEF Shape
<1>7. CASE pc = "create"
  <2>1. w = Writer(0) /\ more = <<>> /\ Left(U, P, off)
    BY <1>1, <1>7 DEF PackFacts, Left
  <2>2. w.buf = <<>> /\ w = [pos |-> 0, buf |-> <<>>]
    BY <2>1 DEF Writer
  <2>3. w.buf \o more = <<>> /\ k = 0
    <3>1. <<>> \o <<>> = <<>> /\ Len(<<>>) = 0
      OBVIOUS
    <3>2. w.buf \o more = <<>>
      BY <2>1, <2>2, <3>1
    <3>. HIDE DEF more
    <3>. QED  BY <3>1, <3>2
  <2>. HIDE DEF more
  <2>4. part(0) = [pos |-> 0, buf |-> <<>>]
    <3>1. SubSeq(<<>>, 1, 0) = <<>>
      OBVIOUS
    <3>2. part(0) = [w EXCEPT !.buf = <<>>]
      BY <2>3, <3>1
    <3>. QED  BY <2>2, <3>2
  <2>. HIDE DEF part
  <2>5. pack' = pack /\ core' = core /\ made' = made
    BY <1>2, <1>3, <1>7, <2>3, <2>4 DEF Flushed
  <2>6. Left(U, P, off)'
    BY <1>3, <1>7, <2>1, <2>5 DEF Left, PrefixOf, Holed, Blank
  <2>. QED  BY <1>1, <1>3, <1>5, <2>5, <2>6, OthersKept DEF PackFacts, Shape
<1>8. CASE pc = "blobs"
  <2>1. PICK k2 \in 0..T : Indexed(P, k2) /\ w.pos + Len(w.buf) = off[k2]
    BY <1>1, <1>8 DEF PackFacts, Blobs
  <2>2. Tracks(U, pack, w, <<>>, off[0], P)
    BY <1>1, <1>8 DEF PackFacts, Blobs
  <2>3. Len(index) = k2
    BY <2>1, IndexGrows
  <2>4. more \in Seq(U) /\ Due(w, more, P)
    <3>1. CASE k2 < T
      <4>1. more = Laid(k2) /\ k2 \in 0..(T - 1)
        BY <1>4, <1>8, <2>3, <3>1 DEF Laid
      <4>2. BlobAt(U, P, off, T, k2)
        BY <1>1, <4>1, BlobsAre
      <4>. DEFINE m == Len(Laid(k2))
      <4>3. /\ m \in Nat \ {0} /\ off[k2] \in Nat /\ align_up(m) \in Nat /\ m <= align_up(m)
            /\ off[k2 + 1] = off[k2] + align_up(m) /\ off[k2 + 1] <= Len(P)
            /\ Laid(k2) \in Seq(U) /\ \A j \in 1..m : P[off[k2] + j] = Laid(k2)[j]
        BY <4>2 DEF BlobAt
      <4>4. off[k2] + m <= Len(P)
        <5>1. \A a, b, c \in Nat : \A d \in Nat : a <= b /\ c + b <= d => c + a <= d
          OBVIOUS
        <5>2. m \in Nat
          BY <4>3
        <5>. HIDE DEF m
        <5>. QED  BY <1>4, <4>3, <5>1, <5>2
      <4>. HIDE DEF more
      <4>. QED  BY <2>1, <4>1, <4>3, <4>4 DEF Due
    <3>2. CASE ~(k2 < T)
      <4>1. more = <<>>
        BY <1>4, <2>3, <3>2
      <4>. HIDE DEF more
      <4>. QED  BY <1>4, <2>2, <4>1 DEF Due, Tracks
    <3>. QED  BY <3>1, <3>2
  <2>. HIDE DEF more
  <2>5. Tracks(U, pack, part(k), <<>>, off[0], P)
    BY <1>4, <2>2, <2>4, PartTracks DEF Sent
  <2>. HIDE DEF part
  <2>6. pack' = Flushed(pack, part(k)) /\ core' = core /\ made' = "failed"
    BY <1>2, <1>3, <1>8
  <2>7. PrefixOf(U, pack', Blank(P, off))
    <3>1. Over(U, Flushed(pack, part(k)), <<>>, off[0], P, part(k).pos + Len(part(k).buf))
      BY <1>4, <2>5, FlushedOver
    <3>2. /\ part(k).pos + Len(part(k).buf) \in Nat
          /\ off[0] <= part(k).pos + Len(part(k).buf)
          /\ part(k).pos + Len(part(k).buf) <= Len(P)
      BY <1>4, <2>5 DEF Tracks
    <3>. QED  BY <1>4, <2>6, <3>1, <3>2, BlobsPrefix
  <2>8. Left(U, P, off)'
    BY <1>3, <2>6, <2>7 DEF Left, PrefixOf, Blank
  <2>. QED  BY <1>1, <1>3, <1>5, <2>6, <2>8, OthersKept DEF PackFacts, Shape
<1>9. CASE pc = "index"
  <2>1. Tracks(U, pack, w, Blank(P, off), 0, P) /\ w.pos + Len(w.buf) = Align + n
        /\ n \in 0..T /\ more = <<>> /\ 0 \in Nat
    BY <1>1, <1>9 DEF PackFacts, Finishing
  <2>. HIDE DEF more
  <2>2. more \in Seq(U) /\ Due(w, more, P) /\ Len(more) = 0
    BY <1>4, <2>1 DEF Due, Tracks
  <2>3. Sent(U, pack, part(k), w, more, Blank(P, off), 0, P)
    BY <1>4, <2>1, <2>2, PartTracks
  <2>. HIDE DEF part
  <2>4. /\ Tracks(U, pack, part(k), Blank(P, off), 0, P)
        /\ part(k).pos + Len(part(k).buf) <= off[0]
        /\ part(k).pos + Len(part(k).buf) \in Nat
    <3>1. Tracks(U, pack, part(k), Blank(P, off), 0, P)
          /\ part(k).pos + Len(part(k).buf) <= w.pos + Len(w.buf) + Len(more)
      BY <2>3 DEF Sent
    <3>2. part(k).pos + Len(part(k).buf) \in Nat
      BY <3>1 DEF Tracks
    <3>3. w.pos + Len(w.buf) + Len(more) <= off[0] /\ w.pos + Len(w.buf) + Len(more) \in Nat
      BY <1>4, <2>1, <2>2
    <3>. QED  BY <1>4, <3>1, <3>2, <3>3
  <2>5. pack' = Flushed(pack, part(k)) /\ core' = core /\ made' = "torn"
    BY <1>2, <1>3, <1>9
  <2>6. Holed(U, pack', P, off)
    <3>1. Over(U, Flushed(pack, part(k)), Blank(P, off), 0, P, part(k).pos + Len(part(k).buf))
      BY <1>4, <2>1, <2>4, FlushedOver
    <3>. QED  BY <1>4, <2>4, <2>5, <3>1, IndexHoled
  <2>7. Left(U, P, off)'
    BY <1>3, <2>5, <2>6 DEF Left, Holed, Zero
  <2>. QED  BY <1>1, <1>3, <1>5, <2>5, <2>7, OthersKept DEF PackFacts, Shape
<1>10. pc \in {"core", "create", "blobs", "index"}
  BY <1>1, <1>3 DEF PackFacts, Left
<1>. QED  BY <1>6, <1>7, <1>8, <1>9, <1>10

(* The steps of the converter.                                             *)
LEMMA ConverterSteps ==
  ASSUME NEW U, NEW P, NEW off, NEW T, NEW C, Good(U, P, off, T, C), Convert \/ Die
  PROVE  Shape(U, P, off, T, C)'
<1>1. CASE (\E c \in Damages : Start(c)) \/ WriteTensor \/ FlushCore
  BY <1>1, CoreSteps
<1>2. CASE CreatePack
  BY <1>2, CreateStep
<1>3. CASE BlobMissing \/ MetaTooLarge
  <2>1. pc = "blobs" /\ Bail
    BY <1>3 DEF BlobMissing, MetaTooLarge
  <2>. QED  BY <2>1, BailStep
<1>4. CASE AddBlob
  BY <1>4, AddStep
<1>5. CASE FinishHeader
  BY <1>5, HeaderStep
<1>6. CASE FinishEntry
  BY <1>6, EntryStep
<1>7. CASE FinishFlush
  BY <1>7, FlushStep
<1>8. CASE Die
  BY <1>8, DieStep
<1>. QED  BY <1>1, <1>2, <1>3, <1>4, <1>5, <1>6, <1>7, <1>8 DEF Convert

-----------------------------------------------------------------------------
(* The server.                                                             *)

(* Whatever a converter has done, what is in the pack is right, or a hole  *)
(* in header and index.                                                    *)
LEMMA PackHoled ==
  ASSUME NEW U, NEW P, NEW off, NEW T, NEW C, PackFacts(U, P, off, T, C)
  PROVE  Holed(U, pack, P, off)
<1>1. /\ PackLaid(U, P, off, T) /\ Align \in Nat \ {0, 1} /\ P \in Seq(U) /\ Len(P) \in Nat
      /\ Blobs(U, P, off, T) /\ Finishing(U, P, off, T) /\ Left(U, P, off)
      /\ off[0] \in Nat /\ off[0] < Len(P) /\ Align + T <= off[0] /\ T \in Nat
      /\ <<>> \in Seq(U) /\ Len(<<>>) = 0
  BY DEF PackFacts
<1>2. /\ Len(Blank(P, off)) = Len(P)
      /\ \A i \in 1..Len(P) : Blank(P, off)[i] = IF i <= off[0] THEN Zero ELSE P[i]
  BY <1>1, LaidTypes
<1>3. ASSUME PrefixOf(U, pack, Blank(P, off))
      PROVE  Holed(U, pack, P, off)
  <2>1. pack \in Seq(U) /\ Len(pack) <= Len(P) /\ Len(pack) \in Nat
        /\ \A i \in 1..Len(pack) : pack[i] = Blank(P, off)[i]
    BY <1>2, <1>3 DEF PrefixOf
  <2>2. \A i \in 1..Len(pack) : i \in 1..Len(P)
    BY <1>1, <2>1
  <2>. QED  BY <1>2, <2>1, <2>2 DEF Holed
<1>4. CASE pc = "blobs"
  <2>1. Tracks(U, pack, w, <<>>, off[0], P)
    BY <1>1, <1>4 DEF Blobs
  <2>2. Over(U, pack, <<>>, off[0], P, w.pos) /\ w.pos \in Nat /\ off[0] <= w.pos
        /\ w.pos <= Len(P)
    BY <1>1, <2>1 DEF Tracks
  <2>. QED  BY <1>1, <1>3, <2>2, BlobsPrefix
<1>5. CASE pc = "index"
  <2>1. Tracks(U, pack, w, Blank(P, off), 0, P) /\ w.pos + Len(w.buf) = Align + n /\ n \in 0..T
    BY <1>1, <1>5 DEF Finishing
  <2>2. Over(U, pack, Blank(P, off), 0, P, w.pos) /\ w.pos \in Nat /\ w.buf \in Seq(U)
    BY <2>1 DEF Tracks
  <2>3. w.pos <= off[0]
    BY <1>1, <2>1, <2>2
  <2>. QED  BY <1>1, <2>2, <2>3, IndexHoled
<1>6. CASE pc \notin {"blobs", "index"}
  <2>1. /\ made \in {"none", "failed", "torn", "whole"}
        /\ made = "none" => pack = <<>>
        /\ made = "failed" => PrefixOf(U, pack, Blank(P, off))
        /\ made = "torn" => Holed(U, pack, P, off)
        /\ made = "whole" => pack = P
    BY <1>1, <1>6 DEF Left
  <2>2. pack = <<>> => Holed(U, pack, P, off)
    BY <1>1 DEF Holed
  <2>3. pack = P => Holed(U, pack, P, off)
    BY <1>1 DEF Holed
  <2>. QED  BY <1>3, <2>1, <2>2, <2>3
<1>. QED  BY <1>4, <1>5, <1>6

(* What a server reads from a pack that opens.                             *)
LEMMA OpenedPack ==
  ASSUME NEW U, NEW P, NEW off, NEW T, NEW C, PackFacts(U, P, off, T, C), Opens
  PROVE  /\ pack[2] = P[2]
         /\ DOMAIN Index = 0..(T - 1)
         /\ \A k \in 0..(T - 1) :
              /\ Align + k + 1 \in 1..Len(pack)
              /\ Index[k] = IF pack[Align + k + 1] = P[Align + k + 1] THEN EntryIn(P, k)
                            ELSE NoEntry
<1>1. /\ Holed(U, pack, P, off) /\ T \in Nat \ {0} /\ T = Total /\ Align \in Nat \ {0, 1}
      /\ off[0] \in Nat
  BY PackHoled DEF PackFacts
<1>2. Len(pack) \in Nat /\ Len(pack) >= Align + T
  <2>1. align_up(T) \in Nat /\ align_up(T) >= T
    BY <1>1, AlignUp
  <2>2. Len(pack) \in Nat
    BY <1>1 DEF Holed
  <2>3. Len(pack) >= Align + align_up(T)
    BY <1>1 DEF Opens
  <2>. QED  BY <1>1, <2>1, <2>2, <2>3
<1>3. pack[2] = P[2]
  <2>1. 2 \in 1..Len(pack)
    BY <1>1, <1>2
  <2>2. pack[2] # Zero
    BY DEF Opens, Zero
  <2>. QED  BY <1>1, <2>1, <2>2 DEF Holed
<1>4. ASSUME NEW k \in 0..(T - 1)
      PROVE  /\ Align + k + 1 \in 1..Len(pack)
             /\ Index[k] = IF pack[Align + k + 1] = P[Align + k + 1] THEN EntryIn(P, k)
                           ELSE NoEntry
  <2>1. Align + k + 1 \in 1..Len(pack)
    BY <1>1, <1>2
  <2>. DEFINE u == pack[Align + k + 1]
              v == P[Align + k + 1]
  <2>2. u = v \/ u = Zero
    BY <1>1, <2>1 DEF Holed
  <2>3. BlobAt(U, P, off, T, k)
    BY BlobsAre
  <2>4. v.kind = "entry"
    <3>1. v = Entry([offset |-> off[k], nbytes |-> Len(Laid(k))])
      BY <2>3 DEF BlobAt
    <3>. HIDE DEF v
    <3>. QED  BY <3>1 DEF Entry
  <2>5. Index[k] = IF u.kind = "entry" THEN [offset |-> u.offset, nbytes |-> u.nbytes] ELSE NoEntry
    BY <1>1 DEF Index
  <2>6. EntryIn(P, k) = [offset |-> v.offset, nbytes |-> v.nbytes]
    BY DEF EntryIn
  <2>. HIDE DEF u, v
  <2>7. Zero.kind # "entry"
    BY DEF Zero
  <2>8. Index[k] = IF u = v THEN EntryIn(P, k) ELSE NoEntry
    BY <2>2, <2>4, <2>5, <2>6, <2>7
  <2>. QED  BY <2>1, <2>8 DEF u, v
<1>5. DOMAIN Index = 0..(T - 1)
  BY <1>1 DEF Index
<1>. QED  BY <1>3, <1>4, <1>5

(* A tensor that is read is the one that the header calls so.              *)
LEMMA RawIs ==
  ASSUME NEW name, Raw(name) # Absent, NEW S, hdr \in Seq(S)
  PROVE  \E i \in 1..Len(hdr) : hdr[i] = name /\ i < Len(core) /\ Raw(name) = core[i + 1]
<1>. DEFINE I == {i \in 1..Len(hdr) : hdr[i] = name}
            m == IF I # {} THEN Min(I) ELSE 0
<1>1. Raw(name) = IF m > 0 /\ m < Len(core) THEN core[m + 1] ELSE Absent
  BY DEF Raw, SelectInSeq
<1>2. m > 0 /\ m < Len(core) /\ Raw(name) = core[m + 1]
  BY <1>1
<1>3. I # {}
  BY <1>2
<1>4. I \subseteq Nat /\ I \subseteq 1..Len(hdr)
  OBVIOUS
<1>. HIDE DEF I
<1>5. m \in I
  <2>1. \E x \in I : \A y \in I : x <= y
    BY <1>3, <1>4, LeastNatural
  <2>. QED  BY <1>3, <2>1 DEF Min
<1>. HIDE DEF m
<1>6. m \in 1..Len(hdr) /\ hdr[m] = name
  BY <1>5 DEF I
<1>. QED  BY <1>2, <1>6

\* What a decoder may have loaded as its k-th tensor, after the others in g.
LoadedAt(g, k) ==
  LET named == {t \in model.core : t.name = Wanted[k] /\ t.prefix # "vision"}
  IN  IF named # {} THEN \E t \in named : g[k] = Tensor(t)
      ELSE Wanted[k] = "head" /\ g[k] = g[k - 1]

(* The next tensor is the one of its name, or the embedding for the head.  *)
LEMMA NextLoaded ==
  ASSUME NEW U, NEW P, NEW off, NEW T, NEW C, Good(U, P, off, T, C), ReadCore,
         rpc' # "closed"
  PROVE  /\ \E t \in U : got' = Append(got, t)
         /\ Len(got) < 4 /\ got \in Seq(U)
         /\ LoadedAt(got', Len(got) + 1)
         /\ rpc' = "core" /\ UNCHANGED <<meta, hdr, idx>>
<1>1. /\ model \in Models /\ CoreLaid(U, C) /\ Core(U, C) /\ Server(U, P, C, T)
  BY DEF Good, Shape
<1>. DEFINE l == Len(CoreTensors)
            k == Len(got) + 1
            name == Wanted[k]
            tied == name = "head" /\ name \notin Range(hdr) /\ ~model.kimi
            t == IF tied THEN Last(got) ELSE Raw(name)
<1>2. /\ l \in Nat /\ CoreTensors \in Seq(TextTensors) /\ Range(CoreTensors) = TextTensors
      /\ C \in Seq(U) /\ Len(C) = l + 1
      /\ hdr = [i \in 1..l |-> CoreTensors[i].name]
      /\ \A i \in 1..l : C[i + 1] = Tensor(CoreTensors[i])
  <2>1. hdr = C[1].names /\ C[1] = CoreHeader
    BY <1>1 DEF ReadCore, Server, CoreLaid
  <2>2. l \in Nat /\ DOMAIN CoreTensors = 1..l
    BY <1>1 DEF CoreLaid
  <2>3. CoreHeader.names = [i \in DOMAIN CoreTensors |-> CoreTensors[i].name]
    BY DEF CoreHeader
  <2>. HIDE DEF l
  <2>4. hdr = [i \in 1..l |-> CoreTensors[i].name]
    BY <2>1, <2>2, <2>3
  <2>. QED  BY <1>1, <2>2, <2>4 DEF CoreLaid, l
<1>. HIDE DEF l
<1>3. got \in Seq(U) /\ Len(got) \in Nat /\ Len(got) < 4 /\ rpc = "core"
  <2>1. Len(Wanted) = 4
    BY DEF Wanted
  <2>. QED  BY <1>1, <2>1 DEF ReadCore, Server
<1>4. t # Absent /\ got' = Append(got, t) /\ UNCHANGED <<rpc, meta, hdr, idx>>
  <2>1. ~Reset
    BY DEF Reset
  <2>2. t = Absent => Reset
    BY DEF ReadCore
  <2>3. t # Absent => got' = Append(got, t) /\ UNCHANGED <<rpc, meta, hdr, idx>>
    BY DEF ReadCore
  <2>. QED  BY <2>1, <2>2, <2>3
<1>5. hdr \in Seq({CoreTensors[i].name : i \in 1..l}) /\ Len(hdr) = l
  <2>. DEFINE S == {CoreTensors[i].name : i \in 1..l}
  <2>1. hdr = [i \in 1..l |-> hdr[i]] /\ \A i \in 1..l : hdr[i] \in S
    BY <1>2
  <2>2. l \in Nat
    BY <1>2
  <2>. HIDE DEF S
  <2>3. hdr \in Seq(S) /\ Len(hdr) = l
    BY <2>1, <2>2, SomeSeq
  <2>. QED  BY <2>3 DEF S
<1>6. \A x \in TextTensors : x \in model.core /\ (model.kimi => x.prefix = "language_model")
  BY DEF TextTensors
<1>7. \A x \in model.core : x.prefix \in IF model.kimi THEN {"language_model", "vision"} ELSE {""}
  BY <1>1, PackAssumption, Zenon
<1>8. model.kimi \in BOOLEAN
  BY <1>1, PackAssumption, Zenon
<1>9. CASE tied
  <2>1. name = "head" /\ name \notin Range(hdr) /\ ~model.kimi /\ t = got[Len(got)]
    BY <1>9 DEF Last
  <2>2. k # 1
    <3>1. Wanted[1] # "head"
      BY DEF Wanted
    <3>. HIDE DEF k
    <3>2. Wanted[k] = "head"
      BY <2>1
    <3>. QED  BY <3>1, <3>2
  <2>3. Len(got) \in 1..Len(got) /\ k - 1 = Len(got) /\ k = Len(got) + 1
    BY <1>3, <2>2
  <2>. HIDE DEF k
  <2>4. t \in U
    BY <1>3, <2>1, <2>3, ElementOfSeq
  <2>. HIDE DEF t
  <2>5. got'[k] = t /\ got'[k - 1] = got[Len(got)]
    <3>1. got'[Len(got) + 1] = t /\ \A i \in 1..Len(got) : got'[i] = got[i]
      BY <1>3, <1>4, <2>4, AppendProperties
    <3>. QED  BY <2>3, <3>1
  <2>6. \A x \in model.core : x.name # "head"
    <3>. SUFFICES ASSUME NEW x \in model.core, x.name = "head"
                  PROVE  FALSE
      OBVIOUS
    <3>1. x \in TextTensors
      BY <2>1 DEF TextTensors
    <3>2. PICK i \in 1..l : CoreTensors[i] = x
      <4>1. DOMAIN CoreTensors = 1..l
        BY <1>2 DEF l
      <4>. QED  BY <1>2, <3>1, <4>1 DEF Range
    <3>3. hdr[i] = "head" /\ i \in DOMAIN hdr
      BY <1>2, <3>2
    <3>. QED  BY <2>1, <3>3 DEF Range
  <2>7. LoadedAt(got', k)
    BY <2>1, <2>5, <2>6 DEF LoadedAt
  <2>. QED  BY <1>3, <1>4, <2>4, <2>7 DEF k
<1>10. CASE ~tied
  <2>1. t = Raw(name)
    BY <1>10
  <2>2. PICK i \in 1..l : hdr[i] = name /\ i < Len(core) /\ t = core[i + 1]
    BY <1>4, <1>5, <2>1, RawIs
  <2>. HIDE DEF k, t
  <2>3. t = Tensor(CoreTensors[i]) /\ t \in U
    <3>1. core \in Seq(U) /\ Len(core) \in Nat /\ \A j \in 1..Len(core) : core[j] = C[j]
      BY <1>1 DEF Core, PrefixOf
    <3>2. i + 1 \in 1..Len(core)
      BY <2>2, <3>1
    <3>3. t \in U
      BY <2>2, <3>1, <3>2, ElementOfSeq
    <3>. QED  BY <1>2, <2>2, <3>1, <3>2, <3>3
  <2>. DEFINE x == CoreTensors[i]
  <2>4. x \in TextTensors
    BY <1>2, ElementOfSeq DEF l
  <2>5. x.name = name
    BY <1>2, <2>2
  <2>. HIDE DEF x
  <2>6. x \in model.core /\ x.prefix # "vision"
    <3>1. x \in model.core /\ (model.kimi => x.prefix = "language_model")
      BY <1>6, <2>4
    <3>2. ~model.kimi => x.prefix \in {""}
      BY <1>7, <3>1
    <3>. QED  BY <3>1, <3>2
  <2>7. k = Len(got) + 1
    BY DEF k
  <2>8. got'[k] = Tensor(x)
    <3>1. got'[Len(got) + 1] = t
      BY <1>3, <1>4, <2>3, AppendProperties
    <3>. QED  BY <2>3, <2>7, <3>1 DEF x
  <2>9. LoadedAt(got', k)
    BY <2>5, <2>6, <2>8 DEF LoadedAt
  <2>. QED  BY <1>3, <1>4, <2>3, <2>7, <2>9
<1>. QED  BY <1>9, <1>10

(* The steps of the server.                                                *)
LEMMA ServerSteps ==
  ASSUME NEW U, NEW P, NEW off, NEW T, NEW C, Good(U, P, off, T, C), Serve
  PROVE  Shape(U, P, off, T, C)'
<1>1. PackFacts(U, P, off, T, C) /\ CoreLaid(U, C)
  BY GoodFacts DEF Good
<1>2. UNCHANGED <<model, converter, made, files>>
  BY DEF Serve, Load, OpenCore, ReadCore, OpenPack, Close
<1>3. Blobs(U, P, off, T)' /\ Finishing(U, P, off, T)' /\ Left(U, P, off)' /\ Core(U, C)'
  <2>1. Blobs(U, P, off, T)'
    BY <1>1, <1>2 DEF PackFacts, converter, files, Blobs, Indexed, EntryIn, Tracks, Over, Zero
  <2>2. Finishing(U, P, off, T)'
    BY <1>1, <1>2 DEF PackFacts, converter, files, Finishing, Indexed, EntryIn, Tracks, Over,
                      Zero, Blank
  <2>3. Left(U, P, off)'
    BY <1>1, <1>2 DEF PackFacts, converter, files, Left, PrefixOf, Holed, Blank, Zero, Writer
  <2>4. Core(U, C)'
    BY <1>1, <1>2 DEF PackFacts, converter, files, Core, PrefixOf, Tracks, Over, Zero
  <2>. QED  BY <2>1, <2>2, <2>3, <2>4
<1>4. Server(U, P, C, T) /\ <<>> \in Seq(U) /\ Len(<<>>) = 0 /\ T \in Nat
  BY <1>1 DEF PackFacts
<1>5. ASSUME Reset
      PROVE  Server(U, P, C, T)'
  BY <1>4, <1>5 DEF Reset, Server
<1>6. ASSUME Load
      PROVE  Server(U, P, C, T)'
  <2>1. meta' = P[2] /\ rpc' = "header" /\ UNCHANGED <<hdr, got, idx>> /\ rpc = "closed"
    BY <1>1, <1>6, OpenedPack DEF Load
  <2>. QED  BY <1>4, <2>1 DEF Server
<1>7. ASSUME OpenCore
      PROVE  Server(U, P, C, T)'
  <2>1. CASE Len(core) > 0
    <3>1. hdr' = core[1].names /\ rpc' = "core" /\ UNCHANGED <<meta, got, idx>> /\ rpc = "header"
      BY <1>7, <2>1 DEF OpenCore
    <3>2. core[1] = C[1]
      BY <1>1, <2>1 DEF PackFacts, Core, PrefixOf
    <3>. QED  BY <1>4, <3>1, <3>2 DEF Server
  <2>2. CASE ~(Len(core) > 0)
    BY <1>5, <1>7, <2>2 DEF OpenCore
  <2>. QED  BY <2>1, <2>2
<1>8. ASSUME ReadCore
      PROVE  Server(U, P, C, T)'
  <2>1. CASE rpc' = "closed"
    <3>1. ~(rpc' = rpc) \/ rpc # "core"
      BY <2>1
    <3>2. Reset
      BY <1>8, <2>1 DEF ReadCore
    <3>. QED  BY <1>5, <3>2
  <2>2. CASE rpc' # "closed"
    <3>1. PICK t \in U : got' = Append(got, t)
      BY <1>8, <2>2, NextLoaded
    <3>2. /\ Len(got) < 4 /\ got \in Seq(U) /\ rpc' = "core" /\ UNCHANGED <<meta, hdr, idx>>
          /\ rpc = "core"
      BY <1>8, <2>2, NextLoaded DEF ReadCore
    <3>3. got' \in Seq(U) /\ Len(got') <= 4
      BY <3>1, <3>2, AppendProperties
    <3>. QED  BY <1>4, <3>2, <3>3 DEF Server
  <2>. QED  BY <2>1, <2>2
<1>9. ASSUME OpenPack
      PROVE  Server(U, P, C, T)'
  <2>1. CASE Opens
    <3>1. meta' = pack[2] /\ idx' = Index /\ rpc' = "open" /\ UNCHANGED <<hdr, got>> /\ rpc = "core"
      BY <1>9, <2>1 DEF OpenPack
    <3>2. /\ pack[2] = P[2] /\ DOMAIN Index = 0..(T - 1)
          /\ \A k \in 0..(T - 1) : Index[k] \in {NoEntry, EntryIn(P, k)}
      BY <1>1, <2>1, OpenedPack
    <3>3. \A k \in 0..(T - 1) : (idx')[k] \in {NoEntry, EntryIn(P, k)}'
      BY <3>1, <3>2 DEF NoEntry, EntryIn
    <3>. QED  BY <1>4, <3>1, <3>2, <3>3 DEF Server
  <2>2. CASE ~Opens
    BY <1>5, <1>9, <2>2 DEF OpenPack
  <2>. QED  BY <2>1, <2>2
<1>10. ASSUME Close
       PROVE  Server(U, P, C, T)'
  BY <1>5, <1>10 DEF Close
<1>11. Server(U, P, C, T)'
  BY <1>6, <1>7, <1>8, <1>9, <1>10 DEF Serve
<1>. QED  BY <1>3, <1>11 DEF Shape

(* No step loads a tensor that is another's.                               *)
LEMMA CoreWholeStep ==
  ASSUME NEW U, NEW P, NEW off, NEW T, NEW C, Good(U, P, off, T, C), CoreWhole,
         Next
  PROVE  model' = model /\ CoreWhole'
<1>1. model' = model
  BY DEF Next, Convert, Serve, Start, WriteTensor, FlushCore, CreatePack, BlobMissing, AddBlob,
         MetaTooLarge, Bail, FinishHeader, FinishEntry, FinishFlush, Die, Load, OpenCore,
         ReadCore, OpenPack, Close
<1>2. CoreWhole <=> \A k \in DOMAIN got : LoadedAt(got, k)
  BY DEF CoreWhole, LoadedAt
<1>3. Wanted' = Wanted
  BY <1>1 DEF Wanted
<1>4. CoreWhole' <=> \A k \in DOMAIN got' : LoadedAt(got', k)
  BY <1>1, <1>3 DEF CoreWhole, LoadedAt, Tensor
<1>5. got' = got \/ got' = <<>> \/ (ReadCore /\ rpc' # "closed")
  BY DEF Next, Convert, Serve, Start, WriteTensor, FlushCore, CreatePack, BlobMissing, AddBlob,
         MetaTooLarge, Bail, FinishHeader, FinishEntry, FinishFlush, Die, Load, OpenCore,
         ReadCore, OpenPack, Close, server, Reset
<1>6. CASE got' = got
  BY <1>1, <1>2, <1>4, <1>6
<1>7. CASE got' = <<>>
  BY <1>1, <1>4, <1>7
<1>8. CASE ReadCore /\ rpc' # "closed"
  <2>1. PICK t \in U : got' = Append(got, t)
    BY <1>8, NextLoaded
  <2>2. Len(got) < 4 /\ got \in Seq(U) /\ LoadedAt(got', Len(got) + 1)
    BY <1>8, NextLoaded
  <2>3. /\ DOMAIN got = 1..Len(got) /\ Len(got) \in Nat
        /\ DOMAIN got' = 1..(Len(got) + 1)
        /\ \A i \in 1..Len(got) : got'[i] = got[i]
    BY <2>1, <2>2, AppendProperties
  <2>4. ASSUME NEW k \in 1..Len(got)
        PROVE  LoadedAt(got', k)
    <3>1. LoadedAt(got, k) /\ got'[k] = got[k]
      BY <1>2, <2>3
    <3>2. Wanted[k] = "head" => k - 1 \in 1..Len(got)
      <4>1. Wanted[1] # "head"
        BY DEF Wanted
      <4>2. Wanted[k] = "head" => k # 1
        BY <4>1
      <4>. QED  BY <2>3, <4>2
    <3>3. Wanted[k] = "head" => got'[k - 1] = got[k - 1]
      BY <2>3, <3>2
    <3>. QED  BY <3>1, <3>3 DEF LoadedAt
  <2>5. \A k \in 1..(Len(got) + 1) : k \in 1..Len(got) \/ k = Len(got) + 1
    BY <2>3
  <2>6. \A k \in DOMAIN got' : LoadedAt(got', k)
    BY <2>2, <2>3, <2>4, <2>5
  <2>. QED  BY <1>1, <1>4, <2>6
<1>. QED  BY <1>1, <1>5, <1>6, <1>7, <1>8

(* The invariant is inductive.                                             *)
LEMMA InvStep ==
  ASSUME PackInv, [Next]_vars
  PROVE  PackInv'
<1>1. PICK U, P, off, T, C : Good(U, P, off, T, C)
  BY DEF PackInv
<1>2. CoreWhole
  BY DEF PackInv
<1>3. CASE Next
  <2>1. model' = model /\ CoreWhole'
    BY <1>1, <1>2, <1>3, CoreWholeStep
  <2>2. Shape(U, P, off, T, C)'
    BY <1>1, <1>3, ConverterSteps, ServerSteps DEF Next
  <2>3. model \in Models /\ PackLaid(U, P, off, T) /\ CoreLaid(U, C)
    BY <1>1 DEF Good
  <2>4. PackLaid(U, P, off, T)' /\ CoreLaid(U, C)'
    BY <2>1, <2>3, LaidSame
  <2>5. Good(U, P, off, T, C)'
    BY <2>1, <2>2, <2>3, <2>4 DEF Good
  <2>. QED  BY <2>1, <2>5 DEF PackInv
<1>4. CASE UNCHANGED vars
  <2>1. model' = model /\ UNCHANGED <<converter, made, files, server>>
    BY <1>4 DEF vars
  <2>2. PackLaid(U, P, off, T) /\ CoreLaid(U, C) /\ model \in Models /\ PackFacts(U, P, off, T, C)
    BY <1>1, GoodFacts DEF Good
  <2>3. PackLaid(U, P, off, T)' /\ CoreLaid(U, C)'
    BY <2>1, <2>2, LaidSame
  <2>4. Blobs(U, P, off, T)' /\ Finishing(U, P, off, T)'
    BY <2>1, <2>2 DEF PackFacts, converter, files, Blobs, Finishing, Indexed, EntryIn, Tracks,
                      Over, Zero, Blank
  <2>5. Left(U, P, off)' /\ Core(U, C)'
    BY <2>1, <2>2 DEF PackFacts, converter, files, Left, PrefixOf, Holed, Blank, Zero, Writer,
                      Core, Tracks, Over
  <2>6. Server(U, P, C, T)'
    BY <2>1, <2>2 DEF PackFacts, server, Server, EntryIn, NoEntry
  <2>7. Good(U, P, off, T, C)'
    BY <2>1, <2>2, <2>3, <2>4, <2>5, <2>6 DEF Good, Shape
  <2>8. CoreWhole'
    BY <1>2, <2>1 DEF CoreWhole, Tensor, Wanted, server
  <2>. QED  BY <2>7, <2>8 DEF PackInv
<1>. QED  BY <1>3, <1>4

-----------------------------------------------------------------------------
(* Reading an expert.                                                      *)

(* A whole frame gives its expert's blob, if the slot is large enough.     *)
LEMMA DecompressedIs ==
  ASSUME NEW l \in Nat, NEW e \in Nat, NEW slot \in Nat,
         l \in 0..(model.layers - 1), e \in 0..(Experts - 1)
  PROVE  Decompressed(Frame(l, e), slot) = IF 7 <= slot THEN Blob(l, e) ELSE Failed
<1>. DEFINE D == (0..(model.layers - 1)) \X (0..(Experts - 1))
            of == {i \in D : Frame(i[1], i[2]) = Frame(l, e)}
<1>1. \A a, b \in Nat : Frame(a, b)[1] = [kind |-> "zstd", layer |-> a, expert |-> b, part |-> 1]
  <2>. SUFFICES ASSUME NEW a \in Nat, NEW b \in Nat
                PROVE  Frame(a, b)[1]
                         = [kind |-> "zstd", layer |-> a, expert |-> b, part |-> 1]
    OBVIOUS
  <2>1. 1 \in 1..(1 + ((a + b) % 3))
    OBVIOUS
  <2>. QED  BY <2>1 DEF Frame
<1>2. \A a, b \in Nat : Frame(a, b) = Frame(l, e) => a = l /\ b = e
  <2>. SUFFICES ASSUME NEW a \in Nat, NEW b \in Nat, Frame(a, b) = Frame(l, e)
                PROVE  a = l /\ b = e
    OBVIOUS
  <2>. DEFINE x == Frame(a, b)[1]
              y == Frame(l, e)[1]
  <2>1. /\ x = [kind |-> "zstd", layer |-> a, expert |-> b, part |-> 1]
        /\ y = [kind |-> "zstd", layer |-> l, expert |-> e, part |-> 1]
        /\ x = y
    BY <1>1
  <2>. HIDE DEF x, y
  <2>2. x.layer = a /\ x.expert = b /\ y.layer = l /\ y.expert = e
    BY <2>1
  <2>. QED  BY <2>1, <2>2
<1>3. of = {<<l, e>>}
  <2>1. <<l, e>> \in D /\ <<l, e>>[1] = l /\ <<l, e>>[2] = e
    OBVIOUS
  <2>2. \A i \in D : i = <<i[1], i[2]>> /\ i[1] \in Nat /\ i[2] \in Nat
    OBVIOUS
  <2>3. \A i \in of : i = <<l, e>>
    BY <1>2, <2>2
  <2>4. <<l, e>> \in of
    BY <2>1
  <2>. QED  BY <2>3, <2>4
<1>4. Frame(l, e) # <<>>
  <2>. DEFINE m == 1 + ((l + e) % 3)
  <2>1. m \in Nat \ {0} /\ DOMAIN Frame(l, e) = 1..m
    BY DEF Frame
  <2>2. 1 \in 1..m
    BY <2>1
  <2>3. DOMAIN <<>> = {}
    OBVIOUS
  <2>. QED  BY <2>1, <2>2, <2>3
<1>5. (\E i \in of : Len(Blob(i[1], i[2])) <= slot) <=> 7 <= slot
  <2>1. Len(Blob(l, e)) = 7 /\ <<l, e>>[1] = l /\ <<l, e>>[2] = e
    BY StoredIs
  <2>. HIDE DEF of
  <2>. QED  BY <1>3, <2>1
<1>6. (CHOOSE i \in of : TRUE) = <<l, e>>
  <2>. HIDE DEF of
  <2>. QED  BY <1>3
<1>7. Decompressed(Frame(l, e), slot) =
        CASE Frame(l, e) = <<>> -> <<>>
          [] \E i \in of : Len(Blob(i[1], i[2])) <= slot ->
               LET i == CHOOSE i \in of : TRUE IN Blob(i[1], i[2])
          [] OTHER -> Failed
  BY DEF Decompressed
<1>. HIDE DEF of
<1>8. CASE 7 <= slot
  <2>1. Decompressed(Frame(l, e), slot) = Blob(<<l, e>>[1], <<l, e>>[2])
    BY <1>4, <1>5, <1>6, <1>7, <1>8
  <2>2. <<l, e>>[1] = l /\ <<l, e>>[2] = e
    OBVIOUS
  <2>. QED  BY <1>8, <2>1, <2>2
<1>9. CASE ~(7 <= slot)
  BY <1>4, <1>5, <1>7, <1>9
<1>. QED  BY <1>8, <1>9

(* Rounding up is nothing for nothing.                                     *)
LEMMA NoBlocks ==
  ASSUME Align \in Nat \ {0, 1}
  PROVE  align_up(0) = 0
<1>1. (0 * Align + (Align - 1)) \div Align = 0
  <2>1. Align \in Nat \ {0} /\ Align - 1 \in 0..(Align - 1) /\ 0 \in Nat
    OBVIOUS
  <2>. QED  BY <2>1, DivMod
<1>2. 0 * Align + (Align - 1) = 0 + Align - 1 /\ 0 * Align = 0
  OBVIOUS
<1>. QED  BY <1>1, <1>2 DEF align_up

\* What reading expert i, the pack's k-th, gives, when its index entry is as
\* in the finished pack or was not yet written.
FetchedAt(P, off, T, i, k) ==
  /\ k \in 0..(T - 1) /\ EntryOf(i) = idx[k]
  /\ idx[k] \in {NoEntry, EntryIn(P, k)}
  /\ idx[k] = NoEntry => Fetch(i[1], i[2]) \in {<<>>, Failed}
  /\ idx[k] = EntryIn(P, k) => Fetch(i[1], i[2]) \in {Blob(i[1], i[2]), Failed}
  /\ /\ idx[k] = EntryIn(P, k)
     /\ off[k] + align_up(Len(Laid(k))) <= Len(pack)
     /\ model.zip \/ ~(align_up(Len(Laid(k))) > align_up(max_blob_bytes))
     => Fetch(i[1], i[2]) = Blob(i[1], i[2])

(* What lies where the index says is the expert's blob.                    *)
LEMMA SliceIs ==
  ASSUME NEW U, NEW P, NEW off, NEW T, NEW C, PackFacts(U, P, off, T, C),
         NEW k \in 0..(T - 1), off[k] + align_up(Len(Laid(k))) <= Len(pack)
  PROVE  SubSeq(pack, off[k] + 1, off[k] + Len(Laid(k))) = Laid(k)
<1>. DEFINE m == Len(Laid(k))
            b == off[k]
            s == SubSeq(pack, b + 1, b + m)
<1>1. /\ m \in Nat /\ Laid(k) \in Seq(U) /\ b \in Nat /\ off[0] \in Nat /\ off[0] <= b
      /\ align_up(m) \in Nat /\ m <= align_up(m) /\ b + align_up(m) <= Len(pack)
  <2>1. /\ m \in Nat /\ Laid(k) \in Seq(U) /\ b \in Nat /\ off[0] \in Nat
        /\ Align \in Nat \ {0, 1} /\ k \in 0..T
    BY DEF PackFacts
  <2>2. off[0] <= b
    BY DEF PackFacts, PackLaid
  <2>. HIDE DEF m, b
  <2>3. align_up(m) \in Nat /\ m <= align_up(m)
    BY <2>1, AlignUp
  <2>4. b + align_up(m) <= Len(pack)
    BY DEF m, b
  <2>. QED  BY <2>1, <2>2, <2>3, <2>4
<1>2. \A j \in 1..m : P[b + j] = Laid(k)[j]
  BY DEF PackFacts, PackLaid
<1>3. pack \in Seq(U) /\ Len(pack) \in Nat
      /\ \A i \in 1..Len(pack) : pack[i] = P[i] \/ i <= off[0]
  BY PackHoled DEF Holed
<1>. HIDE DEF m, b
<1>4. b + 1 \in 1..(Len(pack) + 1) /\ b + m \in (b + 1 - 1)..Len(pack)
  BY <1>1, <1>3
<1>5. s \in Seq(U) /\ Len(s) = m /\ \A j \in 1..m : s[j] = pack[b + j]
  <2>1. PICK x, y \in Int : x = b + 1 /\ y = b + m
    BY <1>1
  <2>2. \A i \in x..y : pack[i] \in U
    BY <1>1, <1>3, <2>1, ElementOfSeq
  <2>3. /\ SubSeq(pack, x, y) \in Seq(U)
        /\ Len(SubSeq(pack, x, y)) = IF x <= y THEN y - x + 1 ELSE 0
        /\ \A j \in 1..(y - x + 1) : SubSeq(pack, x, y)[j] = pack[x + j - 1]
    BY <2>2, SubSeqProperties
  <2>4. y - x + 1 = m /\ (IF x <= y THEN y - x + 1 ELSE 0) = m
        /\ \A j \in 1..m : x + j - 1 = b + j
    BY <1>1, <2>1
  <2>. QED  BY <2>1, <2>3, <2>4
<1>6. \A j \in 1..m : pack[b + j] = Laid(k)[j]
  <2>. SUFFICES ASSUME NEW j \in 1..m
                PROVE  pack[b + j] = Laid(k)[j]
    OBVIOUS
  <2>1. b + j \in 1..Len(pack) /\ ~(b + j <= off[0])
    BY <1>1, <1>3
  <2>. QED  BY <1>2, <1>3, <2>1
<1>7. Len(Laid(k)) = m
  BY DEF m
<1>. HIDE DEF s
<1>8. s = Laid(k)
  BY <1>1, <1>5, <1>6, <1>7, SeqEqual
<1>. QED  BY <1>8 DEF s, b, m

(* No frame is empty, and nothing decompresses to nothing.                 *)
LEMMA NothingIn ==
  ASSUME model \in Models, NEW slot
  PROVE  Decompressed(<<>>, slot) = <<>>
<1>. DEFINE D == (0..(model.layers - 1)) \X (0..(Experts - 1))
            of == {i \in D : Frame(i[1], i[2]) = <<>>}
<1>1. \A i \in D : i[1] \in Nat /\ i[2] \in Nat
  OBVIOUS
<1>2. \A a, b \in Nat : Frame(a, b) # <<>>
  <2>. SUFFICES ASSUME NEW a \in Nat, NEW b \in Nat
                PROVE  Frame(a, b) # <<>>
    OBVIOUS
  <2>. DEFINE m == 1 + ((a + b) % 3)
  <2>1. m \in Nat \ {0} /\ DOMAIN Frame(a, b) = 1..m
    BY DEF Frame
  <2>. HIDE DEF m
  <2>2. 1 \in 1..m /\ DOMAIN <<>> = {}
    BY <2>1
  <2>. QED  BY <2>1, <2>2
<1>3. of = {}
  BY <1>1, <1>2
<1>4. Decompressed(<<>>, slot) =
        CASE <<>> = <<>> -> <<>>
          [] \E i \in of : Len(Blob(i[1], i[2])) <= slot ->
               LET i == CHOOSE i \in of : TRUE IN Blob(i[1], i[2])
          [] OTHER -> Failed
  BY DEF Decompressed
<1>. HIDE DEF of
<1>. QED  BY <1>3, <1>4

(* What a read of an expert gives, by what the index says of it.           *)
LEMMA FetchIs ==
  ASSUME NEW U, NEW P, NEW off, NEW T, NEW C, PackFacts(U, P, off, T, C), rpc = "open",
         NEW i \in InPack, NEW k, k = (i[1] - model.dense) * Experts + i[2]
  PROVE  FetchedAt(P, off, T, i, k)
<1>. DEFINE l == i[1]
            e == i[2]
            en == idx[k]
            span == align_up(en.nbytes)
            slot == align_up(max_blob_bytes)
            read == SubSeq(pack, en.offset + 1, en.offset + en.nbytes)
            nb == Len(Laid(k))
<1>1. model \in Models /\ Server(U, P, C, T) /\ T = Total /\ Align \in Nat \ {0, 1}
  BY DEF PackFacts, Good
<1>2. k \in 0..(T - 1) /\ LayerAt(k) = l /\ ExpertAt(k) = e
  BY <1>1, Sizes
<1>3. /\ l \in Nat /\ e \in Nat /\ l \in 0..(model.layers - 1) /\ e \in 0..(Experts - 1)
  <2>1. model.dense \in Nat /\ model.layers \in Nat
    BY <1>1, Sizes
  <2>2. l \in model.dense..(model.layers - 1) /\ e \in 0..(Experts - 1)
    BY DEF InPack
  <2>. QED  BY <2>1, <2>2
<1>4. Laid(k) = Stored(l, e)
  BY <1>2 DEF Laid
<1>5. meta = Meta(FinalRaw) /\ en \in {NoEntry, EntryIn(P, k)}
  BY <1>1, <1>2 DEF Server, PackFacts, PackLaid
<1>6. meta.offset = model.dense /\ meta.zip = model.zip /\ meta.maxraw = FinalRaw
  BY <1>5 DEF Meta
<1>7. EntryIn(P, k) = [offset |-> off[k], nbytes |-> nb]
  <2>1. P[Align + k + 1] = Entry([offset |-> off[k], nbytes |-> nb])
    BY <1>2 DEF PackFacts, PackLaid
  <2>2. \A a, b : Entry([offset |-> a, nbytes |-> b]).offset = a
                /\ Entry([offset |-> a, nbytes |-> b]).nbytes = b
    BY DEF Entry
  <2>. HIDE DEF nb
  <2>3. P[Align + k + 1].offset = off[k] /\ P[Align + k + 1].nbytes = nb
    BY <2>1, <2>2
  <2>. QED  BY <2>3 DEF EntryIn
<1>8. nb \in Nat /\ off[k] \in Nat /\ Len(pack) \in Nat
  <2>1. \A s \in Seq(U) : Len(s) \in Nat
    OBVIOUS
  <2>2. pack \in Seq(U)
    BY PackHoled DEF Holed
  <2>3. nb \in Nat /\ off[k] \in Nat
    BY <1>2 DEF PackFacts
  <2>. QED  BY <2>1, <2>2, <2>3
<1>9. Fetch(l, e) =
        CASE en.offset + span > Len(pack) -> Failed
          [] en.offset + span <= Len(pack) /\ model.zip -> Decompressed(read, slot)
          [] en.offset + span <= Len(pack) /\ ~model.zip -> IF span > slot THEN Failed ELSE read
  BY <1>6 DEF Fetch
<1>10. model.zip \in BOOLEAN
  BY <1>1, PackAssumption, Zenon
<1>. HIDE DEF nb
<1>11. ASSUME en = NoEntry
       PROVE  Fetch(l, e) \in {<<>>, Failed}
  <2>1. en.offset = 0 /\ en.nbytes = 0
    BY <1>11 DEF NoEntry
  <2>2. span = 0
    BY <1>1, <2>1, NoBlocks
  <2>3. read = <<>>
    BY <2>1, SubSeqEmpty
  <2>4. Decompressed(read, slot) = <<>>
    BY <1>1, <2>3, NothingIn
  <2>5. en.offset + span <= Len(pack) /\ ~(en.offset + span > Len(pack))
    BY <1>8, <2>1, <2>2
  <2>. HIDE DEF en, span, slot, read
  <2>. QED  BY <1>9, <1>10, <2>3, <2>4, <2>5
<1>12. ASSUME en = EntryIn(P, k)
       PROVE  /\ Fetch(l, e) \in {Blob(l, e), Failed}
              /\ off[k] + align_up(nb) <= Len(pack) /\ (model.zip \/ ~(align_up(nb) > slot))
                   => Fetch(l, e) = Blob(l, e)
  <2>1. en.offset = off[k] /\ en.nbytes = nb
    BY <1>7, <1>12
  <2>2. align_up(nb) \in Nat
    BY <1>1, <1>8, AlignUp
  <2>3. span = align_up(nb) /\ read = SubSeq(pack, off[k] + 1, off[k] + nb)
    BY <2>1
  <2>4. CASE off[k] + align_up(nb) > Len(pack)
    <3>1. en.offset + span > Len(pack) /\ ~(off[k] + align_up(nb) <= Len(pack))
          /\ ~(en.offset + span <= Len(pack))
      BY <1>8, <2>1, <2>2, <2>3, <2>4
    <3>. HIDE DEF en, span, slot, read
    <3>. QED  BY <1>9, <3>1
  <2>5. CASE off[k] + align_up(nb) <= Len(pack)
    <3>1. en.offset + span <= Len(pack) /\ ~(en.offset + span > Len(pack))
      BY <1>8, <2>1, <2>2, <2>3, <2>5
    <3>2. read = Stored(l, e)
      BY <1>2, <1>4, <2>3, <2>5, SliceIs DEF nb
    <3>. HIDE DEF en, span, read
    <3>3. CASE model.zip
      <4>1. FinalRaw = 7 /\ Stored(l, e) = Frame(l, e)
        BY <3>3 DEF FinalRaw, Stored
      <4>2. slot = align_up(7)
        BY <1>6, <4>1 DEF max_blob_bytes
      <4>3. slot \in Nat /\ 7 <= slot
        BY <1>1, <4>2, AlignUp
      <4>. HIDE DEF slot
      <4>4. Decompressed(Frame(l, e), slot) = Blob(l, e)
        BY <1>3, <4>3, DecompressedIs
      <4>. QED  BY <1>9, <3>1, <3>2, <3>3, <4>1, <4>4
    <3>4. CASE ~model.zip
      <4>1. Stored(l, e) = Blob(l, e)
        BY <3>4 DEF Stored
      <4>2. Fetch(l, e) = IF span > slot THEN Failed ELSE Blob(l, e)
        <5>. HIDE DEF slot
        <5>. QED  BY <1>9, <3>1, <3>2, <3>4, <4>1
      <4>3. span > slot <=> align_up(nb) > slot
        <5>. HIDE DEF slot, span
        <5>. QED  BY <2>3
      <4>. HIDE DEF slot
      <4>. QED  BY <3>4, <4>2, <4>3
    <3>. QED  BY <1>10, <3>3, <3>4
  <2>. QED  BY <1>8, <2>2, <2>4, <2>5
<1>13. EntryOf(i) = idx[k]
  BY DEF EntryOf
<1>. QED  BY <1>2, <1>5, <1>11, <1>12, <1>13 DEF FetchedAt, nb

(* Entries of the finished index are those of blobs; none is a hole.       *)
LEMMA EntryIs ==
  ASSUME NEW U, NEW P, NEW off, NEW T, NEW C, PackFacts(U, P, off, T, C), NEW k \in 0..(T - 1)
  PROVE  /\ EntryIn(P, k) = [offset |-> off[k], nbytes |-> Len(Laid(k))]
         /\ EntryIn(P, k) # NoEntry
<1>. DEFINE nb == Len(Laid(k))
<1>1. P[Align + k + 1] = Entry([offset |-> off[k], nbytes |-> nb]) /\ nb >= 1 /\ nb \in Nat
  BY DEF PackFacts, PackLaid
<1>2. \A a, b : Entry([offset |-> a, nbytes |-> b]).offset = a
              /\ Entry([offset |-> a, nbytes |-> b]).nbytes = b
  BY DEF Entry
<1>. HIDE DEF nb
<1>3. P[Align + k + 1].offset = off[k] /\ P[Align + k + 1].nbytes = nb
  BY <1>1, <1>2
<1>4. EntryIn(P, k) = [offset |-> off[k], nbytes |-> nb]
  BY <1>3 DEF EntryIn
<1>5. EntryIn(P, k).nbytes = nb /\ NoEntry.nbytes = 0 /\ nb # 0
  BY <1>1, <1>4 DEF NoEntry
<1>6. EntryIn(P, k) # NoEntry
  BY <1>5
<1>. QED  BY <1>4, <1>6 DEF nb

(* Reads are sound wherever the invariant holds.                           *)
LEMMA SoundNow ==
  ASSUME PackInv
  PROVE  SoundReads
<1>1. PICK U, P, off, T, C : PackFacts(U, P, off, T, C)
  BY GoodFacts DEF PackInv
<1>2. SUFFICES ASSUME rpc = "open", NEW i \in InPack
               PROVE  Fetch(i[1], i[2]) \in {Failed, Blob(i[1], i[2])}
                        \cup IF EntryOf(i) = NoEntry THEN {<<>>} ELSE {}
  BY DEF SoundReads
<1>. DEFINE k == (i[1] - model.dense) * Experts + i[2]
<1>3. FetchedAt(P, off, T, i, k)
  BY <1>1, <1>2, FetchIs
<1>. HIDE DEF k
<1>. QED  BY <1>3 DEF FetchedAt

(* A pack that is left whole serves every expert.                          *)
LEMMA FinishedNow ==
  ASSUME PackInv
  PROVE  FinishedPackReads
<1>1. PICK U, P, off, T, C : PackFacts(U, P, off, T, C)
  BY GoodFacts DEF PackInv
<1>2. SUFFICES ASSUME made = "whole", rpc = "open", NoEntry \notin Range(idx), NEW i \in InPack
               PROVE  Fetch(i[1], i[2]) = Blob(i[1], i[2])
  BY DEF FinishedPackReads
<1>. DEFINE k == (i[1] - model.dense) * Experts + i[2]
<1>3. FetchedAt(P, off, T, i, k)
  BY <1>1, <1>2, FetchIs
<1>. HIDE DEF k
<1>4. DOMAIN idx = 0..(T - 1) /\ \A j \in 0..(T - 1) : idx[j] = EntryIn(P, j)
  <2>1. DOMAIN idx = 0..(T - 1) /\ \A j \in 0..(T - 1) : idx[j] \in {NoEntry, EntryIn(P, j)}
    BY <1>1, <1>2 DEF PackFacts, Server
  <2>2. \A j \in DOMAIN idx : idx[j] # NoEntry
    BY <1>2 DEF Range
  <2>. QED  BY <2>1, <2>2
<1>5. pack = P
  <2>1. pc \notin {"blobs", "index"}
    BY <1>1, <1>2 DEF PackFacts, Blobs, Finishing
  <2>. QED  BY <1>1, <1>2, <2>1 DEF PackFacts, Left
<1>6. off[k] + align_up(Len(Laid(k))) <= Len(pack) /\ k \in 0..(T - 1)
  <2>1. k \in 0..(T - 1) /\ PackLaid(U, P, off, T)
    BY <1>1, <1>3 DEF PackFacts, FetchedAt
  <2>2. off[k + 1] <= Len(P) /\ off[k + 1] = off[k] + align_up(Len(Laid(k)))
    BY <2>1 DEF PackLaid
  <2>. QED  BY <1>5, <2>1, <2>2
<1>7. ASSUME ~model.zip
      PROVE  Len(Laid(k)) = 7 /\ max_blob_bytes = 7
  <2>1. \A j \in 0..(T - 1) : Len(Laid(j)) = 7
    <3>. SUFFICES ASSUME NEW j \in 0..(T - 1)
                  PROVE  Len(Laid(j)) = 7
      OBVIOUS
    <3>0. model \in Models /\ T = Total
      BY <1>1 DEF PackFacts, Good
    <3>1. LayerAt(j) \in Nat /\ ExpertAt(j) \in Nat
      <4>1. LayerAt(j) \in Nat /\ ExpertAt(j) \in 0..(Experts - 1)
        BY <3>0, Sizes
      <4>. QED  BY <4>1
    <3>. QED  BY <1>7, <3>1, StoredIs DEF Laid, Stored
  <2>2. \A j \in 0..(T - 1) : idx[j].nbytes = 7
    <3>. SUFFICES ASSUME NEW j \in 0..(T - 1)
                  PROVE  idx[j].nbytes = 7
      OBVIOUS
    <3>1. idx[j] = [offset |-> off[j], nbytes |-> Len(Laid(j))]
      BY <1>1, <1>4, EntryIs
    <3>. QED  BY <2>1, <3>1
  <2>3. {idx[j].nbytes : j \in DOMAIN idx} = {7, 7}
    BY <1>4, <1>6, <2>2
  <2>4. meta = Meta(FinalRaw)
    BY <1>1, <1>2 DEF PackFacts, Server, PackLaid
  <2>5. meta.maxraw = 0
    BY <1>7, <2>4 DEF Meta, FinalRaw
  <2>6. max_blob_bytes = Max({7, 7})
    <3>1. ~(meta.maxraw > 0)
      BY <2>5
    <3>2. max_blob_bytes = Max({idx[j].nbytes : j \in DOMAIN idx})
      BY <3>1 DEF max_blob_bytes
    <3>. QED  BY <2>3, <3>2
  <2>. QED  BY <1>6, <2>1, <2>6, MaxOfTwo
<1>8. model.zip \/ ~(align_up(Len(Laid(k))) > align_up(max_blob_bytes))
  <2>1. CASE model.zip
    BY <2>1
  <2>2. CASE ~model.zip
    <3>1. align_up(7) \in Nat
      BY <1>1, AlignUp DEF PackFacts
    <3>2. ~(align_up(7) > align_up(7))
      BY <3>1
    <3>. QED  BY <1>7, <2>2, <3>2
  <2>. QED  BY <2>1, <2>2
<1>. QED  BY <1>3, <1>4, <1>6, <1>8 DEF FetchedAt

(* A pack with holes in its index that can be opened is a crash's.         *)
LEMMA PartialNow ==
  ASSUME PackInv
  PROVE  PartialOnlyByCrash
<1>1. PICK U, P, off, T, C : PackFacts(U, P, off, T, C)
  BY GoodFacts DEF PackInv
<1>2. SUFFICES ASSUME Opens, NoEntry \in Range(Index), pc # "index", made # "torn"
               PROVE  FALSE
  BY DEF PartialOnlyByCrash
<1>3. /\ T \in Nat \ {0} /\ T = Total /\ Align \in Nat \ {0, 1} /\ Len(P) \in Nat
      /\ off[0] \in Nat /\ Align + T <= off[0] /\ off[0] < Len(P)
      /\ PackLaid(U, P, off, T)
  BY <1>1 DEF PackFacts
<1>4. Len(pack) >= 1 /\ pack[1] = Magic
  <2>1. align_up(Total) \in Nat
    BY <1>3, AlignUp
  <2>2. Len(pack) >= Align + align_up(Total) /\ pack[1] = Magic
    BY <1>2 DEF Opens
  <2>3. pack \in Seq(U)
    BY <1>1, PackHoled DEF Holed
  <2>4. Len(pack) \in Nat
    BY <2>3
  <2>. QED  BY <1>3, <2>1, <2>2, <2>4
<1>5. ~PrefixOf(U, pack, Blank(P, off))
  <2>. SUFFICES ASSUME PrefixOf(U, pack, Blank(P, off))
                PROVE  FALSE
    OBVIOUS
  <2>1. 1 \in 1..Len(pack) /\ 1 \in 1..Len(P) /\ 1 <= off[0]
    BY <1>3, <1>4 DEF PrefixOf
  <2>2. pack[1] = Zero
    BY <2>1 DEF PrefixOf, Blank
  <2>3. Zero # Magic
    <3>1. Zero.kind = "zero" /\ Magic.kind = "magic"
      BY DEF Zero, Magic
    <3>. QED  BY <3>1
  <2>. QED  BY <1>4, <2>2, <2>3
<1>6. pc # "blobs"
  <2>. SUFFICES ASSUME pc = "blobs"
                PROVE  FALSE
    OBVIOUS
  <2>1. Tracks(U, pack, w, <<>>, off[0], P)
    BY <1>1 DEF PackFacts, Blobs
  <2>2. /\ w.pos \in Nat /\ off[0] <= w.pos /\ w.buf \in Seq(U) /\ w.pos + Len(w.buf) <= Len(P)
        /\ Over(U, pack, <<>>, off[0], P, w.pos)
    BY <2>1 DEF Tracks
  <2>3. Len(w.buf) \in Nat
    BY <2>2
  <2>4. w.pos <= Len(P)
    BY <1>3, <2>2, <2>3
  <2>5. PrefixOf(U, pack, Blank(P, off))
    BY <1>3, <2>2, <2>4, BlobsPrefix
  <2>. QED  BY <1>5, <2>5
<1>7. made = "whole" /\ pack = P
  <2>1. /\ made \in {"none", "failed", "torn", "whole"}
        /\ made = "none" => pack = <<>>
        /\ made = "failed" => PrefixOf(U, pack, Blank(P, off))
        /\ made = "whole" => pack = P
    BY <1>1, <1>2, <1>6 DEF PackFacts, Left
  <2>2. Len(<<>>) = 0
    OBVIOUS
  <2>3. pack # <<>>
    BY <1>4, <2>2
  <2>. QED  BY <1>2, <1>5, <2>1, <2>3
<1>8. /\ DOMAIN Index = 0..(T - 1)
      /\ \A k \in 0..(T - 1) : Index[k] = EntryIn(P, k)
  BY <1>1, <1>2, <1>7, OpenedPack
<1>9. PICK k \in 0..(T - 1) : EntryIn(P, k) = NoEntry
  BY <1>2, <1>8 DEF Range
<1>. QED  BY <1>1, <1>9, EntryIs

-----------------------------------------------------------------------------
(* The theorems.                                                           *)

(* Whatever the converter does to the pack meanwhile - truncates it, writes *)
(* it anew block by block, fails or dies - a read of an expert by a server  *)
(* that has it open (PackReader::read_blob_into) fails or returns that      *)
(* expert's weights, never another's.                                       *)
THEOREM ReadsAreSound == Spec => []SoundReads
<1>. QED  BY InitGood, InvStep, SoundNow, PTL DEF Spec

(* After a conversion that succeeded (PackWriter::finish returned) a server *)
(* with a complete index reads every expert, into a slot of the size that   *)
(* Pager::new computes from header and index.                               *)
THEOREM FinishedPacksRead == Spec => []FinishedPackReads
<1>. QED  BY InitGood, InvStep, FinishedNow, PTL DEF Spec

(* A pack whose index has holes can be opened only while finish writes the  *)
(* index or after the converter died there: no error return of the          *)
(* converter leaves one behind: header and index are written at the end.    *)
THEOREM OnlyCrashesLeavePartial == Spec => []PartialOnlyByCrash
<1>. QED  BY InitGood, InvStep, PartialNow, PTL DEF Spec

(* Every tensor a decoder has loaded (CoreWeights::load, KimiCore::load) is *)
(* the one of that name in the checkpoint's text model, even if the core    *)
(* file was rewritten under the loader.                                     *)
THEOREM CoreIsWhole == Spec => []CoreWhole
<1>1. PackInv => CoreWhole
  BY DEF PackInv
<1>. QED  BY <1>1, InitGood, InvStep, PTL DEF Spec
=============================================================================
