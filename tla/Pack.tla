-------------------------------- MODULE Pack --------------------------------
(* The two files of a model and who reads and writes them: the converter    *)
(* (crates/llmpager-convert), the pack and the safetensors formats          *)
(* (llmpager-core/src/pack.rs, st.rs) and the loading of a decoder          *)
(* (llmpager-run). Both files are rewritten in place, through a BufWriter,  *)
(* while a server may have them open or be loading them.                    *)
(*                                                                          *)
(* A file is a sequence of units, each of which says what it holds; a unit  *)
(* never written is Zero. A block is Align units, an index entry is one.    *)
EXTENDS Integers, Sequences, FiniteSets, SequencesExt, FiniteSetsExt

CONSTANTS
  Align,    \* ALIGN
  Cap,      \* capacity of a BufWriter
  Experts,  \* experts of a layer
  Models,   \* the models to convert, with the options of the converter
  Damages,  \* expert tensors a checkpoint may have lost, or have out of range
  MaxRuns   \* bound: runs of the converter

ASSUME PackAssumption ==
  /\ Align \in Nat \ {0, 1} /\ Cap \in Nat \ {0}  \* magic and metadata share a block
  /\ Experts \in Nat \ {0} /\ MaxRuns \in Nat
  /\ \A m \in Models :
       /\ m.kimi \in BOOLEAN /\ m.zip \in BOOLEAN
       /\ m.layers \in Nat /\ m.dense \in 0..(m.layers - 1)
       /\ IsFiniteSet(m.core)
       /\ \A t \in m.core :
            /\ t = [prefix |-> t.prefix, name |-> t.name]
            /\ t.prefix \in IF m.kimi THEN {"language_model", "vision"} ELSE {""}

VARIABLES
  model,   \* the model these files are for
  \* The converter:
  pc,      \* where it is,
  ckpt,    \*   what its checkpoint has lost or has too much,
  w,       \*   its BufWriter: position in the file, and the units not yet there,
  n,       \*   core tensors, or index entries, it has written,
  index, cursor, maxraw,  \* PackWriter: index, cursor, meta.max_raw_blob,
  runs,    \*   runs so far,
  made,    \*   how the last one to create the pack has left it
  \* The files:
  core, pack,
  \* The server:
  rpc,     \* "closed", "core" while it loads, "open" once it serves
  meta, hdr, got, idx  \* what it has read: pack header, core header, core, index

converter == <<pc, ckpt, w, n, index, cursor, maxraw, runs>>
files == <<core, pack>>
server == <<rpc, meta, hdr, got, idx>>
vars == <<model, converter, made, files, server>>

-----------------------------------------------------------------------------
(* Files and the BufWriter.                                                 *)

Zero == [kind |-> "zero"]
Zeros(k) == [i \in 1..k |-> Zero]
align_up(k) == ((k + Align - 1) \div Align) * Align

\* The file f with data at position pos; what lies between its end and pos is
\* a hole.
WriteAt(f, pos, data) ==
  [i \in 1..Max({Len(f), pos + Len(data)}) |->
     IF i \in (pos + 1)..(pos + Len(data)) THEN data[i - pos]
     ELSE IF i <= Len(f) THEN f[i] ELSE Zero]

Writer(pos) == [pos |-> pos, buf |-> <<>>]
Flushed(f, wr) == IF wr.buf = <<>> THEN f ELSE WriteAt(f, wr.pos, wr.buf)

\* write_all(data) of a BufWriter on the file f: data that does not fit flushes
\* the buffer, and data as large as the buffer bypasses it.
Written(f, wr, data) ==
  LET full == Len(wr.buf) + Len(data) > Cap
      file == IF full THEN Flushed(f, wr) ELSE f
      next == IF full THEN Writer(wr.pos + Len(wr.buf)) ELSE wr
  IN  IF Len(data) >= Cap
      THEN [file |-> WriteAt(file, next.pos, data), w |-> Writer(next.pos + Len(data))]
      ELSE [file |-> file, w |-> [next EXCEPT !.buf = @ \o data]]

-----------------------------------------------------------------------------
(* The checkpoint and what becomes of its tensors.                          *)

\* A tensor of an expert has one part, or three in a Kimi checkpoint. The part
\* that parse_expert and parse_expert_packed look for:
Key == IF model.kimi THEN "packed" ELSE "weight"

\* Convert bails out on an expert tensor that is out of range.
OutOfRange(c) ==
  \E t \in c.extra : /\ t.part = Key
                     /\ \/ t.layer \notin model.dense..(model.layers - 1)
                        \/ t.expert >= Experts

\* Everything but the experts goes to the core file; from a Kimi checkpoint only
\* what is under language_model, whose prefix is stripped. Their order is that of
\* the checkpoint's BTreeMap, the same for every conversion.
TextTensors == {t \in model.core : model.kimi => t.prefix = "language_model"}
CoreTensors == SetToSeq(TextTensors)

Tensor(t) == [kind |-> "core", prefix |-> t.prefix, name |-> t.name]
CoreHeader == [kind |-> "header", names |-> [i \in DOMAIN CoreTensors |-> CoreTensors[i].name]]

\* build_blob, build_kimi_blob: an expert's three projections, scales before
\* nibbles, after their dimensions. It fails when a projection is missing, or
\* its scales; a missing shape is made up for.
Needed == IF model.kimi THEN {"packed", "scale"} ELSE {"weight"}
Missing(c, l, e) ==
  \E t \in c.lost : t.layer = l /\ t.expert = e /\ t.part \in Needed
Blob(l, e) ==
  [i \in 1..7 |-> IF i = 1 THEN [kind |-> "dims", layer |-> l, expert |-> e]
                  ELSE [kind |-> IF i % 2 = 0 THEN "scales" ELSE "nibbles",
                        layer |-> l, expert |-> e, proj |-> (i - 2) \div 2]]

\* zstd: a blob becomes a frame of fewer units, how many depends on the blob.
Frame(l, e) ==
  [i \in 1..(1 + ((l + e) % 3)) |-> [kind |-> "zstd", layer |-> l, expert |-> e, part |-> i]]

Stored(l, e) == IF model.zip THEN Frame(l, e) ELSE Blob(l, e)

MoeLayers == model.layers - model.dense
Total == MoeLayers * Experts
IndexEnd == align_up(Align + Total)
\* The model layer and the expert of the pack's k-th blob.
LayerAt(k) == model.dense + k \div Experts
ExpertAt(k) == k % Experts

Magic == [kind |-> "magic"]
Meta(raw) == [kind |-> "meta", layers |-> MoeLayers, experts |-> Experts,
              zip |-> model.zip, maxraw |-> raw, offset |-> model.dense]
Entry(e) == [kind |-> "entry", offset |-> e.offset, nbytes |-> e.nbytes]

-----------------------------------------------------------------------------
(* The converter.                                                           *)

\* convert: classify the tensors and begin the core file, which is truncated.
Start(c) ==
  /\ pc = "idle" /\ runs < MaxRuns
  /\ runs' = runs + 1
  /\ ckpt' = c
  /\ IF OutOfRange(c)
     THEN UNCHANGED <<pc, w, n, core>>
     ELSE /\ pc' = "core" /\ n' = 0
          /\ core' = <<>>
          /\ w' = [pos |-> 0, buf |-> <<CoreHeader>>]
  /\ UNCHANGED <<model, index, cursor, maxraw, made, pack, server>>

\* write_safetensors_renamed: the next tensor.
WriteTensor ==
  /\ pc = "core" /\ n < Len(CoreTensors)
  /\ LET r == Written(core, w, <<Tensor(CoreTensors[n + 1])>>)
     IN  core' = r.file /\ w' = r.w
  /\ n' = n + 1
  /\ UNCHANGED <<model, pc, ckpt, index, cursor, maxraw, runs, made, pack, server>>

\* The end of write_safetensors_renamed.
FlushCore ==
  /\ pc = "core" /\ n = Len(CoreTensors)
  /\ core' = Flushed(core, w)
  /\ w' = Writer(0)
  /\ pc' = "create"
  /\ UNCHANGED <<model, ckpt, n, index, cursor, maxraw, runs, made, pack, server>>

\* Mutant: the header is written as soon as the file is there.
CreatePackHeaded ==
  /\ pc = "create"
  /\ pack' = <<Magic, Meta(0)>>
  /\ w' = Writer(IndexEnd)
  /\ index' = <<>> /\ cursor' = IndexEnd /\ maxraw' = 0
  /\ pc' = "blobs" /\ made' = "none"
  /\ UNCHANGED <<model, ckpt, n, runs, core, server>>

\* PackWriter::create: truncate the file and leave room for header and index.
CreatePack ==
  /\ pc = "create"
  /\ pack' = <<>>
  /\ w' = Writer(IndexEnd)
  /\ index' = <<>> /\ cursor' = IndexEnd /\ maxraw' = 0
  /\ pc' = "blobs" /\ made' = "none"
  /\ UNCHANGED <<model, ckpt, n, runs, core, server>>

\* An error ends the converter; dropping its BufWriter flushes it.
Bail ==
  /\ pack' = Flushed(pack, w)
  /\ w' = Writer(0)
  /\ pc' = "idle" /\ made' = "failed"
  /\ UNCHANGED <<model, ckpt, n, index, cursor, maxraw, runs, core, server>>

BlobMissing ==
  /\ pc = "blobs" /\ Len(index) < Total
  /\ Missing(ckpt, LayerAt(Len(index)), ExpertAt(Len(index)))
  /\ Bail

\* What add_blob writes: the blob, and zeros to the end of its block.
Appended(blob) ==
  LET r == Written(pack, w, blob)
      pad == align_up(Len(blob)) - Len(blob)
  IN  IF pad > 0 THEN Written(r.file, r.w, Zeros(pad)) ELSE r

\* The cursor after add_blob, and max_raw_blob after note_raw_len. Mutants: the
\* cursor moves by the blob's own length; a compressed blob's length is not noted.
AdvancedUnpadded(len) == cursor + len
Advanced(len) == cursor + align_up(len)
note_raw_lenDropped(len) == maxraw
note_raw_len(len) == IF model.zip THEN Max({maxraw, len}) ELSE maxraw

\* The next expert: build its blob, note_raw_len and compress, add_blob.
AddBlob ==
  /\ pc = "blobs" /\ Len(index) < Total
  /\ LET l == LayerAt(Len(index))
         e == ExpertAt(Len(index))
         r == Appended(Stored(l, e))
     IN  /\ ~Missing(ckpt, l, e)
         /\ maxraw' = note_raw_len(Len(Blob(l, e)))
         /\ index' = Append(index, [offset |-> cursor, nbytes |-> Len(Stored(l, e))])
         /\ cursor' = Advanced(Len(Stored(l, e)))
         /\ pack' = r.file /\ w' = r.w
  /\ UNCHANGED <<model, pc, ckpt, n, runs, made, core, server>>

\* finish refuses metadata that do not fit their block.
MetaTooLarge == pc = "blobs" /\ Len(index) = Total /\ model.json >= Align /\ Bail

\* finish: seeking back flushes the blobs; the header goes to the buffer.
FinishHeader ==
  /\ pc = "blobs" /\ Len(index) = Total /\ model.json < Align
  /\ pack' = Flushed(pack, w)
  /\ w' = [pos |-> 0, buf |-> <<Magic, Meta(maxraw)>> \o Zeros(Align - 2)]
  /\ pc' = "index" /\ n' = 0
  /\ UNCHANGED <<model, ckpt, index, cursor, maxraw, runs, made, core, server>>

\* finish: the next entry of the index.
FinishEntry ==
  /\ pc = "index" /\ n < Total
  /\ LET r == Written(pack, w, <<Entry(index[n + 1])>>)
     IN  pack' = r.file /\ w' = r.w
  /\ n' = n + 1
  /\ UNCHANGED <<model, pc, ckpt, index, cursor, maxraw, runs, made, core, server>>

\* finish: zeros to the end of the index, and the last flush.
FinishFlush ==
  /\ pc = "index" /\ n = Total
  /\ LET r == Written(pack, w, Zeros(IndexEnd - Align - Total))
     IN  pack' = Flushed(r.file, r.w)
  /\ w' = Writer(0)
  /\ pc' = "idle" /\ made' = "whole"
  /\ UNCHANGED <<model, ckpt, n, index, cursor, maxraw, runs, core, server>>

\* The converter is killed, or a write fails (the disk is full): of what it was
\* about to write, some whole blocks have reached the file.
Die ==
  /\ pc # "idle"
  /\ LET next == IF pc = "blobs" /\ Len(index) < Total
                 THEN Stored(LayerAt(Len(index)), ExpertAt(Len(index))) ELSE <<>>
         due == w.buf \o next
     IN  \E k \in {j \in 0..Len(due) : j \in {0, Len(due)} \/ (w.pos + j) % Align = 0} :
           LET sent == [w EXCEPT !.buf = SubSeq(due, 1, k)]
           IN  /\ core' = IF pc = "core" THEN Flushed(core, sent) ELSE core
               /\ pack' = IF pc = "core" THEN pack ELSE Flushed(pack, sent)
  /\ w' = Writer(0)
  /\ pc' = "idle"
  /\ made' = CASE pc = "index" -> "torn" [] pc = "blobs" -> "failed" [] OTHER -> made
  /\ UNCHANGED <<model, ckpt, n, index, cursor, maxraw, runs, server>>

-----------------------------------------------------------------------------
(* The server.                                                              *)

\* PackReader::open gets as far as a PackMeta.
Opens == /\ Len(pack) >= Align + align_up(Total)
         /\ pack[1] = Magic /\ pack[2].kind = "meta"

NoEntry == [offset |-> 0, nbytes |-> 0]
\* The index as it is read; an entry that was never written is zero.
Index == [k \in 0..(Total - 1) |->
            LET u == pack[Align + k + 1]
            IN  IF u.kind = "entry" THEN [offset |-> u.offset, nbytes |-> u.nbytes]
                ELSE NoEntry]

Absent == [kind |-> "absent"]
NoMeta == [kind |-> "none"]
Reset == rpc' = "closed" /\ meta' = NoMeta /\ hdr' = <<>> /\ got' = <<>> /\ idx' = <<>>

\* A decoder is created: the configuration comes from the pack's header.
Load ==
  /\ rpc = "closed" /\ Opens
  /\ meta' = pack[2]
  /\ rpc' = "header"
  /\ UNCHANGED <<model, converter, made, files, hdr, got, idx>>

\* SafeTensors::open.
OpenCore ==
  /\ rpc = "header"
  /\ IF Len(core) > 0
     THEN /\ hdr' = core[1].names
          /\ rpc' = "core"
          /\ UNCHANGED <<meta, got, idx>>
     ELSE Reset
  /\ UNCHANGED <<model, converter, made, files>>

\* The core tensors a decoder loads, in the order it does.
Wanted == IF model.kimi THEN <<"router", "embed", "norm", "head">>
                        ELSE <<"router", "embed", "head", "norm">>

\* SafeTensors::raw of the tensor that the header calls name; what lies past the
\* end of the file cannot be read. Mutant: it is read as zeros.
RawShort(name) ==
  LET i == SelectInSeq(hdr, LAMBDA h : h = name)
  IN  CASE i = 0 -> Absent [] i > 0 /\ i < Len(core) -> core[i + 1] [] OTHER -> Zero

Raw(name) ==
  LET i == SelectInSeq(hdr, LAMBDA h : h = name)
  IN  IF i > 0 /\ i < Len(core) THEN core[i + 1] ELSE Absent

\* CoreWeights::load, KimiCore::load: the next tensor. Where the header has no
\* lm_head the embedding, read just before, takes its place, but not for Kimi.
ReadCore ==
  /\ rpc = "core" /\ Len(got) < Len(Wanted)
  /\ LET name == Wanted[Len(got) + 1]
         tied == name = "head" /\ name \notin Range(hdr) /\ ~model.kimi
         t == IF tied THEN Last(got) ELSE Raw(name)
     IN  IF t = Absent THEN Reset
         ELSE got' = Append(got, t) /\ UNCHANGED <<rpc, meta, hdr, idx>>
  /\ UNCHANGED <<model, converter, made, files>>

\* Pager::new and its workers open the pack once more and keep its index.
OpenPack ==
  /\ rpc = "core" /\ Len(got) = Len(Wanted)
  /\ IF Opens
     THEN /\ meta' = pack[2] /\ idx' = Index
          /\ rpc' = "open"
          /\ UNCHANGED <<hdr, got>>
     ELSE Reset
  /\ UNCHANGED <<model, converter, made, files>>

\* The model is evicted.
Close ==
  /\ rpc = "open"
  /\ Reset
  /\ UNCHANGED <<model, converter, made, files>>

max_blob_bytes ==
  IF meta.maxraw > 0 THEN meta.maxraw ELSE Max({idx[k].nbytes : k \in DOMAIN idx})

Failed == <<[kind |-> "error"]>>

\* zstd: only a whole frame can be decompressed, and only into a slot that holds
\* its blob; no frame at all decompresses to nothing.
Decompressed(frame, slot) ==
  LET of == {i \in (0..(model.layers - 1)) \X (0..(Experts - 1)) : Frame(i[1], i[2]) = frame}
  IN  CASE frame = <<>> -> <<>>
        [] \E i \in of : Len(Blob(i[1], i[2])) <= slot ->
             LET i == CHOOSE i \in of : TRUE IN Blob(i[1], i[2])
        [] OTHER -> Failed

\* read_blob_into of an expert of model layer l, into a slot: whole blocks are
\* read, and must be there.
Fetch(l, e) ==
  LET en == idx[(l - meta.offset) * Experts + e]
      span == align_up(en.nbytes)
      slot == align_up(max_blob_bytes)
      read == SubSeq(pack, en.offset + 1, en.offset + en.nbytes)
  IN  CASE en.offset + span > Len(pack) -> Failed
        [] en.offset + span <= Len(pack) /\ meta.zip -> Decompressed(read, slot)
        [] en.offset + span <= Len(pack) /\ ~meta.zip -> IF span > slot THEN Failed ELSE read

-----------------------------------------------------------------------------
Init ==
  /\ model \in Models
  /\ pc = "idle" /\ ckpt = [lost |-> {}, extra |-> {}] /\ w = Writer(0) /\ n = 0
  /\ index = <<>> /\ cursor = 0 /\ maxraw = 0 /\ runs = 0
  /\ made = "none"
  /\ core = <<>> /\ pack = <<>>
  /\ rpc = "closed" /\ meta = NoMeta /\ hdr = <<>> /\ got = <<>> /\ idx = <<>>

Convert ==
  \/ \E c \in Damages : Start(c)
  \/ WriteTensor \/ FlushCore
  \/ CreatePack \/ BlobMissing \/ AddBlob
  \/ MetaTooLarge \/ FinishHeader \/ FinishEntry \/ FinishFlush

Serve == Load \/ OpenCore \/ ReadCore \/ OpenPack \/ Close

Next == Convert \/ Die \/ Serve

Spec == Init /\ [][Next]_vars

-----------------------------------------------------------------------------
(* Properties.                                                              *)

InPack == (model.dense..(model.layers - 1)) \X (0..(Experts - 1))
EntryOf(i) == idx[(i[1] - model.dense) * Experts + i[2]]

\* Whatever a converter does to the files meanwhile, a read of an expert by a
\* server that has the pack open (read_blob_into) fails or returns that expert's
\* weights; an entry that was not yet in the index when it was read gives nothing.
SoundReads ==
  rpc = "open" =>
    \A i \in InPack :
      Fetch(i[1], i[2]) \in {Failed, Blob(i[1], i[2])}
                            \cup IF EntryOf(i) = NoEntry THEN {<<>>} ELSE {}

\* After a conversion that succeeded, and until the next one creates the pack
\* anew, a server with a complete index reads every expert without an error, into
\* a slot of the size it has computed (Pager::new) from header and index.
FinishedPackReads ==
  made = "whole" /\ rpc = "open" /\ NoEntry \notin Range(idx) =>
    \A i \in InPack : Fetch(i[1], i[2]) = Blob(i[1], i[2])

\* A pack whose index has holes can be opened only while finish is writing the
\* index, or when the converter died there: no error return leaves one behind.
PartialOnlyByCrash ==
  Opens /\ NoEntry \in Range(Index) => pc = "index" \/ made = "torn"

\* Every tensor a decoder has loaded is the one of that name in the checkpoint's
\* text model, even if the core file was rewritten under the loader; without an
\* lm_head the embedding stands in for it.
CoreWhole ==
  \A k \in DOMAIN got :
    LET named == {t \in model.core : t.name = Wanted[k] /\ t.prefix # "vision"}
    IN  IF named # {} THEN \E t \in named : got[k] = Tensor(t)
        ELSE Wanted[k] = "head" /\ got[k] = got[k - 1]
=============================================================================
