--------------------------- MODULE ConvertedFile ---------------------------
(***************************************************************************)
(* How a .uocr file is laid out and streamed to disk                       *)
(* (src/unlimitedocr_c/convert.py): _layout_dry_run_file assigns offsets   *)
(* in one pass over the tensors, the routed experts' layout is validated   *)
(* for Metal, and write_uocr_model fills the payload and the scale slab of *)
(* each tensor chunk by chunk through two separate file positions.         *)
(*                                                                         *)
(* The file is a partial function from offsets to what was written there:  *)
(* the name of a metadata record, or which byte of which tensor's payload  *)
(* or scales it is.  What values a byte has is not modelled.               *)
(***************************************************************************)
EXTENDS QuantPolicy

CONSTANTS
  MoeLayers,     \* layers with routed experts
  Experts,       \* routed experts of such a layer
  ChunkRows,     \* rows (f16: elements) that may fit a chunk
  PayloadAlign, DataAlign, SectionAlign,
  Meta           \* sizes of the metadata records

ASSUME FileConstants ==
  /\ Experts \in Nat /\ MoeLayers \subseteq Nat
  /\ {PayloadAlign, DataAlign, SectionAlign} \subseteq Nat \ {0}
  /\ Meta \in [{"header", "entry", "config", "tokenizer", "provenance",
                "dirHeader", "dirEntry"} -> Nat \ {0}]
  /\ ChunkRows \subseteq Nat \ {0}

VARIABLES
  tensors,          \* the plan, in the order of the tensors' ids
  mode,             \* strict, partial (experts may be missing) or single (--tensor)
  stage,            \* where the conversion is; "source" before there is a plan
  index, last,      \* group that is laid out
  item,             \* its current tensor
  cursor,           \* end of what is laid out
  payload, scale,   \* offsets of each tensor, 0 for none
  chunk,            \* rows of a chunk
  current, rows,    \* tensor that is streamed and how much of it is
  weightPos, scalePos,
  file, size        \* the bytes of the file and its length

layoutVars == <<index, last, item, cursor, payload, scale>>
streamVars == <<current, rows, weightPos, scalePos, file, size>>
plan == <<tensors, mode, chunk>>
vars == <<plan, stage, layoutVars, streamVars>>

N == Len(tensors)
T(i) == tensors[i]
AlignDown(n, a) == n - (n % a)   \* mutant: rounds the wrong way
AlignUp(n, a) == IF n % a = 0 THEN n ELSE n + (a - (n % a))
Span(offset, length) == offset .. (offset + length - 1)

Quantized(t)   == t.qtype \in {"q8", "q4"}
RowBytes(t)    == CASE t.qtype = "f16" -> 2 * t.cols
                    [] t.qtype = "q8"  -> t.cols
                    [] t.qtype = "q4"  -> t.cols \div 2
RowScales(t)   == IF Quantized(t) THEN 2 * (t.cols \div GroupSize) ELSE 0
Omitted(t)     == t.usage = "omitted"
OutBytes(t)    == IF Omitted(t) THEN 0 ELSE t.rows * RowBytes(t)
ScaleBytes(t)  == IF Omitted(t) THEN 0 ELSE t.rows * RowScales(t)

-----------------------------------------------------------------------------
(* Sections, in file order, before the tensor data.                        *)

Sections(n) ==
  LET c == AlignUp(Meta.header + 5 * Meta.entry, SectionAlign)
      t == AlignUp(c + Meta.config, SectionAlign)
      p == AlignUp(t + Meta.tokenizer, SectionAlign)
      d == AlignUp(p + Meta.provenance, SectionAlign)
      ds == Meta.dirHeader + n * Meta.dirEntry
  IN [header |-> <<0, Meta.header>>, sections |-> <<Meta.header, 5 * Meta.entry>>,
      config |-> <<c, Meta.config>>, tokenizer |-> <<t, Meta.tokenizer>>,
      provenance |-> <<p, Meta.provenance>>, directory |-> <<d, ds>>,
      data |-> <<AlignUp(d + ds, DataAlign), 0>>]
Records       == {"header", "sections", "config", "tokenizer", "provenance", "directory"}
RecordSpan(r) == Span(Sections(N)[r][1], Sections(N)[r][2])
DataStart     == Sections(N).data[1]

FileInit ==
  /\ stage = "source"
  /\ tensors = <<>> /\ mode = "strict" /\ chunk \in ChunkRows
  /\ index = 1 /\ last = 0 /\ item = 0 /\ cursor = 0
  /\ payload = <<>> /\ scale = <<>>
  /\ current = 1 /\ rows = 0 /\ weightPos = 0 /\ scalePos = 0
  /\ file = <<>> /\ size = 0

-----------------------------------------------------------------------------
(* Layout.                                                                 *)

LayOut(p, m) ==
  /\ tensors' = p /\ mode' = m
  /\ stage' = "layout"
  /\ index' = 1 /\ last' = 0 /\ item' = 0
  /\ cursor' = Sections(Len(p)).data[1]
  /\ payload' = [i \in DOMAIN p |-> 0]
  /\ scale' = [i \in DOMAIN p |-> 0]
  /\ UNCHANGED <<chunk, streamVars>>

SkipEmpty ==
  /\ stage = "layout" /\ index <= N
  /\ OutBytes(T(index)) = 0
  /\ index' = index + 1
  /\ UNCHANGED <<plan, stage, last, item, cursor, payload, scale, streamVars>>

(* Quantized experts of one layer and type that follow one another share   *)
(* one payload slab and, after it, one scale slab.                         *)
QuantizedExpert(t) == Quantized(t) /\ t.family = "MOE_EXPERT"
SameSlab(t, u) == u.family = "MOE_EXPERT" /\ u.qtype = t.qtype /\ u.layer = t.layer
GroupEnds(i) ==
  IF QuantizedExpert(T(i))
  THEN {j \in i..N : \A k \in i..j : SameSlab(T(i), T(k))}
  ELSE {i}

StartGroup ==
  /\ stage = "layout" /\ index <= N
  /\ OutBytes(T(index)) # 0
  /\ last' \in GroupEnds(index)
  /\ \A j \in GroupEnds(index) : j <= last'
  /\ item' = index
  /\ stage' = "payloads"
  /\ UNCHANGED <<plan, index, cursor, payload, scale, streamVars>>

PlacePayload ==
  /\ stage = "payloads"
  /\ payload' = [payload EXCEPT ![item] = AlignUp(cursor, PayloadAlign)]
  /\ cursor' = AlignUp(cursor, PayloadAlign) + OutBytes(T(item))
  /\ IF item = last THEN item' = index /\ stage' = "scales"
                    ELSE item' = item + 1 /\ stage' = stage
  /\ UNCHANGED <<plan, index, last, scale, streamVars>>

AfterGroupSkips == last + 2   \* mutant: off by one
AfterGroup == last + 1
PlaceScale ==
  /\ stage = "scales"
  /\ IF ScaleBytes(T(item)) = 0 THEN UNCHANGED <<scale, cursor>>
     ELSE /\ scale' = [scale EXCEPT ![item] = AlignUp(cursor, PayloadAlign)]
          /\ cursor' = AlignUp(cursor, PayloadAlign) + ScaleBytes(T(item))
  /\ IF item = last THEN index' = AfterGroup /\ item' = 0 /\ stage' = "layout"
                    ELSE item' = item + 1 /\ UNCHANGED <<index, stage>>
  /\ UNCHANGED <<plan, last, payload, streamVars>>

-----------------------------------------------------------------------------
(* The experts of a layer in the order Metal addresses them.               *)

ExpertName(layer, n) ==
  [kind |-> "expert", layer |-> layer, number |-> n \div 3, part |-> Projections[(n % 3) + 1]]
ExpertTensor(layer, n) ==   \* the tensors with the id of the n-th projection
  {i \in 1..N : T(i).id = LayerId(ExpertName(layer, n))}
Slots == 0..(3 * Experts - 1)
Complete(layer) == \A n \in Slots : ExpertTensor(layer, n) # {}
Slot(layer, n)  == CHOOSE i \in 1..N : i \in ExpertTensor(layer, n)

FollowsSomewhere(i, j) == payload[i] > payload[j]   \* mutant: gaps pass
Follows(i, j) == payload[i] = payload[j] + OutBytes(T(j))
Contiguous(layer) ==
  /\ \A n \in Slots : LET i == Slot(layer, n) IN
       /\ T(i).name = ExpertName(layer, n)
       /\ ~Omitted(T(i)) /\ OutBytes(T(i)) > 0
       /\ Quantized(T(i)) => ScaleBytes(T(i)) > 0
       /\ n > 0 => Follows(i, Slot(layer, n - 1))
  /\ \A n \in Slots :   \* scales follow those of the quantized tensor before
       LET i == Slot(layer, n)
           earlier == {m \in 0..(n - 1) : Quantized(T(Slot(layer, m)))}
       IN Quantized(T(i)) /\ earlier # {} =>
            LET m == CHOOSE m \in earlier : \A l \in earlier : l <= m
                j == Slot(layer, m)
            IN scale[i] = scale[j] + ScaleBytes(T(j))

LayoutAccepted == mode # "single" => \A layer \in MoeLayers :
  IF Complete(layer) THEN Contiguous(layer) ELSE mode = "partial"

Validate ==
  /\ stage = "layout" /\ index > N
  /\ stage' = IF LayoutAccepted THEN "laid" ELSE "refused"
  /\ UNCHANGED <<plan, layoutVars, streamVars>>

-----------------------------------------------------------------------------
(* Writing.  An open file keeps what is not overwritten.                   *)

Byte(i, part, k) == <<i, part, k>>

StartOf(slab, i) == IF i > N THEN 0 ELSE slab[i]

WriteMetadata ==
  /\ stage = "metadata"
  /\ stage' = "write"
  /\ file' = [o \in UNION {RecordSpan(r) : r \in Records} |->
                <<CHOOSE r \in Records : o \in RecordSpan(r)>>]
  /\ weightPos' = StartOf(payload, 1)
  /\ scalePos' = StartOf(scale, 1)
  /\ UNCHANGED <<plan, layoutVars, current, rows, size>>

Streaming == stage = "write" /\ current <= N
Batch     == IF T(current).rows - rows < chunk THEN T(current).rows - rows ELSE chunk

(* Both formats read the rows in order; a quantized one seeks to its place *)
(* in the payload and then to its place in the scales.                     *)
WriteRows ==
  /\ Streaming /\ ~Omitted(T(current)) /\ rows < T(current).rows
  /\ LET w == Batch * RowBytes(T(current))
         s == Batch * RowScales(T(current))
     IN /\ file' = [o \in DOMAIN file \cup Span(weightPos, w) \cup Span(scalePos, s) |->
             IF o \in Span(scalePos, s)
             THEN Byte(current, "scale", rows * RowScales(T(current)) + (o - scalePos))
             ELSE IF o \in Span(weightPos, w)
             THEN Byte(current, "weight", rows * RowBytes(T(current)) + (o - weightPos))
             ELSE file[o]]
        /\ weightPos' = weightPos + w
        /\ scalePos' = scalePos + s
  /\ rows' = rows + Batch
  /\ UNCHANGED <<plan, stage, layoutVars, current, size>>

Written == /\ weightPos = payload[current] + OutBytes(T(current))
           /\ scalePos = scale[current] + ScaleBytes(T(current))

NextTensor ==
  /\ Streaming
  /\ Omitted(T(current)) \/ rows = T(current).rows
  /\ IF Omitted(T(current)) \/ Written
     THEN /\ current' = current + 1
          /\ rows' = 0
          /\ weightPos' = StartOf(payload, current + 1)
          /\ scalePos' = StartOf(scale, current + 1)
          /\ UNCHANGED stage
     ELSE stage' = "miscounted" /\ UNCHANGED <<current, rows, weightPos, scalePos>>
  /\ UNCHANGED <<plan, layoutVars, file, size>>

(* Truncated source, non-finite value in a quantized tensor, wrong values  *)
(* in the omitted one, full disk.                                          *)
FailWriting ==
  /\ stage \in {"metadata", "write"}
  /\ stage' = "failed"
  /\ UNCHANGED <<plan, layoutVars, streamVars>>

Truncate ==
  /\ stage = "write" /\ current > N
  /\ size' = cursor
  /\ file' = [o \in DOMAIN file \cap 0..(cursor - 1) |-> file[o]]
  /\ stage' = "done"
  /\ UNCHANGED <<plan, layoutVars, current, rows, weightPos, scalePos>>

LayoutNext == SkipEmpty \/ StartGroup \/ PlacePayload \/ PlaceScale \/ Validate
WriteQuietly == WriteMetadata \/ NextTensor \/ Truncate \/ FailWriting

-----------------------------------------------------------------------------
Stages == {"source", "layout", "payloads", "scales", "laid", "metadata", "write", "done",
           "refused", "failed", "miscounted", "damaged"}

FileTypeOK ==
  /\ stage \in Stages
  /\ index \in 1..(N + 1) /\ last \in 0..N /\ item \in 0..N
  /\ payload \in [1..N -> Nat] /\ scale \in [1..N -> Nat]
  /\ cursor \in Nat /\ size \in Nat
  /\ current \in 1..(N + 1) /\ rows \in Nat

(* A region is an offset and a length; offset 0 is no region. *)
Payload(i) == [offset |-> payload[i], length |-> OutBytes(T(i))]
Scale(i)   == [offset |-> scale[i], length |-> ScaleBytes(T(i))]
Apart(r, s) == r.offset = 0 \/ s.offset = 0
               \/ r.offset + r.length <= s.offset \/ s.offset + s.length <= r.offset
InData(r)   == r.offset = 0 \/ (r.offset >= DataStart /\ r.offset + r.length <= cursor)

(* No byte of the file belongs to two tensors, to a tensor's payload and   *)
(* its scales, or to a tensor and the metadata, and every slab starts      *)
(* aligned.                                                                *)
RegionsDisjoint ==
  /\ \A r \in Records : Sections(N)[r][1] + Sections(N)[r][2] <= DataStart
  /\ \A i \in 1..N :
       /\ Apart(Payload(i), Scale(i)) /\ InData(Payload(i)) /\ InData(Scale(i))
       /\ payload[i] % PayloadAlign = 0 /\ scale[i] % PayloadAlign = 0
       /\ \A j \in 1..(i - 1) : \A r \in {Payload(i), Scale(i)}, s \in {Payload(j), Scale(j)} : Apart(r, s)

(* Metal maps a layer's experts as one slab from expert 0's gate and finds *)
(* a projection by its offset inside an expert's stride, in the payloads   *)
(* and in the scales.  Every layout the planner accepts can be addressed   *)
(* that way, if the experts of the layer have the same shapes.             *)
Offset(layer, Bytes(_), e, p) ==
  LET b(n) == Bytes(T(Slot(layer, n)))
  IN e * (b(0) + b(1) + b(2)) + (IF p > 0 THEN b(0) ELSE 0) + (IF p > 1 THEN b(1) ELSE 0)
SameShapes(layer) == \A n \in Slots :
  T(Slot(layer, n)).entry.shape = T(Slot(layer, n % 3)).entry.shape
ExpertsAddressable ==
  mode # "single" /\ stage \in {"laid", "done"} =>
    \A layer \in MoeLayers : Complete(layer) /\ SameShapes(layer) =>
      \A e \in 0..(Experts - 1), p \in 0..2 :
        LET i == Slot(layer, 3 * e + p) IN
        /\ payload[i] = payload[Slot(layer, 0)] + Offset(layer, OutBytes, e, p)
        /\ Quantized(T(i)) /\ Quantized(T(Slot(layer, 0))) =>
             scale[i] = scale[Slot(layer, 0)] + Offset(layer, ScaleBytes, e, p)

(* A plan with every expert, one type per layer and whole alignment units  *)
(* is never refused.                                                       *)
Regular == \A layer \in MoeLayers :
  /\ Complete(layer)
  /\ \A n \in Slots : LET t == T(Slot(layer, n)) IN
       /\ t.name = ExpertName(layer, n)
       /\ t.qtype = T(Slot(layer, 0)).qtype /\ OutBytes(t) > 0
       /\ OutBytes(t) % PayloadAlign = 0 /\ ScaleBytes(t) % PayloadAlign = 0
RegularPlansAccepted == stage = "refused" => ~Regular

Region(at, Bytes(_), i) == IF at[i] = 0 THEN {} ELSE Span(at[i], Bytes(T(i)))

(* A finished file has the planned length and holds, at the planned        *)
(* offsets, every byte of every tensor in order, the metadata and nothing  *)
(* else: whatever fits a chunk, the two positions never drift.             *)
FileExact ==
  /\ stage # "miscounted"
  /\ stage = "done" =>
       /\ size = cursor
       /\ \A i \in 1..N :
            /\ \A k \in 1..OutBytes(T(i)) : file[payload[i] + k - 1] = Byte(i, "weight", k - 1)
            /\ \A k \in 1..ScaleBytes(T(i)) : file[scale[i] + k - 1] = Byte(i, "scale", k - 1)
       /\ DOMAIN file = (UNION {RecordSpan(r) : r \in Records})
            \cup (UNION {Region(payload, OutBytes, i) \cup Region(scale, ScaleBytes, i) : i \in 1..N})
=============================================================================
