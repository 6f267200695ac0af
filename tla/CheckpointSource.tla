-------------------------- MODULE CheckpointSource --------------------------
(***************************************************************************)
(* From a checkpoint directory to the tensors of a conversion              *)
(* (build_dry_run_plan of src/unlimitedocr_c/convert.py).  A directory has *)
(* shards, each perhaps with its data, perhaps with a cached header only;  *)
(* an index that says which shard has which tensor; and the configuration, *)
(* processor and tokenizer files the runtime's contract is checked against.*)
(* A shard may be replaced at any time (ShardReading).                     *)
(*                                                                         *)
(* A shard's content is [head, entries, size]: where its data starts, for  *)
(* each name [dtype, shape, start, end], and the number of data bytes that *)
(* follow the header.  What is not a matrix is a shape of one number, its  *)
(* elements.                                                               *)
(***************************************************************************)
EXTENDS QuantPolicy, FiniteSetsExt

CONSTANTS
  None,
  Sources,            \* directories with the options of the command: [dir, docs, opts]
  FileOrder,          \* names of the shards in the order of the alphabet
  Replacements,       \* contents a shard may be replaced with
  Contract,           \* for v1 and v2 [count, bytes] of the whole checkpoint
  KeyNames,           \* tensors a strict plan must have
  SparseLayers,       \* decoder layers of a v2 checkpoint
  ExpectedShape(_)    \* shape of a tensor, None where any is accepted

Files == {FileOrder[i] : i \in DOMAIN FileOrder}

ASSUME ContractAssumption == \A v \in {"v1", "v2"} :
  Contract[v].count \in Nat /\ Contract[v].bytes \in Nat

(* A file may be missing; a header that was read has finitely many entries. *)
Finite(header) == header = None \/ IsFiniteSet(DOMAIN header.entries)

ASSUME SourceAssumption ==
  /\ FileOrder \in Seq(Files) /\ {"one", "model"} \subseteq Files
  /\ \A c \in Replacements : Finite(c)
  /\ \A s \in Sources :
       /\ DOMAIN s.dir = Files
       /\ \A f \in Files : /\ DOMAIN s.dir[f] = {"real", "cached"}
                          /\ Finite(s.dir[f].real) /\ Finite(s.dir[f].cached)
       /\ s.docs.index # None => /\ IsFiniteSet(DOMAIN s.docs.index.map)
                                 /\ \A n \in DOMAIN s.docs.index.map : s.docs.index.map[n] \in Files
       /\ {"strict", "profile", "cfg", "header", "payload", "select", "compare"} \subseteq DOMAIN s.opts
       /\ s.opts.header \in Files \cup {None}

VARIABLES
  dir, docs, opts,    \* what is on the disk and what was asked for
  phase,              \* contract, headers, check, metadata, planned, resolving, resolved, refused
  variant,            \* v1 or v2, once the configuration was read
  entries,            \* the tensors of the headers
  reads               \* per tensor of the plan the shard it is read from

sourceVars == <<dir, docs, opts, phase, variant, entries, reads>>

Go(next, holds) == phase' = IF holds THEN next ELSE "refused"

Shapes == {s \in Seq(Nat) : Len(s) \in {1, 2}}
Columns(shape) == IF Len(shape) = 1 THEN 1 ELSE shape[2]
Product(shape) == shape[1] * Columns(shape)

-----------------------------------------------------------------------------
(* Configuration: [sparse, numbers, missing, wrong].  "numbers" says whose *)
(* positions and rope it has; "missing" and "wrong" are groups of keys.    *)

Groups == {"expected", "top", "defaults", "language", "rope", "projector", "vision"}
Optional(v) == IF v = "v2" THEN {"defaults"} ELSE {"defaults", "language", "rope"}

ConfigVariant(c) == IF c.sparse = "none" THEN "v1" ELSE "v2"
ConfigHolds(c) ==
  /\ c.numbers = ConfigVariant(c)
  /\ c.sparse # "wrong"
  /\ c.missing \subseteq Optional(ConfigVariant(c))
  /\ c.wrong = {}

Unchecked(c) == ~opts.strict /\ "expected" \in c.missing
ConfigAcceptable ==
  LET c == docs.config IN
  IF c = None THEN ~opts.strict
  ELSE IF Unchecked(c) THEN c.sparse = "none" ELSE ConfigHolds(c)

ReadContract ==
  /\ phase = "contract"
  /\ Go("headers", /\ ConfigAccepted(opts.cfg)
                   /\ docs.index = None => ~opts.strict
                   /\ ConfigAcceptable)
  /\ variant' = IF docs.config = None THEN "v1" ELSE ConfigVariant(docs.config)
  /\ UNCHANGED <<dir, docs, opts, entries, reads>>

-----------------------------------------------------------------------------
(* Headers.                                                                *)

WeightMap   == IF docs.index = None THEN <<>> ELSE docs.index.map
SourceFiles == {WeightMap[n] : n \in DOMAIN WeightMap}
HeaderOf(f) == IF dir[f].real # None THEN dir[f].real ELSE dir[f].cached

DefaultPayload ==
  LET order == <<"one", "model">> \o FileOrder
      found == {i \in DOMAIN order : dir[order[i]].real # None}
  IN IF found = {} THEN None ELSE order[Min(found)]
DefaultHeader ==
  IF dir["model"].cached # None THEN dir["model"].cached
  ELSE IF DefaultPayload = None THEN None ELSE dir[DefaultPayload].real

OneHeader ==
  IF opts.header # None THEN dir[opts.header].cached
  ELSE IF SourceFiles # {} /\ HeaderOf(CHOOSE f \in SourceFiles : TRUE) # None
       THEN HeaderOf(CHOOSE f \in SourceFiles : TRUE)
  ELSE DefaultHeader

NamesOf(f) == DOMAIN HeaderOf(f).entries
ShardsAgree ==
  /\ opts.header = None
  /\ \A f \in SourceFiles :
       /\ HeaderOf(f) # None
       /\ \A n \in NamesOf(f) : n \in DOMAIN WeightMap /\ WeightMap[n] = f
MergedEntries ==
  [n \in UNION {NamesOf(f) : f \in SourceFiles} |-> HeaderOf(WeightMap[n]).entries[n]]

Several == Cardinality(SourceFiles) > 1
ReadHeaders ==
  /\ phase = "headers"
  /\ LET readable == IF Several THEN ShardsAgree ELSE OneHeader # None
         found    == IF Several THEN MergedEntries ELSE OneHeader.entries
     IN IF ~readable THEN phase' = "refused" /\ UNCHANGED entries
        ELSE /\ entries' = found
             /\ Go("check", /\ found # <<>>
                            /\ docs.index # None => DOMAIN found = DOMAIN WeightMap)
  /\ UNCHANGED <<dir, docs, opts, variant, reads>>

-----------------------------------------------------------------------------
(* Tensors.                                                                *)

Names == DOMAIN entries
EntryValid(n) ==
  LET e == entries[n]
      long == variant = "v2" /\ n.kind = "position_ids"
  IN /\ e.shape \in Shapes /\ e.start \in Nat /\ e.end \in Nat
     /\ e.dtype = IF long THEN "I64" ELSE "BF16"
     /\ e.start <= e.end
     /\ e.end - e.start = Product(e.shape) * (IF long THEN 8 ELSE 2)

ShapeHolds(n) == ExpectedShape(n) \in {None, entries[n].shape}
SparseParts(kind) == PartsOf(kind) \ (IF kind = "indexer" THEN {"head_cls"} ELSE {})
SparseComplete ==
  /\ \E n \in Names : n.kind = "position_ids"
  /\ \A layer \in SparseLayers : \A kind \in SparseKinds : \A part \in SparseParts(kind) :
       \E n \in Names : n.kind = kind /\ n.layer = layer /\ n.part = part

TotalBytes == MapThenSumSet(LAMBDA n : entries[n].end - entries[n].start, Names)
Qtype(n)   == PlannedQtype(n, entries[n].shape, opts.profile, opts.cfg)

TensorsAcceptable ==
  /\ opts.strict => /\ Cardinality(Names) = Contract[variant].count
                    /\ KeyNames \subseteq Names
                    /\ \A n \in KeyNames \cup Names : ShapeHolds(n)
                    /\ TotalBytes = Contract[variant].bytes
  /\ \A n \in Names : EntryValid(n) /\ Packable(entries[n].shape, Qtype(n))
  /\ Registered(Names)
  /\ variant = "v1" => \A n \in Names : n.kind \notin SparseKinds
  /\ variant = "v2" => /\ \A n \in Names : ShapeHolds(n)
                       /\ opts.strict => SparseComplete
  /\ docs.index # None => docs.index.total \in {-1, TotalBytes}

CheckTensors ==
  /\ phase = "check"
  /\ Go("metadata", TensorsAcceptable)
  /\ UNCHANGED <<dir, docs, opts, variant, entries, reads>>

-----------------------------------------------------------------------------
(* Processor and tokenizer: None, right (for the tokenizer the variant it  *)
(* is right for), bare (without what is checked) or wrong.                 *)

ProcessorAcceptable ==
  CASE docs.processor = None   -> variant = "v2" \/ ~opts.strict
    [] docs.processor = "bare" -> ~opts.strict
    [] OTHER                   -> docs.processor = "right"

TokenizerAcceptable ==
  LET t == docs.tokenizer IN
  IF ~opts.strict /\ (t.config \in {None, "bare"} \/ t.json \in {None, "bare"}) THEN TRUE
  ELSE t.config = variant /\ t.json = variant
       /\ (t.special = "right" \/ (t.special = None /\ ~opts.strict))

(* Data of the shards without gaps, one integer tensor in v2 and none in   *)
(* v1, and the size the index gives.                                       *)
Owner(n) == IF n \in DOMAIN WeightMap THEN WeightMap[n] ELSE None
PayloadEnd == MapThenSumSet(LAMBDA f : Max({entries[n].end : n \in {n \in Names : Owner(n) = f}}),
                            {Owner(n) : n \in Names})
PayloadAcceptable == opts.strict =>
  /\ PayloadEnd = Contract[variant].bytes
  /\ Cardinality({n \in Names : entries[n].dtype = "I64"}) = (IF variant = "v2" THEN 1 ELSE 0)
  /\ docs.index.total = Contract[variant].bytes

MetadataAcceptable == ProcessorAcceptable /\ TokenizerAcceptable /\ PayloadAcceptable

-----------------------------------------------------------------------------
(* The planned tensors, in the order of their ids.                         *)

Planned(n) ==
  LET e == entries[n] IN
  [name |-> n, id |-> IdOf(n, Names), family |-> Family(n), layer |-> n.layer,
   usage |-> Usage(n), qtype |-> Qtype(n), rows |-> e.shape[1],
   cols |-> Columns(e.shape), entry |-> e, file |-> Owner(n)]

PlanOf(names) ==
  LET id == [n \in names |-> IdOf(n, names)]
      at == [n \in names |-> 1 + Cardinality({m \in names : id[m] < id[n]})]
  IN [i \in 1..Cardinality(names) |-> Planned(CHOOSE n \in names : at[n] = i)]

SourceInit ==
  /\ \E s \in Sources : dir = s.dir /\ docs = s.docs /\ opts = s.opts
  /\ phase = "contract" /\ variant = None /\ entries = <<>> /\ reads = <<>>
=============================================================================
