------------------------------ MODULE TensorIds ------------------------------
(***************************************************************************)
(* The numbers the runtime knows tensors by                                *)
(* (src/unlimitedocr_c/tensor_registry.py).  A tensor name is a record:    *)
(* the kind of module it belongs to, its layer, its number (that of its    *)
(* expert; for the vision towers its place in the alphabet) and its part.  *)
(***************************************************************************)
EXTENDS Integers, FiniteSets

LayerKinds  == {"norm", "attn", "dense", "router", "shared", "dash", "indexer", "expert"}
VisionKinds == {"sam", "clip"}
SparseKinds == {"dash", "indexer"}
Globals     == {"tok_embed", "lm_head", "final_norm", "image_newline",
                "view_separator", "projector_weight", "projector_bias"}
Kinds       == LayerKinds \cup VisionKinds \cup {"global", "position_ids", "unknown"}

PartsOf(kind) ==
  CASE kind = "norm"   -> {"input", "post"}
    [] kind = "attn"   -> {"q", "k", "v", "o"}
    [] kind \in {"dense", "shared", "expert"} -> {"gate", "up", "down"}
    [] kind = "router" -> {"weight"}
    [] kind \in SparseKinds -> {"q", "k", "q_norm", "k_norm", "head_cls"}
    [] kind = "global" -> Globals
    [] OTHER           -> {"qkv", "out", "fc1", "fc2", "patch", "other"}

LayerBase   == 10000
LayerStride == 1000
SamBase     == 100000
ClipBase    == 200000
PositionIds == 299999
MaxTensorId == 999999

GlobalId(part) ==
  CASE part = "tok_embed" -> 1 [] part = "lm_head" -> 2 [] part = "final_norm" -> 3
    [] part = "image_newline" -> 4 [] part = "view_separator" -> 5
    [] part = "projector_weight" -> 6 [] OTHER -> 7

(* The place of a tensor among those of its layer. *)
PartOffset(kind, part) ==
  CASE kind = "norm" -> (IF part = "input" THEN 0 ELSE 1)
    [] kind = "attn" -> (CASE part = "q" -> 0 [] part = "k" -> 1 [] part = "v" -> 2 [] OTHER -> 3)
    [] kind \in {"dense", "shared", "expert"} ->
         (CASE part = "gate" -> 0 [] part = "up" -> 1 [] OTHER -> 2)
    [] kind \in SparseKinds ->
         (CASE part = "q" -> 0 [] part = "k" -> 1 [] part = "q_norm" -> 2
            [] part = "k_norm" -> 3 [] OTHER -> 4)
    [] OTHER -> 0
KindBase(kind) ==
  CASE kind = "norm" -> 1 [] kind = "attn" -> 10 [] kind = "dense" -> 30
    [] kind = "router" -> 40 [] kind = "shared" -> 50 [] kind = "dash" -> 60
    [] kind = "indexer" -> 70 [] OTHER -> 100
ExpertStride == 3
LocalId(n) == KindBase(n.kind) + PartOffset(n.kind, n.part)
              + (IF n.kind = "expert" THEN ExpertStride * n.number ELSE 0)

LayerId(n) == LayerBase + LayerStride * n.layer + LocalId(n)

(* The rank of a vision tensor among those that are present, position_ids  *)
(* apart.                                                                  *)
RankWithPositions(n, names) ==   \* mutant: position_ids renumbers CLIP
  Cardinality({m \in names : m.number < n.number
                 /\ (m.kind = n.kind \/ (n.kind = "clip" /\ m.kind = "position_ids"))})
Rank(n, names) == Cardinality({m \in names : m.kind = n.kind /\ m.number < n.number})

IdOf(n, names) ==
  CASE n.kind = "global"       -> GlobalId(n.part)
    [] n.kind = "sam"          -> SamBase + Rank(n, names)
    [] n.kind = "clip"         -> ClipBase + Rank(n, names)
    [] n.kind = "position_ids" -> PositionIds
    [] OTHER                   -> LayerId(n)

UnsupportedSparse(n) ==
  /\ n.kind \in SparseKinds
  /\ n.layer >= 12 \/ (n.kind = "indexer" /\ n.part = "head_cls")

Collides(n, names) == \E m \in names \ {n} : IdOf(m, names) = IdOf(n, names)

(* A set of names build_tensor_registry accepts. *)
Registered(names) == \A n \in names :
  /\ n.kind # "unknown" /\ ~UnsupportedSparse(n)
  /\ n.kind = "dense" => n.layer = 0
  /\ IdOf(n, names) \in 1..MaxTensorId
  /\ ~Collides(n, names)

(* The family and projection the file's directory and the quantization     *)
(* policy know a tensor by.                                                *)
Family(n) ==
  CASE n.kind = "norm"   -> "LAYER_NORM" [] n.kind = "attn" -> "LAYER_ATTN"
    [] n.kind = "dense"  -> "LAYER_DENSE_MLP" [] n.kind = "router" -> "MOE_ROUTER"
    [] n.kind = "shared" -> "MOE_SHARED" [] n.kind = "expert" -> "MOE_EXPERT"
    [] n.kind = "dash"   -> "DASH_ROUTER" [] n.kind = "indexer" -> "SPARSE_INDEXER"
    [] n.kind = "sam"    -> "VISION_SAM"
    [] n.kind \in {"clip", "position_ids"} -> "VISION_CLIP"
    [] n.part \in {"projector_weight", "projector_bias"} -> "PROJECTOR"
    [] OTHER             -> n.part
Projection(n) ==
  CASE n.kind \in {"attn", "dense", "shared", "expert", "dash", "indexer"} -> n.part
    [] n.kind \in VisionKinds -> (IF n.part \in {"patch", "other"} THEN "none" ELSE n.part)
    [] n.kind = "position_ids" \/ n.part \in {"image_newline", "view_separator"} -> "none"
    [] n.part = "projector_bias" -> "bias"
    [] OTHER             -> "weight"
Projections == <<"gate", "up", "down">>
=============================================================================
