----------------------------- MODULE QuantPolicy -----------------------------
(***************************************************************************)
(* Which tensors a conversion quantizes (src/unlimitedocr_c/quant_cfg.py   *)
(* and the planner of src/unlimitedocr_c/convert.py).  A configuration is  *)
(* [version, modules], a module [name, family, parts, supported, qtype]    *)
(* with NoQtype for a module that declares none.                           *)
(***************************************************************************)
EXTENDS TensorIds, Sequences

CONSTANTS NoQtype, GroupSize

ASSUME GroupAssumption == GroupSize \in Nat \ {0}

Q4Families == {"MOE_EXPERT", "MOE_SHARED", "LAYER_DENSE_MLP", "lm_head", "tok_embed",
               "VISION_SAM", "VISION_CLIP", "PROJECTOR"}

ModuleQtype(m) == IF m.qtype = NoQtype THEN "q8" ELSE m.qtype
Pairs(m)       == IF m.supported THEN {<<m.family, p>> : p \in m.parts} ELSE {}

ConfigAccepted(cfg) ==
  /\ cfg.version \in {1, 2}
  /\ cfg.modules # <<>>
  /\ \A i \in DOMAIN cfg.modules : LET m == cfg.modules[i] IN
       /\ m.parts # {}
       /\ cfg.version = 1 => m.qtype = NoQtype
       /\ ModuleQtype(m) \in {"q8", "q4"}
       /\ ModuleQtype(m) = "q4" => m.family \in Q4Families
       /\ \A j \in 1..(i - 1) : /\ cfg.modules[j].name # m.name
                                /\ Pairs(cfg.modules[j]) \cap Pairs(m) = {}

Supports(cfg, pair) == \E i \in DOMAIN cfg.modules : pair \in Pairs(cfg.modules[i])
SupportedQtype(cfg, pair) ==
  LET i == CHOOSE i \in DOMAIN cfg.modules : pair \in Pairs(cfg.modules[i])
  IN ModuleQtype(cfg.modules[i])

Usage(n) ==
  CASE n.kind = "position_ids" -> "omitted"
    [] n.kind = "indexer"      -> "unused"
    [] n.kind = "clip" /\ n.part = "patch" -> "unused"
    [] OTHER                   -> "runtime"

KeptFamilies == {"MOE_ROUTER", "DASH_ROUTER", "SPARSE_INDEXER"}
Candidate(n, shape, cfg) ==
  /\ Usage(n) = "runtime" /\ Len(shape) = 2
  /\ Family(n) \notin KeptFamilies
  /\ Supports(cfg, <<Family(n), Projection(n)>>)

(* A q4 module of a mixed-q8_0 conversion falls back to q8. *)
PlannedQtype(n, shape, profile, cfg) ==
  IF profile = "fp16" \/ ~Candidate(n, shape, cfg) THEN "f16"
  ELSE IF profile = "mixed-q4" THEN SupportedQtype(cfg, <<Family(n), Projection(n)>>)
  ELSE "q8"

(* A quantized tensor needs whole groups of columns, and q4 whole bytes. *)
Packable(shape, qtype) == qtype # "f16" =>
  /\ shape[1] > 0 /\ shape[2] > 0
  /\ shape[2] % GroupSize = 0
  /\ qtype = "q4" => shape[2] % 2 = 0
=============================================================================
