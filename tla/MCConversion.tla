----------------------------- MODULE MCConversion -----------------------------
(***************************************************************************)
(* Small instances of TensorCompare: checkpoints with one layer of two     *)
(* routed experts whose down projection has the transposed shape, in one   *)
(* or two shards, whole or with one thing wrong; and a small checkpoint    *)
(* whose file is compared again.                                           *)
(***************************************************************************)
EXTENDS TensorCompare, TLC

Name(kind, layer, number, part) ==
  [kind |-> kind, layer |-> layer, number |-> number, part |-> part]
Global(part)   == Name("global", -1, -1, part)
Expert(e, p)   == Name("expert", 1, e, p)
Position       == Name("position_ids", -1, 1, "other")
Patch          == Name("clip", -1, 0, "patch")
LastClip       == Name("clip", -1, 2, "fc1")
Sparse         == [i \in 1..9 |->
  IF i <= 5 THEN Name("dash", 1, -1, <<"q", "k", "q_norm", "k_norm", "head_cls">>[i])
            ELSE Name("indexer", 1, -1, <<"q", "k", "q_norm", "k_norm">>[i - 5])]
ExpertsOf(e)   == <<Expert(e, "gate"), Expert(e, "up"), Expert(e, "down")>>

V1Names == <<Global("tok_embed"), Global("final_norm"), Name("router", 1, -1, "weight")>>
           \o ExpertsOf(1) \o ExpertsOf(0) \o <<LastClip, Patch>>
V2Names == V1Names \o <<Position>> \o Sparse
Small   == <<Global("lm_head"), Global("final_norm"), Global("tok_embed")>>

(* Shapes: those of the contract, but the experts' may be others. *)
ShapeWith(n, r, c) ==
  CASE n.kind = "expert" -> (IF n.part = "down" THEN <<c, r>> ELSE <<r, c>>)
    [] n = Global("tok_embed") -> <<3, 2>>
    [] n = Global("lm_head")   -> <<2, 4>>
    [] n.kind = "position_ids" -> <<1, 3>>
    [] n.part \in {"q", "k"}   -> <<1, 2>>
    [] OTHER                   -> <<1>>
McShape(n) == IF n.kind \in VisionKinds THEN None ELSE ShapeWith(n, 2, 4)

Width(n) == IF n.kind = "position_ids" THEN 8 ELSE 2
Bytes(s, r, c) == [i \in DOMAIN s |-> Product(ShapeWith(s[i], r, c)) * Width(s[i])]
Total(b) == LET sum[i \in 0..Len(b)] == IF i = 0 THEN 0 ELSE b[i] + sum[i - 1] IN sum
Content(s, r, c) ==
  LET end == Total(Bytes(s, r, c)) IN
  [head |-> 2 * Len(s), size |-> end[Len(s)],
   entries |-> [n \in {s[i] : i \in DOMAIN s} |->
     LET i == CHOOSE i \in DOMAIN s : s[i] = n IN
     [dtype |-> IF n = Position THEN "I64" ELSE "BF16", shape |-> ShapeWith(n, r, c),
      start |-> end[i - 1], end |-> end[i]]]]
HeaderOnly(c) == [c EXCEPT !.size = 0]

Nothing == [f \in Files |-> [real |-> None, cached |-> None]]
OneShard(c) == [Nothing EXCEPT !["one"].real = c]
First(s)  == SubSeq(s, 1, 4)
Second(s) == SubSeq(s, 5, Len(s))
TwoShards(s) == [Nothing EXCEPT !["a"].real = Content(First(s), 2, 4),
                                !["b"].real = Content(Second(s), 2, 4)]
Map(s, f) == [n \in {s[i] : i \in DOMAIN s} |-> f]
MapTwo(s) == Map(First(s), "a") @@ Map(Second(s), "b")

(* Policies and documents. *)
Module(name, family, parts, qtype) ==
  [name |-> name, family |-> family, parts |-> parts, supported |-> qtype # "f16",
   qtype |-> IF qtype = "f16" THEN NoQtype ELSE qtype]
Policy(qg, qd) == [version |-> 2, modules |->
  <<Module("gate_up", "MOE_EXPERT", {"gate", "up"}, qg), Module("down", "MOE_EXPERT", {"down"}, qd),
    Module("embed", "tok_embed", {"weight"}, NoQtype), Module("head", "lm_head", {"weight"}, "q4")>>]
WithModule(m) == [Policy("q4", "q4") EXCEPT !.modules = Append(@, m)]
BadPolicies == {[Policy("q4", "q4") EXCEPT !.version = 1], [Policy("q4", "q4") EXCEPT !.modules = <<>>],
                WithModule(Module("down", "MOE_ROUTER", {"weight"}, "q8")),
                WithModule(Module("again", "MOE_EXPERT", {"down"}, "q8")),
                WithModule(Module("view", "view_separator", {"none"}, "q2")),
                WithModule(Module("qkv", "LAYER_ATTN", {"q"}, "q4"))}

Config(v) == [sparse |-> IF v = "v2" THEN "right" ELSE "none", numbers |-> v, missing |-> {}, wrong |-> {}]
Tokens(v) == [config |-> v, json |-> v, special |-> "right"]
Docs(map, total, v) == [index |-> [map |-> map, total |-> total], config |-> Config(v),
                        processor |-> "right", tokenizer |-> Tokens(v)]
NoDocs == [index |-> None, config |-> None, processor |-> None,
           tokenizer |-> [config |-> None, json |-> None, special |-> None]]
Opts == [strict |-> TRUE, profile |-> "mixed-q4", cfg |-> Policy("q4", "q4"), header |-> None,
         payload |-> None, select |-> None, compare |-> FALSE, mayReplace |-> FALSE]
ByName(n) == [name |-> n, id |-> -1]
ById(k)   == [name |-> None, id |-> k]
Source1(d, docs_, o) == [dir |-> d, docs |-> docs_, opts |-> o]

Size(s) == Content(s, 2, 4).size
McContract == [v1 |-> [count |-> Len(V1Names), bytes |-> Size(V1Names)],
               v2 |-> [count |-> Len(V2Names), bytes |-> Size(V2Names)]]
Whole(s, v)    == Source1(OneShard(Content(s, 2, 4)), Docs(Map(s, "one"), Size(s), v), Opts)
WholeTwo(s, v) == Source1(TwoShards(s), Docs(MapTwo(s), Size(s), v), Opts)
V1 == Whole(V1Names, "v1")
V2 == WholeTwo(V2Names, "v2")

(* Layouts of every mix of types and shapes, strict only for the contract. *)
Qtypes == {"f16", "q8", "q4"}
MissingExpert == SubSeq(V1Names, 1, 6) \o SubSeq(V1Names, 8, Len(V1Names))
Layouts == {Source1(OneShard(Content(s, r, c)), NoDocs,
              [Opts EXCEPT !.strict = FALSE, !.cfg = Policy(qg, qd)]) :
              s \in {V1Names, MissingExpert}, r \in {2, 4}, c \in {2, 4}, qg \in Qtypes, qd \in Qtypes}

(* An expert of another shape than the rest, of as many bytes.             *)
Irregular(s, v, strict) ==
  Source1(OneShard([Content(s, 2, 4) EXCEPT !.entries[Expert(0, "gate")].shape = <<4, 2>>]),
          Docs(Map(s, "one"), Size(s), v), [Opts EXCEPT !.strict = strict])
ShapeChecks == {[V2 EXCEPT !.opts.strict = FALSE], Irregular(V1Names, "v1", TRUE),
                Irregular(V1Names, "v1", FALSE), Irregular(V2Names, "v2", FALSE)}

Options == {[V1 EXCEPT !.opts.profile = "mixed-q8"], [V1 EXCEPT !.opts.profile = "fp16"],
            [V1 EXCEPT !.opts.select = ByName(Global("tok_embed"))], [V1 EXCEPT !.opts.select = ById(11100)],
            [V2 EXCEPT !.opts.select = ById(77)], [V2 EXCEPT !.opts.select = ByName(Expert(1, "down")), !.opts.payload = "b"],
            [V2 EXCEPT !.opts.payload = "a"], [V2 EXCEPT !.opts.header = "a"]}
           \cup {[V1 EXCEPT !.opts.cfg = p] : p \in BadPolicies}

(* Shards that are missing, cached, doubled, replaced or of another index. *)
Cached   == [V1 EXCEPT !.dir["one"] = [real |-> None, cached |-> HeaderOnly(@.real)]]
NoMap    == [V1 EXCEPT !.docs = NoDocs, !.opts.strict = FALSE]
Reversed(s) == [i \in DOMAIN s |-> s[1 + Len(s) - i]]
McReplacements == {None, Content(Reversed(V1Names), 2, 4), Content(Reversed(Second(V2Names)), 2, 4),
                   [Content(V1Names, 2, 4) EXCEPT !.size = 8], Content(MissingExpert, 2, 4)}
Shards == {Cached, [Cached EXCEPT !.dir["model"].real = Content(Reversed(V1Names), 2, 4)],
           [NoMap EXCEPT !.dir["model"].cached = HeaderOnly(Content(Reversed(V1Names), 2, 4))],
           [V2 EXCEPT !.dir["b"] = [real |-> None, cached |-> HeaderOnly(@.real)]],
           [V2 EXCEPT !.dir["b"].real = Content(Second(V2Names) \o <<V2Names[1]>>, 2, 4)],
           [V2 EXCEPT !.docs.index.map = Map(V2Names, "a") @@ Map(<<Patch>>, "b")],
           [V1 EXCEPT !.docs.index.total = 1], [V1 EXCEPT !.docs.index = None],
           [V1 EXCEPT !.docs.index.map = Map(V2Names, "one")]}
          \cup {[s EXCEPT !.opts.mayReplace = TRUE] : s \in {V1, V2, NoMap}}

(* Tensors that are too many, too few, collide or belong to the other one. *)
Other(s, strict) ==
  Source1(OneShard(Content(s, 2, 4)), Docs(Map(s, "one"), Size(s), "v1"), [Opts EXCEPT !.strict = strict])
Tensors == {Other(s, FALSE) : s \in {
              V1Names \o <<Name("expert", 0, 300, "up"), Name("norm", 1, -1, "input")>>,
              V1Names \o <<Name("dash", 1, -1, "q")>>, V1Names \o <<Name("unknown", -1, -1, "other")>>,
              V1Names \o <<Name("dense", 1, -1, "gate")>>, V1Names \o <<Name("indexer", 12, -1, "q")>>}}
           \cup {Other(MissingExpert, TRUE), Other(MissingExpert \o <<Expert(2, "up")>>, TRUE),
                 Whole(V2Names, "v1"), [V2 EXCEPT !.docs = Docs(MapTwo(V2Names), Size(V2Names), "v1")]}

Documents ==
  {[V1 EXCEPT !.docs.config.missing = {g}] : g \in Groups} \cup
  {[V2 EXCEPT !.docs.config.missing = {g}] : g \in Groups} \cup
  {[V1 EXCEPT !.docs.config.wrong = {g}] : g \in Groups} \cup
  {[NoMap EXCEPT !.docs.config = [Config(v) EXCEPT !.missing = {"expected"}]] : v \in {"v1", "v2"}} \cup
  {[V1 EXCEPT !.docs.config.numbers = "v2"], [V2 EXCEPT !.docs.config.sparse = "wrong"],
   [V1 EXCEPT !.docs.config = None], [V1 EXCEPT !.docs.tokenizer = Tokens("v2")],
   [V1 EXCEPT !.docs.tokenizer.special = None], [NoMap EXCEPT !.docs.tokenizer = Tokens("v2")]} \cup
  {[s EXCEPT !.docs.processor = p] : s \in {V1, V2, NoMap}, p \in {None, "bare", "wrong"}}

(* The head as q4 and as q8: a profile with two types, a type in two.      *)
HeadAs(q) == [Policy("q4", "q4") EXCEPT !.modules[4].qtype = q]
CompareOf(s, v, cfg) ==
  Source1(OneShard(Content(s, 2, 4)), [NoDocs EXCEPT !.config = Config(v)],
          [Opts EXCEPT !.strict = FALSE, !.compare = TRUE, !.cfg = cfg])
Compared == {CompareOf(Small, "v1", HeadAs(q)) : q \in {"q4", "q8"}}
            \cup {CompareOf(<<Position, Global("tok_embed")>>, "v2", HeadAs("q4"))}

McSources == {V1, V2} \cup Layouts \cup ShapeChecks \cup Options \cup Shards \cup Tensors \cup Documents \cup Compared
McDamages == {{a, b} : a, b \in 0..70}
McMeta    == [header |-> 2, entry |-> 1, config |-> 3, tokenizer |-> 1,
              provenance |-> 2, dirHeader |-> 1, dirEntry |-> 1]
McKeyNames == {Global("tok_embed"), Name("router", 1, -1, "weight")}
McFileOrder == <<"a", "b", "model", "one">>
=============================================================================
