--------------------------- MODULE FrontendRequest ---------------------------
(***************************************************************************)
(* The request the Python frontend prepares (src/unlimitedocr_c/           *)
(* frontend.py) and the two gates it goes through: the checks of the ctypes *)
(* layer (ffi.py: as_c_request) and those of the native library            *)
(* (src/runtime/uocr_request_validation.c), written three times by hand.   *)
(*                                                                         *)
(* A prompt is a sequence of "text", "PAGE" and "image"; a token sequence  *)
(* is a sequence of runs of tokens of one kind.  Pixels are left out.      *)
(***************************************************************************)
EXTENDS Integers, Sequences, SequencesExt, FiniteSets

CONSTANTS
  TextTokens,  \* tokens of a piece of text
  None         \* a budget that is not given; -1 is one that is

ASSUME TextAssumption == TextTokens \in Nat \ {0}
ASSUME NoneAssumption == None \notin Int

LocalQueries == 10
GlobalTokens == 273
Positions(model) == IF model = "v2" THEN 131072 ELSE 32768
RingWindow(model) == IF model = "v2" THEN 0 ELSE 128
DefaultGenTokens == 512

Count(s, x) == Cardinality({i \in DOMAIN s : s[i] = x})
AtMost(a, b) == IF a <= b THEN a ELSE b

-----------------------------------------------------------------------------
(* Preparing.                                                              *)

Refused == [ok |-> FALSE]

(* The placeholder of the k-th image stands for visualCounts[k] tokens;    *)
(* <PAGE> is a token of the v2 vocabulary only.                            *)
Run(model, prompt, visualCounts, i) ==
  CASE prompt[i] = "image" ->
         [kind |-> "image", n |-> visualCounts[Count(SubSeq(prompt, 1, i), "image")]]
    [] prompt[i] = "PAGE" /\ model = "v2" -> [kind |-> "PAGE", n |-> 1]
    [] OTHER -> [kind |-> "text", n |-> TextTokens]

Runs(model, prompt, visualCounts) ==
  <<[kind |-> "BOS", n |-> 1]>>
    \o [i \in 1..Len(prompt) |-> Run(model, prompt, visualCounts, i)]

(* The sum of a sequence of numbers; the tokens of some runs.              *)
Total(s) ==
  LET sum[i \in 0..Len(s)] == IF i = 0 THEN 0 ELSE sum[i - 1] + s[i] IN sum[Len(s)]

TokenCount(runs) == Total([i \in 1..Len(runs) |-> runs[i].n])

MaxNewTokens(maxLength, promptTokens, explicit) ==
  IF explicit # None THEN explicit
  ELSE IF maxLength < promptTokens THEN 0
  ELSE maxLength - promptTokens

(* Views of a page cut in a grid of crops, the global view last. *)
Views(grid) ==
  IF grid = <<1, 1>> THEN <<"global">>
  ELSE [i \in 1..grid[1] * grid[2] |-> "local"] \o <<"global">>

\* mutant: the newline of a row counted across the columns
CropTokensTransposed(grid) ==
  IF grid = <<1, 1>> THEN GlobalTokens
  ELSE (LocalQueries * grid[1]) * (LocalQueries * grid[2] + 1) + GlobalTokens

CropTokens(grid) ==
  IF grid = <<1, 1>> THEN GlobalTokens
  ELSE (LocalQueries * grid[1] + 1) * (LocalQueries * grid[2]) + GlobalTokens

(* dynamic_preprocess takes a grid of 2 to as many crops as the model has. *)
Grids(model) ==
  LET most == IF model = "v2" THEN 16 ELSE 32
  IN  {<<1, 1>>} \cup {g \in (1..most) \X (1..most) : g[1] * g[2] \in 2..most}

Prepared(o, runs, views, grid, mode) ==
  [ok |-> TRUE, runs |-> runs, views |-> views, grid |-> grid, mode |-> mode,
   tokens |-> TokenCount(runs),
   maxNew |-> MaxNewTokens(o.maxLength, TokenCount(runs), o.maxNew)]

PageThenImage(prompt) ==
  Cardinality({i \in 1..Len(prompt) - 1 : prompt[i] = "PAGE" /\ prompt[i + 1] = "image"})

PrepareImage(o) ==
  IF \/ o.model = "v2" /\ (Count(o.prompt, "PAGE") # 1 \/ PageThenImage(o.prompt) = 0)
     \/ Count(o.prompt, "image") # 1
     \/ o.maxNew # None /\ o.maxNew < 0
  THEN Refused
  ELSE LET grid == IF o.preset = "gundam" THEN o.grid ELSE <<1, 1>>
       IN  Prepared(o, Runs(o.model, o.prompt, <<CropTokens(grid)>>),
                    Views(grid), grid, o.preset)

(* One span over all pages, or with v2 one span for each. *)
PagesCounts(o) ==
  IF o.model = "v2" THEN [i \in 1..o.pages |-> GlobalTokens] ELSE <<GlobalTokens * o.pages>>

PreparePages(o) ==
  IF \/ o.pages = 0
     \/ o.model = "v2" /\ ~(Count(o.prompt, "PAGE") = o.pages /\ PageThenImage(o.prompt) = o.pages)
     \/ Count(o.prompt, "image") # Len(PagesCounts(o))
     \/ o.maxNew # None /\ o.maxNew < 0
  THEN Refused
  ELSE Prepared(o, Runs(o.model, o.prompt, PagesCounts(o)),
                [i \in 1..o.pages |-> "global"], <<1, 1>>, "multi-page-base")

PrepareText(o) ==
  IF o.model = "v2" \/ Count(o.prompt, "image") # 0 \/ (o.maxNew # None /\ o.maxNew < 0)
  THEN Refused
  ELSE Prepared(o, Runs(o.model, o.prompt, <<>>), <<>>, <<1, 1>>, "text-only")

(* _cap_max_new_tokens *)
Capped(r, most) ==
  IF most = None THEN r
  ELSE IF most < 0 THEN Refused
  ELSE [r EXCEPT !.maxNew = AtMost(@, most)]

-----------------------------------------------------------------------------
(* The checks of the ctypes layer: _validate_public_view_contract.         *)

AllGlobal(views) == \A i \in DOMAIN views : views[i] = "global"
LocalsThenGlobal(views) ==
  Last(views) = "global" /\ \A i \in 1..Len(views) - 1 : views[i] = "local"

FfiAccepts(r) ==
  CASE r.mode = "text-only" -> r.views = <<>>
    [] r.mode = "base" -> r.grid = <<1, 1>> /\ r.views = <<"global">>
    [] r.mode = "multi-page-base" ->
         r.grid = <<1, 1>> /\ r.views # <<>> /\ AllGlobal(r.views)
    [] r.mode = "gundam" ->
         LET locals == r.grid[1] * r.grid[2]
         IN  IF locals = 1 THEN r.views = <<"global">>
             ELSE Len(r.views) = locals + 1 /\ LocalsThenGlobal(r.views)

-----------------------------------------------------------------------------
(* The checks of the native library.                                       *)

ImageRuns(r) == {i \in DOMAIN r.runs : r.runs[i].kind = "image" /\ r.runs[i].n > 0}
Placeholders(r) ==
  Total([i \in 1..Len(r.runs) |-> IF r.runs[i].kind = "image" THEN r.runs[i].n ELSE 0])

(* validate_kv_and_position_budget *)
FitsPositions(r, limits) ==
  r.tokens <= limits.positions /\ r.maxNew <= limits.positions - r.tokens

FitsCache(r, limits) ==
  limits.prompt # 0 /\ limits.ring # 0 =>
    r.tokens + AtMost(r.maxNew, limits.ring) <= limits.prompt + limits.ring

(* expected_visual_tokens; None where it fails. *)
ExpectedVisual(r) ==
  LET locals == Count(r.views, "local")
      globals == Count(r.views, "global")
      crops == r.grid[1] * r.grid[2]
  IN  IF locals = 0
      THEN IF r.grid \in (0..1) \X (0..1) THEN globals * GlobalTokens ELSE None
      ELSE IF globals = 1 /\ crops > 1 /\ crops = locals /\ LocalsThenGlobal(r.views)
      THEN (LocalQueries * r.grid[1] + 1) * (LocalQueries * r.grid[2]) + GlobalTokens
      ELSE None

(* uocr_validate_v2_page_request *)
V2PagesAccepted(r) ==
  LET locals == Count(r.views, "local")
      globals == Count(r.views, "global")
      pages == {i \in DOMAIN r.runs : r.runs[i].kind = "PAGE"}
  IN  /\ globals > 0 /\ locals <= 16 /\ (locals > 0 => globals = 1)
      /\ \A i \in pages : i + 1 \in ImageRuns(r)
      /\ \A i \in ImageRuns(r) :
           i - 1 \in pages /\ (locals = 0 => r.runs[i].n = GlobalTokens)
      /\ Cardinality(pages) = globals

(* uocr_validate_prepared_request, then the layout of v2.  The limits are  *)
(* those of the engine; separated spans are for v2.                        *)
NativeAccepts(r, limits) ==
  /\ r.tokens > 0 /\ r.runs[1].kind = "BOS"
  /\ limits.prompt > 0 => r.tokens <= limits.prompt
  /\ limits.gen > 0 => r.maxNew <= limits.gen
  /\ FitsPositions(r, limits) /\ FitsCache(r, limits)
  /\ ~limits.separated => Cardinality(ImageRuns(r)) <= 1
  /\ Placeholders(r) = ExpectedVisual(r)
  /\ Placeholders(r) = 0 => r.views = <<>>
  /\ limits.separated => V2PagesAccepted(r)

Limits(model, prompt, gen) ==
  [prompt |-> prompt, gen |-> gen, positions |-> Positions(model),
   ring |-> RingWindow(model), separated |-> model = "v2"]

(* An engine opened for one request (ocr.py: generate_prepared); 0 new     *)
(* tokens ask for the default (uocr_engine_open).                          *)
OwnedLimits(model, r) ==
  Limits(model, r.tokens, IF r.maxNew = 0 THEN DefaultGenTokens ELSE r.maxNew)
=============================================================================
