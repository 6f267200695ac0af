--------------------------- MODULE GoldenFixtures ---------------------------
(***************************************************************************)
(* The fixture directories of the parity tests: what the dump functions of *)
(* src/unlimitedocr_c/golden.py write, in which order, and what the load   *)
(* functions take back (and src/unlimitedocr_c/parity.py, which reads the  *)
(* inputs and the expectations of a Metal run from one directory).         *)
(*                                                                         *)
(* A dump is the sequence of its steps, built from the dumps it calls.     *)
(* A directory is used again by later dumps; a dump may fail at any step,  *)
(* and a crash may leave the file being written short.  Contents are       *)
(* abstract: the dumps whose data a file was computed from, and its rows.  *)
(***************************************************************************)
EXTENDS Integers, Sequences

CONSTANTS
  Requests,     \* tokens, image placeholders, whether these are contiguous,
                \* rows of the visual features given, expected output or not
  LayerCount,   \* TEXT_DECODER_LAYER_COUNT
  TopK,         \* top_k of the logits
  MaxDumps      \* bound: dumps into the directory

ASSUME GoldenAssumption ==
  /\ LayerCount \in Nat \ {0} /\ TopK \in Nat \ {0} /\ MaxDumps \in Nat
  /\ \A r \in Requests :
       r.tokens \in Nat \ {0} /\ r.images \in 0..r.tokens /\ r.visual \in Nat

VARIABLES
  disk,       \* the files there are: [of: dumps the data is from, rows, span]
  manifest,   \* manifest.json
  job,        \* the dump that is running, or the last one
  dumps       \* dumps started

vars == <<disk, manifest, job, dumps>>

(* Files and manifest keys, by part and layer. *)
Ids == <<"input_ids", 0>>
Mask == <<"image_mask", 0>>
Embeddings == <<"prompt_embeddings", 0>>
Visual == <<"visual_features", 0>>
Hidden(layer) == <<"hidden", layer>>
Router(layer) == {<<"router_ids", layer>>, <<"router_weights", layer>>}
Logits == {<<"logits_ids", 0>>, <<"logits_scores", 0>>}
Generated == <<"generated_ids", 0>>
GeneratedText == <<"generated_text", 0>>
HiddenOf(n) == {Hidden(layer) : layer \in 0..n - 1}
RoutersOf(n) == UNION {Router(layer) : layer \in 1..n - 1}

Kinds == {"text_prompt", "text_layer0", "text_layer1", "text_layers", "text_logits",
          "text_generated", "image_prompt", "image_layers", "image_logits", "image_generated"}

(* _contiguous_image_span: 0 where it raises. *)
Span(r) == IF r.images > 0 /\ r.joined THEN r.images ELSE 0

-----------------------------------------------------------------------------
(* Loading.  A load reads the manifest and files at one moment.            *)

Readable == manifest.is = "whole"
Named(f) == f \in DOMAIN manifest.named
Sources(files) == UNION {disk[f].of : f \in files}

(* A tensor file has as many rows as expected, and so says its metadata;   *)
(* without metadata the file of the default name is taken.                 *)
Has(f, rows) ==
  /\ Named(f) => manifest.named[f] = rows
  /\ f \in DOMAIN disk /\ disk[f].rows = rows

(* A tensor whose metadata must be there. *)
HasNamed(f) == Named(f) /\ manifest.named[f] > 0 /\ Has(f, manifest.named[f])

Tokens == disk[Ids].rows

LoadsPrompt ==
  /\ Readable /\ {Ids, Mask, Embeddings} \subseteq DOMAIN disk
  /\ Tokens > 0 /\ Has(Embeddings, Tokens) /\ disk[Mask].rows = Tokens

LoadsImagePrompt ==
  LoadsPrompt /\ disk[Mask].span > 0 /\ Has(Visual, disk[Mask].span)

(* load_visual_features_dump without row_count: as many rows as the        *)
(* metadata says, else as many as the request has placeholders.            *)
LoadsVisual ==
  /\ Readable
  /\ LET rows == IF Named(Visual) THEN manifest.named[Visual] ELSE manifest.images
     IN  rows > 0 /\ Has(Visual, rows)

Count(of) == IF of \in DOMAIN manifest.layers THEN manifest.layers[of] ELSE LayerCount

LoadsHidden(n) == \A f \in HiddenOf(n) : Has(f, Tokens)

(* Router files only of the layers that the manifest has. *)
Routed(n) == {f \in RoutersOf(n) : Named(f)}

LoadsImageLayers ==
  /\ LoadsImagePrompt /\ Count("image") \in 1..LayerCount
  /\ LoadsHidden(Count("image"))
  /\ \A f \in Routed(Count("image")) : Has(f, Tokens)

LoadsTextLayer0 == LoadsPrompt /\ LoadsHidden(1)
LoadsTextLayer1 == LoadsTextLayer0 /\ Has(Hidden(1), Tokens)

LoadsTextLayers ==
  LoadsPrompt /\ Count("text") \in 1..LayerCount /\ LoadsHidden(Count("text"))

LoadsLogits == \A f \in Logits : HasNamed(f)
LoadsGeneratedIds == HasNamed(Generated)
LoadsGeneratedText == GeneratedText \in DOMAIN disk

Loads(kind) ==
  CASE kind = "text_prompt" -> LoadsPrompt
    [] kind = "text_layer0" -> LoadsTextLayer0
    [] kind = "text_layer1" -> LoadsTextLayer1
    [] kind = "text_layers" -> LoadsTextLayers
    [] kind = "text_logits" -> LoadsTextLayers /\ LoadsLogits
    [] kind = "text_generated" -> LoadsTextLayers /\ LoadsLogits /\ LoadsGeneratedIds
    [] kind = "image_prompt" -> LoadsImagePrompt
    [] kind = "image_layers" -> LoadsImageLayers
    [] kind = "image_logits" -> LoadsImageLayers /\ LoadsLogits
    [] kind = "image_generated" ->
         LoadsImageLayers /\ LoadsLogits /\ LoadsGeneratedIds /\ LoadsGeneratedText

(* The files of the dump a load returns. *)
PromptParts == {Ids, Mask, Embeddings}
ImageParts == PromptParts \cup {Visual}
ImageLayerParts == ImageParts \cup HiddenOf(Count("image")) \cup Routed(Count("image"))
TextLayerParts == PromptParts \cup HiddenOf(Count("text"))

Parts(kind) ==
  CASE kind = "text_prompt" -> PromptParts
    [] kind = "text_layer0" -> PromptParts \cup HiddenOf(1)
    [] kind = "text_layer1" -> PromptParts \cup HiddenOf(2)
    [] kind = "text_layers" -> TextLayerParts
    [] kind = "text_logits" -> TextLayerParts \cup Logits
    [] kind = "text_generated" -> TextLayerParts \cup Logits \cup {Generated}
    [] kind = "image_prompt" -> ImageParts
    [] kind = "image_layers" -> ImageLayerParts
    [] kind = "image_logits" -> ImageLayerParts \cup Logits
    [] kind = "image_generated" -> ImageLayerParts \cup Logits \cup {Generated, GeneratedText}

-----------------------------------------------------------------------------
(* The steps of a dump.                                                    *)

Write(f, unit) == [op |-> "write", file |-> f, unit |-> unit]
Check(holds) == [op |-> "check", holds |-> holds]
Reload(kind) == [op |-> "reload", kind |-> kind]
Save == [op |-> "save"]
(* The manifest is read back, given metadata of these files, rewritten. *)
Commit(files, layers) == [op |-> "commit", files |-> files, layers |-> layers]
NoLayers == [of \in {} |-> 0]
LayersOf(of, n) == [part \in {of} |-> n]

(* save_prepared_request *)
Saved(r) ==
  (IF r.expected THEN <<Write(<<"expected_output", 0>>, "one")>> ELSE <<>>)
    \o <<Save, Write(<<"prepared_request", 0>>, "tokens")>>

TextPrompt(r) ==
  <<Check(r.images = 0)>> \o Saved(r)
    \o <<Write(Ids, "tokens"), Write(Mask, "tokens"), Write(Embeddings, "tokens"),
         Commit(PromptParts, NoLayers)>>

(* The span and the features given are validated after the request is saved. *)
ImagePrompt(r) ==
  Saved(r)
    \o <<Check(Span(r) > 0), Check(r.visual = Span(r)),
         Write(Ids, "tokens"), Write(Mask, "tokens"), Write(Visual, "span"),
         Write(Embeddings, "tokens"), Commit(ImageParts, NoLayers)>>

TextLayer0(r) ==
  TextPrompt(r)
    \o <<Reload("text_prompt"), Write(Hidden(0), "tokens"), Commit(HiddenOf(1), NoLayers)>>

TextLayer1(r) ==
  TextLayer0(r)
    \o <<Reload("text_layer0"), Write(Hidden(1), "tokens"), Commit({Hidden(1)}, NoLayers)>>

HiddenWrites(n) == [k \in 1..n |-> Write(Hidden(k - 1), "tokens")]

TextLayers(r, n) ==
  TextPrompt(r)
    \o <<Reload("text_prompt"), Check(n \in 1..LayerCount)>>
    \o HiddenWrites(n) \o <<Commit(HiddenOf(n), LayersOf("text", n))>>

(* The layer count is validated after the prompt is dumped; router files   *)
(* are written as the layers are computed, hidden states after them all.   *)
RouterWrites(n) ==
  [k \in 1..2 * (n - 1) |->
     Write(<<IF k % 2 = 1 THEN "router_ids" ELSE "router_weights", (k + 1) \div 2>>, "tokens")]

\* mutant: the number of layers is not recorded
ImageLayersUncounted(r, n) ==
  ImagePrompt(r)
    \o <<Check(n \in 1..LayerCount), Reload("image_prompt")>>
    \o RouterWrites(n) \o HiddenWrites(n)
    \o <<Commit(HiddenOf(n) \cup RoutersOf(n), NoLayers)>>

ImageLayers(r, n) ==
  ImagePrompt(r)
    \o <<Check(n \in 1..LayerCount), Reload("image_prompt")>>
    \o RouterWrites(n) \o HiddenWrites(n)
    \o <<Commit(HiddenOf(n) \cup RoutersOf(n), LayersOf("image", n))>>

LogitsWrites ==
  <<Write(<<"logits_ids", 0>>, "topk"), Write(<<"logits_scores", 0>>, "topk"),
    Commit(Logits, NoLayers)>>

TextLogits(r) == TextLayers(r, LayerCount) \o <<Reload("text_layers")>> \o LogitsWrites
ImageLogits(r) == ImageLayers(r, LayerCount) \o <<Reload("image_layers")>> \o LogitsWrites

TextGenerated(r) ==
  TextLogits(r)
    \o <<Reload("text_logits"), Write(Generated, "one"), Commit({Generated}, NoLayers)>>

ImageGenerated(r) ==
  ImageLogits(r)
    \o <<Reload("image_logits"), Write(Generated, "one"), Write(GeneratedText, "one"),
         Commit({Generated, GeneratedText}, NoLayers)>>

Steps(kind, r, n) ==
  CASE kind = "text_prompt" -> TextPrompt(r)
    [] kind = "text_layer0" -> TextLayer0(r)
    [] kind = "text_layer1" -> TextLayer1(r)
    [] kind = "text_layers" -> TextLayers(r, n)
    [] kind = "text_logits" -> TextLogits(r)
    [] kind = "text_generated" -> TextGenerated(r)
    [] kind = "image_prompt" -> ImagePrompt(r)
    [] kind = "image_layers" -> ImageLayers(r, n)
    [] kind = "image_logits" -> ImageLogits(r)
    [] kind = "image_generated" -> ImageGenerated(r)

-----------------------------------------------------------------------------
(* A dump into the directory.                                              *)

NoFile == <<>>

(* A mapping with the entries of another one set in it. *)
Updated(old, new) ==
  [x \in DOMAIN old \cup DOMAIN new |-> IF x \in DOMAIN new THEN new[x] ELSE old[x]]

Init ==
  /\ disk = NoFile
  /\ manifest = [is |-> "absent"]
  /\ job = [phase |-> "none"]
  /\ dumps = 0

(* n is the layer_count argument of the kinds that have one. *)
Start ==
  /\ job.phase # "running" /\ dumps < MaxDumps
  /\ \E kind \in Kinds, r \in Requests, n \in 1..LayerCount + 1 :
       /\ kind \notin {"text_layers", "image_layers"} => n = LayerCount
       /\ job' = [phase |-> "running", kind |-> kind, req |-> r, n |-> n,
                  at |-> 1, of |-> {dumps + 1}, tokens |-> r.tokens]
  /\ dumps' = dumps + 1
  /\ UNCHANGED <<disk, manifest>>

Running == job.phase = "running"
Todo == Steps(job.kind, job.req, job.n)
At(op) == Running /\ job.at <= Len(Todo) /\ Todo[job.at].op = op
Step == Todo[job.at]
Done(j) == [j EXCEPT !.at = @ + 1]

RowsOf(unit) ==
  CASE unit = "tokens" -> job.tokens
    [] unit = "span" -> Span(job.req)
    [] unit = "topk" -> TopK
    [] unit = "one" -> 1

Content(f, rows) ==
  [of |-> job.of, rows |-> rows, span |-> IF f = Mask THEN Span(job.req) ELSE 0]
Put(f, rows) == Updated(disk, [x \in {f} |-> Content(f, rows)])

WriteFile ==
  /\ At("write")
  /\ disk' = Put(Step.file, RowsOf(Step.unit))
  /\ job' = Done(job)
  /\ UNCHANGED <<manifest, dumps>>

\* mutant: the manifest of an earlier dump is updated
FreshMerged ==
  [is |-> "whole", by |-> dumps, images |-> job.req.images,
   named |-> IF Readable THEN manifest.named ELSE NoFile, layers |-> NoLayers]

(* A manifest of the request alone: no key of an earlier dump stays. *)
Fresh ==
  [is |-> "whole", by |-> dumps, images |-> job.req.images,
   named |-> NoFile, layers |-> NoLayers]

SaveManifest ==
  /\ At("save")
  /\ manifest' = Fresh
  /\ job' = Done(job)
  /\ UNCHANGED <<disk, dumps>>

CommitManifest ==
  /\ At("commit")
  /\ manifest' = [manifest EXCEPT !.named = Updated(@, [f \in Step.files |-> disk[f].rows]),
                                  !.layers = Updated(@, Step.layers)]
  /\ job' = Done(job)
  /\ UNCHANGED <<disk, dumps>>

Passes ==
  /\ At("check") /\ Step.holds
  /\ job' = Done(job)
  /\ UNCHANGED <<disk, manifest, dumps>>

(* What is written next is computed from what the load returns. *)
ReloadParts ==
  /\ At("reload") /\ Loads(Step.kind)
  /\ job' = [Done(job) EXCEPT !.of = Sources(Parts(Step.kind)), !.tokens = Tokens]
  /\ UNCHANGED <<disk, manifest, dumps>>

Finish ==
  /\ Running /\ job.at > Len(Todo)
  /\ job' = [job EXCEPT !.phase = "done"]
  /\ UNCHANGED <<disk, manifest, dumps>>

(* An exception, raised by a check, a load or a computation. *)
Fail ==
  /\ Running /\ job.at <= Len(Todo)
  /\ job' = [phase |-> "none"]
  /\ UNCHANGED <<disk, manifest, dumps>>

(* A crash in the middle of a write leaves a part of the file. *)
Crash ==
  /\ job' = [phase |-> "none"]
  /\ UNCHANGED dumps
  /\ \/ /\ At("write")
        /\ \E rows \in {0, RowsOf(Step.unit) - 1} :
             disk' = Put(Step.file, rows)
        /\ UNCHANGED manifest
     \/ /\ At("save") \/ At("commit")
        /\ manifest' = [is |-> "torn"]
        /\ UNCHANGED disk

Next ==
  \/ Start \/ WriteFile \/ SaveManifest \/ CommitManifest \/ Passes \/ ReloadParts
  \/ Finish \/ Fail \/ Crash

Spec == Init /\ [][Next]_vars

-----------------------------------------------------------------------------
(* Properties.                                                             *)

(* The expectations of a parity run: load_dumped_image_embedding_expected_ids. *)
LoadsExpectedIds == Readable /\ LoadsGeneratedIds

(* What a parity test compares comes from one dump.  Whatever failed,      *)
(* crashed or was dumped before into the same directory, a load that       *)
(* gives logits or generated ids gives them with the prompt and the layers *)
(* they were computed from, and so does a Metal run over dumped image      *)
(* embeddings that takes its length from the expected ids: the manifest    *)
(* names an expectation only when everything before it is on disk          *)
(* (golden.py: dump_*_logits_topk_fixture, dump_*_generated_ids_fixture;   *)
(* parity.py: generate_from_dumped_image_embeddings).                      *)
ExpectationsOfOneDump ==
  /\ \A kind \in {"text_logits", "text_generated", "image_logits", "image_generated"} :
       Loads(kind) => Sources(Parts(kind)) = {manifest.by}
  /\ LoadsImagePrompt /\ LoadsExpectedIds =>
       Sources(ImageParts \cup {Generated}) = {manifest.by}

(* The loads that a finished dump of a kind is meant for. *)
ReadBack(kind, n) ==
  CASE kind = "text_prompt" -> {"text_prompt"}
    [] kind = "text_layer0" -> {"text_prompt", "text_layer0"}
    [] kind = "text_layer1" -> {"text_prompt", "text_layer0", "text_layer1"}
    [] kind = "text_layers" ->
         {"text_prompt", "text_layer0", "text_layers"}
           \cup (IF n > 1 THEN {"text_layer1"} ELSE {})
    [] kind = "text_logits" -> {"text_prompt", "text_layers", "text_logits"}
    [] kind = "text_generated" -> {"text_prompt", "text_layers", "text_logits", "text_generated"}
    [] kind = "image_prompt" -> {"text_prompt", "image_prompt"}
    [] kind = "image_layers" -> {"image_prompt", "image_layers"}
    [] kind = "image_logits" -> {"image_prompt", "image_layers", "image_logits"}
    [] kind = "image_generated" ->
         {"image_prompt", "image_layers", "image_logits", "image_generated"}

(* A dump that returned can be loaded, each of its prefixes too, and what  *)
(* is loaded is that dump's and nothing older: also after a longer dump, a *)
(* dump of another prompt or a broken one left its files in the directory  *)
(* (golden.py: dump_*_fixture against load_*_dump).                        *)
FinishedDumpReloads ==
  job.phase = "done" =>
    /\ \A kind \in ReadBack(job.kind, job.n) :
         Loads(kind) /\ Sources(Parts(kind)) = {dumps}
    /\ job.req.images > 0 => LoadsVisual /\ Sources({Visual}) = {dumps}
=============================================================================
