--------------------------- MODULE RequestMemory ---------------------------
(***************************************************************************)
(* The memory one native engine holds while it serves requests: the        *)
(* buffers, the order in which a request takes and frees them, every       *)
(* failure on the way, and the byte tracker that is to agree with them     *)
(* (core/uocr_api.c, backend/metal/uocr_metal.m, uocr_metal_document.inc). *)
(*                                                                         *)
(* An engine runs one call at a time.  A v1 engine keeps its arenas and    *)
(* its decoder scratch between requests and grows them; a v2 engine frees  *)
(* everything but an open document.  What a window computes, and which     *)
(* windows a document accepts, is in DocumentSession and NativeContract;   *)
(* here a window only has a size.                                          *)
(***************************************************************************)
EXTENDS MemoryEstimate

CONSTANTS
  V2,          \* the mapped model's architecture
  ModelBytes,  \* its mapped tensor data
  Budget,      \* memory_budget_bytes, 0 when there is none
  Requests,    \* valid requests: kind, views, tokens (prompt), new (tokens)
  TailRows,    \* lengths of the prefix a lookahead window may retain
  TextRows     \* lengths of the text it may retain with it

Kinds == IF V2 THEN {"page", "window"} ELSE {"text", "image"}

\* A v2 prompt marks every page it shows.  A retained prefix is a marker, at
\* least 128 rows up to a block's end, and the lookahead page.
ASSUME MemoryConstants ==
  /\ V2 \in BOOLEAN
  /\ ModelBytes \in Nat
  /\ ModelBytes <= MaxBytes
  /\ Budget \in Nat
  /\ Budget # 0 => ModelBytes <= Budget
  /\ Requests \subseteq [kind : Kinds, views : Nat, tokens : Nat \ {0}, new : Nat \ {0}]
  /\ \A r \in Requests : /\ (r.kind = "text") <=> (r.views = 0)
                         /\ V2 => r.tokens >= 1 + PageTokens * r.views
  /\ TailRows \subseteq (1 + 128 + PageTokens)..(1 + 128 + 31 + PageTokens)
  /\ TextRows \subseteq 0..128

Buffers == {"model", "document", "output", "metadata", "vision", "final",
            "dash", "arenas", "transient", "selection", "logits"}

Scratch   == {"vision", "final", "transient", "selection", "logits"}
V2Request == {"dash", "arenas"} \cup Scratch
Prepared  == {"dash", "arenas", "transient", "selection", "logits"}

Stages == {"idle", "output", "enter", "metadata", "vision", "final", "encode",
           "vision_failed", "dash", "arenas", "transient", "prefill", "selection",
           "logits", "book", "prepare_failed", "decode", "unwind", "result"}

VARIABLES
  stage,        \* where the call is
  request,      \* the request it serves, with the window's lookahead
  estimate,     \* what admission expected of it, without the margin
  ok,           \* the status the native generation returns
  tracker,      \* engine->memory_tracker
  booked,       \* the bytes each buffer is booked with
  arenaTokens,  \* prompt capacity of the allocated arenas, 0 when there are none
  document      \* the native document: open, finished, prefix and text rows

callVars   == <<stage, request, estimate, ok>>
memoryVars == <<tracker, booked, arenaTokens>>
vars       == <<callVars, memoryVars, document>>

NoRequest  == [kind |-> "none", views |-> 0, tokens |-> 0, new |-> 0, lookahead |-> 0]
NoDocument == [open |-> FALSE, finished |-> FALSE, prefix |-> 0, text |-> 0]

Held(b) == booked[b] # Nothing

\* The amounts that the buffers of B are booked with, category by category.
Share(B, b, c) == IF b \in B THEN booked[b][c] ELSE 0

BookedBy(B) ==
  [c \in Categories |->
     Share(B, "model", c) + Share(B, "document", c) + Share(B, "output", c)
     + Share(B, "metadata", c) + Share(B, "vision", c) + Share(B, "final", c)
     + Share(B, "dash", c) + Share(B, "arenas", c) + Share(B, "transient", c)
     + Share(B, "selection", c) + Share(B, "logits", c)]

-----------------------------------------------------------------------------
(* The size of the request being served.                                   *)

Reuses   == request.kind = "window" /\ document.prefix # 0
Fresh    == IF Reuses THEN request.views - 1 ELSE request.views
Prompt   == IF Reuses THEN document.prefix + (request.views - 1) * PageTokens
                      ELSE request.tokens
Copied   == IF Reuses THEN document.prefix - (IF Fresh = 0 THEN 1 ELSE 0) ELSE 0
Queries  == Prompt - Copied
Retained == Prompt + (IF Reuses THEN document.text ELSE 0) + request.new
Pages    == request.views + (IF Reuses THEN 2 ELSE 1)

-----------------------------------------------------------------------------
(* Taking and freeing buffers.                                             *)

\* A buffer that is not held is allocated and booked.
Book(b, f) ==
  /\ Fits(tracker, f)
  /\ tracker' = Reserve(tracker, f)
  /\ booked'  = [booked EXCEPT ![b] = f]

Free(B) ==
  /\ tracker' = Release(tracker, BookedBy(B))
  /\ booked'  = [b \in Buffers |-> IF b \in B THEN Nothing ELSE booked[b]]

\* ensure_scratch: a large enough buffer is kept; otherwise the new one is
\* allocated and booked before the old one goes.
Ensure(b, c, least, bytes) ==
  \/ /\ least <= booked[b][c]
     /\ UNCHANGED <<tracker, booked>>
  \/ /\ least > booked[b][c]
     /\ Fits(tracker, Only(c, bytes))
     /\ tracker' = Release(Reserve(tracker, Only(c, bytes)), booked[b])
     /\ booked'  = [booked EXCEPT ![b] = Only(c, bytes)]

At(s)   == stage = s
Goto(s) == stage' = s /\ UNCHANGED <<request, estimate, ok>>

-----------------------------------------------------------------------------
(* Admission.                                                              *)

Subtotal(r) ==
  IF V2 THEN V2Subtotal(ModelBytes, r, document.open) ELSE V1Subtotal(ModelBytes, r)

Admitted(r) == Budget = 0 \/ Estimate(Subtotal(r)) <= Budget

Start(r, lookahead) ==
  /\ Admitted(r)
  /\ stage' = IF r.kind = "text" THEN "arenas" ELSE "output"
  /\ request' = [kind |-> r.kind, views |-> r.views, tokens |-> r.tokens,
                 new |-> r.new, lookahead |-> lookahead]
  /\ estimate' = Subtotal(r)
  /\ ok' = FALSE
  /\ UNCHANGED document

\* A refused request leaves the engine as it was.
StartText(r) ==
  /\ At("idle") /\ r.kind = "text"
  /\ Start(r, 0)
  /\ UNCHANGED memoryVars

StartImageOnArenas(r) ==
  /\ At("idle") /\ r.kind \in {"image", "page"} /\ ~document.open
  /\ Start(r, 0)
  /\ UNCHANGED memoryVars

\* The arenas and their booking go before vision starts.
StartImage(r) ==
  /\ At("idle") /\ r.kind \in {"image", "page"} /\ ~document.open
  /\ Start(r, 0)
  /\ Free({"arenas"})
  /\ arenaTokens' = 0

StartWindow(r) ==
  /\ At("idle") /\ r.kind = "window" /\ document.open /\ ~document.finished
  /\ \E lookahead \in {0, 1} : lookahead < r.views /\ Start(r, lookahead)
  /\ Free({"arenas"})
  /\ arenaTokens' = 0

-----------------------------------------------------------------------------
(* A v1 engine's arenas: kept when large enough, otherwise replaced.  The  *)
(* booking goes first and the new one is made last.                        *)

AfterArenas == IF request.kind = "text" THEN "output" ELSE "transient"

KeepArenas ==
  /\ At("arenas") /\ ~V2
  /\ arenaTokens >= request.tokens
  /\ Goto(AfterArenas)
  /\ UNCHANGED <<memoryVars, document>>

GrowArenas ==
  /\ At("arenas") /\ ~V2
  /\ arenaTokens < request.tokens
  /\ LET cleared == Release(tracker, booked["arenas"])
         arenas  == V1Arenas(request.tokens)
     IN  /\ Fits(cleared, arenas)
         /\ tracker' = Reserve(cleared, arenas)
         /\ booked'  = [booked EXCEPT !["arenas"] = arenas]
  /\ arenaTokens' = request.tokens
  /\ Goto(AfterArenas)
  /\ UNCHANGED document

\* The allocation or the new booking fails: neither arenas nor booking remain.
\* After vision, the callback's caller drops the visual rows.
ArenasFail ==
  /\ At("arenas") /\ ~V2
  /\ arenaTokens < request.tokens
  /\ Free({"arenas", "final"})
  /\ arenaTokens' = 0
  /\ IF request.kind = "text"
     THEN stage' = "idle" /\ request' = NoRequest /\ UNCHANGED <<estimate, ok>>
     ELSE Goto("unwind")
  /\ UNCHANGED document

-----------------------------------------------------------------------------
(* The token output, and a window's metadata.                              *)

BookOutput ==
  /\ At("output")
  /\ Book("output", Only("transient", Output(request.new)))
  /\ Goto(IF request.kind = "text" THEN "transient" ELSE "enter")
  /\ UNCHANGED <<arenaTokens, document>>

OutputFails ==
  /\ At("output")
  /\ Goto("result")
  /\ UNCHANGED <<memoryVars, document>>

\* The entry of native image generation; v1 has nothing of a v2 request.
EnterImage ==
  /\ At("enter")
  /\ Free(IF V2 THEN V2Request ELSE {})
  /\ arenaTokens' = IF V2 THEN 0 ELSE arenaTokens
  /\ Goto(IF request.kind = "window" THEN "metadata" ELSE "vision")
  /\ UNCHANGED document

BookMetadata ==
  /\ At("metadata")
  /\ Book("metadata", Only("transient", Metadata(Prompt + 1 + Fresh * PageTokens)))
  /\ Goto(IF Fresh = 0 THEN "dash" ELSE "vision")
  /\ UNCHANGED <<arenaTokens, document>>

MetadataFails ==
  /\ At("metadata")
  /\ Goto("unwind")
  /\ UNCHANGED <<memoryVars, document>>

-----------------------------------------------------------------------------
(* Vision.                                                                 *)

EnsureVision ==
  /\ At("vision")
  /\ Ensure("vision", "vision_gpu", VisionWorkspace(Fresh), VisionWorkspace(Fresh))
  /\ Goto("final")
  /\ UNCHANGED <<arenaTokens, document>>

EnsureFinal ==
  /\ At("final")
  /\ Ensure("final", "vision_final", VisionFinal(Fresh), VisionFinal(Fresh))
  /\ Goto("encode")
  /\ UNCHANGED <<arenaTokens, document>>

\* The encoded rows stay, the workspace goes before the decoder is sized.
EncodeVision ==
  /\ At("encode")
  /\ Free({"vision"})
  /\ Goto(IF V2 THEN "dash" ELSE "arenas")
  /\ UNCHANGED <<arenaTokens, document>>

VisionStepFails ==
  /\ stage \in {"vision", "final", "encode"}
  /\ Goto("vision_failed")
  /\ UNCHANGED <<memoryVars, document>>

DropVision ==
  /\ At("vision_failed")
  /\ Free({"vision", "final"})
  /\ Goto("unwind")
  /\ UNCHANGED <<arenaTokens, document>>

-----------------------------------------------------------------------------
(* Preparing the v2 decoder.  The arenas are allocated in the middle and   *)
(* booked at the end.                                                      *)

AllocateDash ==
  /\ At("dash") /\ ~Held("dash") /\ arenaTokens = 0
  /\ LET stale   == {"transient", "selection", "logits"}
         cleared == Release(tracker, BookedBy(stale))
         dash    == DashCache(Retained, Queries, Pages)
     IN  /\ Fits(cleared, dash)
         /\ tracker' = Reserve(cleared, dash)
         /\ booked'  = [b \in Buffers |-> IF b = "dash" THEN dash
                                          ELSE IF b \in stale THEN Nothing ELSE booked[b]]
  /\ Goto("arenas")
  /\ UNCHANGED <<arenaTokens, document>>

AllocateArenas ==
  /\ At("arenas") /\ V2
  /\ arenaTokens' = Queries
  /\ Goto("transient")
  /\ UNCHANGED <<tracker, booked, document>>

BookArenas ==
  /\ At("book")
  /\ Book("arenas", V2Arenas(arenaTokens))
  /\ Goto("decode")
  /\ UNCHANGED <<arenaTokens, document>>

PrepareStepFails ==
  /\ V2
  /\ stage \in {"dash", "arenas", "transient", "selection", "logits", "book"}
  /\ Goto("prepare_failed")
  /\ UNCHANGED <<memoryVars, document>>

DropPrepared ==
  /\ At("prepare_failed")
  /\ Free(Prepared)
  /\ arenaTokens' = 0
  /\ Goto("unwind")
  /\ UNCHANGED document

-----------------------------------------------------------------------------
(* The decoder.  v1 takes its scratch as it goes, v2 before it starts.     *)

EnsureTransient ==
  /\ At("transient")
  /\ LET least == PrefillScratch(IF V2 THEN Queries ELSE request.tokens)
     IN  Ensure("transient", "transient", least,
                Capacity(booked["transient"]["transient"], least))
  /\ Goto(IF V2 THEN "selection" ELSE "prefill")
  /\ UNCHANGED <<arenaTokens, document>>

\* Prefill consumes the visual rows.
Prefill ==
  /\ At("prefill")
  /\ Free({"final"})
  /\ Goto("selection")
  /\ UNCHANGED <<arenaTokens, document>>

EnsureSelection ==
  /\ At("selection")
  /\ Ensure("selection", "decoder", SelectionScratch, SelectionScratch)
  /\ Goto("logits")
  /\ UNCHANGED <<arenaTokens, document>>

EnsureLogits ==
  /\ At("logits")
  /\ Ensure("logits", "decoder", LogitsScratch, LogitsScratch)
  /\ Goto(IF V2 THEN "book" ELSE "decode")
  /\ UNCHANGED <<arenaTokens, document>>

\* Tokens are decoded to a stop.  A completed window with a lookahead retains
\* its tail, one without finishes the document.
Decode ==
  /\ At("decode")
  /\ stage' = "unwind" /\ ok' = TRUE
  /\ IF request.kind # "window" THEN UNCHANGED document
     ELSE IF request.lookahead = 0 THEN document' = [document EXCEPT !.finished = TRUE]
     ELSE \E rows \in TailRows, kept \in TextRows :
            document' = [document EXCEPT !.prefix = rows, !.text = kept]
  /\ UNCHANGED <<request, estimate, memoryVars>>

DecoderStepFails ==
  /\ IF V2 THEN At("decode") ELSE stage \in {"transient", "prefill", "selection", "logits", "decode"}
  /\ Goto("unwind")
  /\ UNCHANGED <<memoryVars, document>>

-----------------------------------------------------------------------------
(* Unwinding, on every path.                                               *)

UnwoundV2Keeps ==
  CASE request.kind = "text"  -> {}
    [] request.kind = "image" -> {"vision", "final"}
    [] OTHER                  -> {"vision", "final", "transient", "selection", "logits", "metadata"}

Unwound ==
  CASE request.kind = "text"  -> {}
    [] request.kind = "image" -> {"vision", "final"}
    [] OTHER                  -> V2Request \cup {"metadata"}

Unwind ==
  /\ At("unwind")
  /\ Free(Unwound)
  /\ arenaTokens' = IF V2 THEN 0 ELSE arenaTokens
  /\ Goto("result")
  /\ UNCHANGED document

\* The output is freed whatever happened; the result itself is not tracked.  A
\* window that failed anywhere, the result's allocation included, ends the
\* document.
Return ==
  /\ At("result")
  /\ \E delivered \in BOOLEAN :
       /\ delivered => ok
       /\ IF request.kind = "window" /\ ~delivered
          THEN /\ Free(V2Request \cup {"output", "document"})
               /\ document' = NoDocument
          ELSE /\ Free({"output"})
               /\ UNCHANGED document
  /\ stage' = "idle" /\ request' = NoRequest /\ ok' = FALSE
  /\ UNCHANGED <<estimate, arenaTokens>>

-----------------------------------------------------------------------------
(* Documents.                                                              *)

DocumentBegin ==
  /\ At("idle") /\ V2 /\ ~document.open
  /\ Budget # 0 => tracker.total + DocumentBytes <= Budget
  /\ LET cleared == Release(tracker, BookedBy(V2Request))
         retained == Only("kv_cache", DocumentBytes)
     IN  /\ Fits(cleared, retained)
         /\ tracker' = Reserve(cleared, retained)
         /\ booked'  = [b \in Buffers |-> IF b = "document" THEN retained
                                          ELSE IF b \in V2Request THEN Nothing ELSE booked[b]]
  /\ arenaTokens' = 0
  /\ document' = [NoDocument EXCEPT !.open = TRUE]
  /\ UNCHANGED callVars

DocumentEndForgets ==
  /\ At("idle") /\ document.open
  /\ tracker' = Release(tracker, BookedBy(V2Request))
  /\ booked'  = [b \in Buffers |-> IF b \in V2Request \cup {"document"} THEN Nothing ELSE booked[b]]
  /\ arenaTokens' = 0
  /\ document' = NoDocument
  /\ UNCHANGED callVars

\* By the caller, or by a window that is refused before it takes anything.
DocumentEnd ==
  /\ At("idle") /\ document.open
  /\ Free(V2Request \cup {"document"})
  /\ arenaTokens' = 0
  /\ document' = NoDocument
  /\ UNCHANGED callVars

-----------------------------------------------------------------------------

Init ==
  /\ stage = "idle" /\ request = NoRequest /\ estimate = 0 /\ ok = FALSE
  /\ tracker = Reserve(InitTracker, Only("model_views", ModelBytes))
  /\ booked = [b \in Buffers |-> IF b = "model" THEN Only("model_views", ModelBytes) ELSE Nothing]
  /\ arenaTokens = 0
  /\ document = NoDocument

Next ==
  \/ \E r \in Requests : StartText(r) \/ StartImage(r) \/ StartWindow(r)
  \/ KeepArenas \/ GrowArenas \/ ArenasFail
  \/ BookOutput \/ OutputFails \/ EnterImage \/ BookMetadata \/ MetadataFails
  \/ EnsureVision \/ EnsureFinal \/ EncodeVision \/ VisionStepFails \/ DropVision
  \/ AllocateDash \/ AllocateArenas \/ BookArenas \/ PrepareStepFails \/ DropPrepared
  \/ EnsureTransient \/ Prefill \/ EnsureSelection \/ EnsureLogits
  \/ Decode \/ DecoderStepFails \/ Unwind \/ Return
  \/ DocumentBegin \/ DocumentEnd

Spec == Init /\ [][Next]_vars

-----------------------------------------------------------------------------
(* Properties.                                                             *)

\* The states the variables range over.
MemoryTypeOK ==
  /\ stage \in Stages
  /\ request \in [kind : Kinds \cup {"none"}, views : Nat, tokens : Nat, new : Nat,
                  lookahead : {0, 1}]
  /\ estimate \in Nat
  /\ ok \in BOOLEAN
  /\ tracker \in [live : Amounts, total : Nat]
  /\ booked \in [Buffers -> Amounts]
  /\ arenaTokens \in Nat
  /\ document \in [open : BOOLEAN, finished : BOOLEAN,
                   prefix : TailRows \cup {0}, text : TextRows \cup {0}]

\* The tracker agrees with the buffers: in every category, what is live is what
\* the buffers are booked with, and the total is the sum.  No path of a request
\* - a replaced buffer, a failure half way through preparing the decoder, the
\* end of a document - books twice, releases what another buffer holds, or has
\* a release refused for asking more than is live.
TrackerAgrees ==
  /\ tracker.live = BookedBy(Buffers)
  /\ tracker.total = SumOf(tracker.live)

\* Between two calls a v2 engine holds the model and an open document, and
\* nothing of the last request, however it ended; a v1 engine holds besides
\* the model only arenas and decoder scratch, never vision's or a request's.
IdleFootprint ==
  stage = "idle" =>
    /\ {b \in Buffers : Held(b)} \subseteq
         {"model"} \cup IF V2 THEN {"document"}
                           ELSE {"arenas", "transient", "selection", "logits"}
    /\ Held("document") <=> document.open
    /\ V2 => arenaTokens = 0

\* The vision workspace and the decoder's memory - the arenas, which are
\* allocated before they are booked, and the DASH cache - never exist together:
\* the estimate takes the larger of the two phases, not their sum.
VisionBeforeDecoder ==
  Held("vision") => arenaTokens = 0 /\ ~Held("arenas") /\ ~Held("dash")

\* The arenas in the context and the booking in the engine, which separate
\* pieces of code keep, describe the same thing: always for v1, whose engine
\* decides from the context's shape whether its booking still covers a request,
\* and for v2 whenever the decoder runs.
ArenasBooked ==
  (~V2 \/ stage = "decode") =>
    booked["arenas"] = IF arenaTokens = 0 THEN Nothing
                       ELSE IF V2 THEN V2Arenas(arenaTokens) ELSE V1Arenas(arenaTokens)

\* What is live during an admitted v2 request never exceeds what admission
\* expected of it, its safety margin not used: through vision, the decoder's
\* preparation, a rewritten window prompt with a retained tail of any length,
\* and with the document's own state.  Growing a buffer, which holds old and new
\* for a moment, never happens.
LiveWithinEstimate ==
  request.kind \in {"page", "window"} =>
    /\ tracker.total <= estimate
    /\ stage \in Scratch => ~Held(stage)

\* "Before executing a request, the engine computes a memory estimate for every
\* component.  If the estimate exceeds the configurable memory_budget_bytes, the
\* request is rejected ... This guarantees that no runtime OOM can occur during
\* inference" (README_DESIGN.md:163): what is live stays within the budget.
LiveWithinBudget == Budget # 0 => tracker.total <= Budget

=============================================================================
