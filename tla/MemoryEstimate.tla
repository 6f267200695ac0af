--------------------------- MODULE MemoryEstimate ---------------------------
(***************************************************************************)
(* How many bytes each buffer of a request takes, and what admission       *)
(* expects a request to take (runtime/uocr_memory.c, the admission half of *)
(* generate_prepared_impl in core/uocr_api.c, and the size functions of    *)
(* backend/metal/uocr_metal.m).                                            *)
(*                                                                         *)
(* The unit is 16 bytes, which divides every size that is not a few bytes; *)
(* what is smaller is rounded up.  The padding between the slices of one   *)
(* buffer is a constant.  An image request has global views only, encoded  *)
(* in one chunk.                                                           *)
(***************************************************************************)
EXTENDS MemoryTracker

HalfUp(n)    == (n + 1) \div 2
QuarterUp(n) == (n + 3) \div 4
Largest(a, b) == IF a > b THEN a ELSE b

VisualTokens == 273               \* UOCR_GLOBAL_VISUAL_TOKENS
PageTokens   == VisualTokens + 1  \* a page's marker and its image
RingWindow   == 128               \* UOCR_GENERATED_RING_WINDOW
ExtraRows    == 290               \* UOCR_DOCUMENT_EXTRA_ROWS

-----------------------------------------------------------------------------
(* Buffers.                                                                *)

\* Scratch that is not vision's is a power of two of at least 4096 bytes,
\* found by doubling the capacity it had.
ScratchSizes ==
    {256 * n : n \in {1, 2, 4, 8, 16, 32, 64, 128, 256, 512, 1024, 2048, 4096, 8192,
                      16384, 32768, 65536, 131072, 262144, 524288, 1048576}}

Capacity(current, least) ==
    LET large == {n \in ScratchSizes : n >= current /\ n >= least}
    IN  IF large = {} THEN least ELSE CHOOSE n \in large : \A m \in large : n <= m

\* The bucketed mixture-of-experts prefill: pair rows, two prefixes and the
\* expert outputs.  A single token needs none.
PrefillScratch(tokens) == IF tokens > 1 THEN HalfUp(3 * tokens) + 34 + 960 * tokens ELSE 0

Transient(tokens) == IF tokens > 1 THEN Capacity(0, PrefillScratch(tokens)) ELSE 0

SelectionScratch == 65536   \* logits and ban flags, 646400 bytes, in 1 MiB
LogitsScratch    == 32768   \* the LM head's logits, 517120 bytes, in 512 KiB

\* Arenas of the v1 decoder, with its key/value cache.
V1Arenas(tokens) ==
    [Nothing EXCEPT !["kv_cache"]          = 3840 * (tokens + RingWindow),
                    !["prompt_embeddings"] = 160 * tokens,
                    !["decoder"]           = 800 * tokens,
                    !["moe"]               = 915 * tokens,
                    !["logits"]            = 1]

\* Arenas of the v2 decoder, with the prompt's token ids.
V2Arenas(queries) ==
    [Nothing EXCEPT !["prompt_embeddings"] = 160 * queries + QuarterUp(queries),
                    !["decoder"]           = 800 * queries,
                    !["moe"]               = 915 * queries,
                    !["logits"]            = 1]

\* The retained DASH cache: keys, values, router keys, positions and block
\* summaries, then the scratch of one query batch.
DashCache(tokens, queries, pages) ==
    [Nothing EXCEPT !["kv_cache"] = 4033 * tokens + 385 * ((tokens + 31) \div 32) + pages + 600,
                    !["decoder"]  = 342 * queries + 832]

VisionWorkspace(views) == 3538944 + 16922880 * views
VisionFinal(views)     == Largest(256, 160 * VisualTokens * views)

Output(new) == QuarterUp(new)

\* Token ids and image masks of a window's prompt and of its vision request.
Metadata(rows) == (5 * rows + 15) \div 16

\* sizeof(uocr_metal_document): 562 rows of keys, values and router keys in
\* 12 layers, and 4856 bytes besides.
DocumentBytes == 2266288

-----------------------------------------------------------------------------
(* Estimates.                                                              *)

V2Decoder(tokens, queries, pages) ==
    SumOf(DashCache(tokens, queries, pages)) + SumOf(V2Arenas(queries))
    + Transient(queries) + SelectionScratch + LogitsScratch

Vision(views) == IF views = 0 THEN 0 ELSE VisionWorkspace(views) + VisionFinal(views)
Final(views)  == IF views = 0 THEN 0 ELSE VisionFinal(views)

\* The larger of the two phases; the estimate's transient bytes stay zero.
V1Subtotal(model, r) ==
    model + Largest(Vision(r.views), SumOf(V1Arenas(r.tokens)) + Final(r.views))

V2SubtotalOutsideDocument(model, r, inDocument) ==
    model + Largest(V2Decoder(r.tokens + r.new, r.tokens, r.views + 1) + Final(r.views),
                    Vision(r.views))
    + HalfUp(r.new)

\* A window's prompt may be replaced by a retained tail, and the retained
\* state and the prompt's metadata live next to both phases.  The uploads and
\* cached position tables admission adds in a document are not tracked; they
\* are left out, which makes this estimate the smaller one.
V2Subtotal(model, r, inDocument) ==
    LET extra    == IF inDocument THEN ExtraRows ELSE 0
        queries  == r.tokens + extra
        decoder  == V2Decoder(r.tokens + r.new + extra, queries,
                              r.views + (IF inDocument THEN 2 ELSE 1))
        document == IF inDocument THEN DocumentBytes + Metadata(2 * queries) ELSE 0
    IN  model + Largest(decoder + Final(r.views), Vision(r.views))
        + HalfUp(r.new) + document

Margin(subtotal) == Largest(4194304, subtotal \div 20)   \* 64 MiB or 5%

Estimate(subtotal) == subtotal + Margin(subtotal)

=============================================================================
