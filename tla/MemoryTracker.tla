--------------------------- MODULE MemoryTracker ---------------------------
(***************************************************************************)
(* The byte counters of runtime/uocr_memory.c.  A tracker holds what is    *)
(* live in every category and in total; an amount is a function from the   *)
(* categories to a number of bytes, so that one operator stands for the    *)
(* calls that book or release one buffer's bytes category by category.     *)
(*                                                                         *)
(* Peaks are left out: a peak is the largest total over the states of a    *)
(* behaviour, which an invariant on the total speaks of directly.          *)
(***************************************************************************)
EXTENDS Integers

CONSTANT MaxBytes   \* the largest value of a counter (UINT64_MAX)

ASSUME MaxBytesAssumption == MaxBytes \in Nat

\* The categories the engine books; vision_host is never booked.
Categories == {"model_views", "kv_cache", "prompt_embeddings", "vision_gpu",
               "vision_final", "decoder", "moe", "logits", "transient"}

Amounts == [Categories -> Nat]

Nothing == [c \in Categories |-> 0]

Only(c, n) == [Nothing EXCEPT ![c] = n]

Plus(f, g) == [c \in Categories |-> f[c] + g[c]]

SumOf(f) == f["model_views"] + f["kv_cache"] + f["prompt_embeddings"]
            + f["vision_gpu"] + f["vision_final"] + f["decoder"] + f["moe"]
            + f["logits"] + f["transient"]

-----------------------------------------------------------------------------

InitTracker == [live |-> Nothing, total |-> 0]

\* The additions do not overflow.  A category never holds more than the total,
\* so the check on the total decides.
Fits(t, f) == t.total + SumOf(f) <= MaxBytes

\* uocr_memory_reserve for each category of f, when all of them fit.  A
\* reservation that fails half way is undone by its caller and leaves the
\* tracker as it was.
Reserve(t, f) == [live |-> Plus(t.live, f), total |-> t.total + SumOf(f)]

\* What uocr_memory_release takes: a release of more than is live is refused,
\* and every caller ignores the refusal.
Released(t, f) == [c \in Categories |-> IF t.live[c] < f[c] THEN 0 ELSE f[c]]

Release(t, f) ==
    [live  |-> [c \in Categories |-> t.live[c] - Released(t, f)[c]],
     total |-> t.total - SumOf(Released(t, f))]

=============================================================================
