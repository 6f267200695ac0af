------------------------ MODULE RequestMemoryProofs ------------------------
(***************************************************************************)
(* Proofs about RequestMemory, for every model, budget, set of requests    *)
(* and lengths of retained tails.                                          *)
(***************************************************************************)
EXTENDS RequestMemory, WellFoundedInduction, TLAPS

-----------------------------------------------------------------------------
(* The tracker's arithmetic.                                               *)

\* BookedBy for any booking k.
Part(k, B, b, c) == IF b \in B THEN k[b][c] ELSE 0

AmountOf(k, B) ==
  [c \in Categories |->
     Part(k, B, "model", c) + Part(k, B, "document", c) + Part(k, B, "output", c)
     + Part(k, B, "metadata", c) + Part(k, B, "vision", c) + Part(k, B, "final", c)
     + Part(k, B, "dash", c) + Part(k, B, "arenas", c) + Part(k, B, "transient", c)
     + Part(k, B, "selection", c) + Part(k, B, "logits", c)]

\* A tracker that agrees with a booking.
Agrees(t, k) ==
  /\ t \in [live : Amounts, total : Nat]
  /\ k \in [Buffers -> Amounts]
  /\ t.live = AmountOf(k, Buffers)
  /\ t.total = SumOf(t.live)

\* The booking without the buffers of B.
Without(k, B) == [b \in Buffers |-> IF b \in B THEN Nothing ELSE k[b]]

LEMMA NothingIsAmount == Nothing \in Amounts
  BY DEF Nothing, Amounts

LEMMA OnlyIsAmount ==
  ASSUME NEW c \in Categories, NEW n \in Nat
  PROVE  Only(c, n) \in Amounts
  BY DEF Only, Nothing, Amounts

LEMMA SumIsNat ==
  ASSUME NEW f \in Amounts
  PROVE  SumOf(f) \in Nat
  BY DEF Amounts, SumOf, Categories

\* The sum of a sum, and of a difference that stays in the naturals.
LEMMA SumOfPlus ==
  ASSUME NEW f \in Amounts, NEW g \in Amounts
  PROVE  /\ Plus(f, g) \in Amounts
         /\ SumOf(Plus(f, g)) = SumOf(f) + SumOf(g)
  <1>1. \A c \in Categories : f[c] \in Nat /\ g[c] \in Nat
    BY DEF Amounts
  <1>2. \A c \in Categories : Plus(f, g)[c] = f[c] + g[c]
    BY DEF Plus
  <1>3. Plus(f, g) \in Amounts
    BY <1>1 DEF Plus, Amounts
  <1>4. SumOf(Plus(f, g)) = SumOf(f) + SumOf(g)
    BY <1>1, <1>2 DEF SumOf, Categories
  <1> QED BY <1>3, <1>4

LEMMA AmountIsAmount ==
  ASSUME NEW k \in [Buffers -> Amounts], NEW B
  PROVE  AmountOf(k, B) \in Amounts
  <1>1. ASSUME NEW c \in Categories, NEW b \in Buffers
        PROVE  Part(k, B, b, c) \in Nat
    BY DEF Part, Amounts
  <1>2. ASSUME NEW c \in Categories
        PROVE  AmountOf(k, B)[c] \in Nat
    <2>1. /\ Part(k, B, "model", c) \in Nat
          /\ Part(k, B, "document", c) \in Nat
          /\ Part(k, B, "output", c) \in Nat
          /\ Part(k, B, "metadata", c) \in Nat
          /\ Part(k, B, "vision", c) \in Nat
          /\ Part(k, B, "final", c) \in Nat
          /\ Part(k, B, "dash", c) \in Nat
          /\ Part(k, B, "arenas", c) \in Nat
          /\ Part(k, B, "transient", c) \in Nat
          /\ Part(k, B, "selection", c) \in Nat
          /\ Part(k, B, "logits", c) \in Nat
      BY <1>1 DEF Buffers
    <2> QED BY <2>1 DEF AmountOf
  <1> QED BY <1>2 DEF AmountOf, Amounts

\* Releasing what is part of what is live is never refused.
LEMMA ReleaseExact ==
  ASSUME NEW t \in [live : Amounts, total : Nat], NEW f \in Amounts,
         \A c \in Categories : f[c] <= t.live[c],
         t.total = SumOf(t.live)
  PROVE  /\ Release(t, f).live = [c \in Categories |-> t.live[c] - f[c]]
         /\ Release(t, f).total = SumOf(Release(t, f).live)
         /\ Release(t, f) \in [live : Amounts, total : Nat]
  <1> DEFINE rest == [c \in Categories |-> t.live[c] - f[c]]
  <1>1. t.live \in Amounts /\ t.total \in Nat
    OBVIOUS
  <1>2. \A c \in Categories : t.live[c] \in Nat /\ f[c] \in Nat
    BY <1>1 DEF Amounts
  <1>3. Released(t, f) = f
    <2>1. \A c \in Categories : ~(t.live[c] < f[c])
      BY <1>2
    <2> QED BY <2>1 DEF Released, Amounts
  <1>4. Release(t, f) = [live |-> rest, total |-> t.total - SumOf(f)]
    BY <1>3 DEF Release
  <1>5. \A c \in Categories : rest[c] \in Nat /\ rest[c] + f[c] = t.live[c]
    BY <1>2
  <1>6. rest \in Amounts
    BY <1>5 DEF Amounts
  <1> HIDE DEF rest
  <1>7. t.live = Plus(rest, f)
    BY <1>1, <1>5 DEF Plus, Amounts
  <1>8. SumOf(t.live) = SumOf(rest) + SumOf(f)
    BY <1>6, <1>7, SumOfPlus
  <1>9. SumOf(rest) \in Nat /\ SumOf(f) \in Nat
    BY <1>6, SumIsNat
  <1>10. t.total - SumOf(f) = SumOf(rest)
    BY <1>8, <1>9
  <1> QED BY <1>4, <1>6, <1>9, <1>10 DEF rest

-----------------------------------------------------------------------------
(* Booking and freeing keep a tracker in agreement.                        *)

\* What the buffers of B and the other buffers are booked with is the whole.
LEMMA SplitBooking ==
  ASSUME NEW k \in [Buffers -> Amounts], NEW B \in SUBSET Buffers
  PROVE  /\ Without(k, B) \in [Buffers -> Amounts]
         /\ AmountOf(k, Buffers) = Plus(AmountOf(Without(k, B), Buffers), AmountOf(k, B))
  <1> DEFINE kk == Without(k, B)
             Adds(b, c) == Part(k, Buffers, b, c) = Part(kk, Buffers, b, c) + Part(k, B, b, c)
             Nats(b, c) == Part(kk, Buffers, b, c) \in Nat /\ Part(k, B, b, c) \in Nat
  <1>1. kk \in [Buffers -> Amounts]
    BY NothingIsAmount DEF Without
  <1>2. ASSUME NEW c \in Categories, NEW b \in Buffers
        PROVE  Adds(b, c) /\ Nats(b, c)
    <2>1. k[b][c] \in Nat /\ Nothing[c] = 0
      BY DEF Amounts, Nothing
    <2> QED BY <2>1 DEF Part, Without
  <1> HIDE DEF kk
  <1>3. ASSUME NEW c \in Categories
        PROVE  AmountOf(k, Buffers)[c] = AmountOf(kk, Buffers)[c] + AmountOf(k, B)[c]
    <2>1. /\ Adds("model", c) /\ Nats("model", c)
          /\ Adds("document", c) /\ Nats("document", c)
          /\ Adds("output", c) /\ Nats("output", c)
          /\ Adds("metadata", c) /\ Nats("metadata", c)
          /\ Adds("vision", c) /\ Nats("vision", c)
          /\ Adds("final", c) /\ Nats("final", c)
          /\ Adds("dash", c) /\ Nats("dash", c)
          /\ Adds("arenas", c) /\ Nats("arenas", c)
          /\ Adds("transient", c) /\ Nats("transient", c)
          /\ Adds("selection", c) /\ Nats("selection", c)
          /\ Adds("logits", c) /\ Nats("logits", c)
      BY <1>2 DEF Buffers
    <2> QED BY <2>1 DEF AmountOf
  <1>4. AmountOf(k, Buffers) \in Amounts
    BY AmountIsAmount
  <1>5. AmountOf(k, Buffers) = Plus(AmountOf(kk, Buffers), AmountOf(k, B))
    BY <1>3, <1>4 DEF Plus, Amounts
  <1> QED BY <1>1, <1>5 DEF kk

\* One buffer is booked with what its entry says.
LEMMA OneBooking ==
  ASSUME NEW k \in [Buffers -> Amounts], NEW b \in Buffers
  PROVE  AmountOf(k, {b}) = k[b]
  <1>1. ASSUME NEW c \in Categories
        PROVE  AmountOf(k, {b})[c] = k[b][c]
    <2>1. k[b][c] \in Nat
      BY DEF Amounts
    <2> QED BY <2>1 DEF AmountOf, Part, Buffers
  <1>2. k[b] = [c \in Categories |-> k[b][c]]
    BY DEF Amounts
  <1>3. AmountOf(k, {b}) = [c \in Categories |-> AmountOf(k, {b})[c]]
    BY AmountIsAmount DEF Amounts
  <1> QED BY <1>1, <1>2, <1>3

LEMMA FreeAgrees ==
  ASSUME NEW t, NEW k, Agrees(t, k), NEW B \in SUBSET Buffers
  PROVE  Agrees(Release(t, AmountOf(k, B)), Without(k, B))
  <1> DEFINE rest  == AmountOf(Without(k, B), Buffers)
             freed == AmountOf(k, B)
  <1>1. t \in [live : Amounts, total : Nat] /\ k \in [Buffers -> Amounts]
    BY DEF Agrees
  <1>2. Without(k, B) \in [Buffers -> Amounts] /\ t.live = Plus(rest, freed)
    BY <1>1, SplitBooking DEF Agrees
  <1>3. rest \in Amounts /\ freed \in Amounts
    BY <1>1, <1>2, AmountIsAmount
  <1> HIDE DEF rest, freed
  <1>4. \A c \in Categories : /\ rest[c] \in Nat /\ freed[c] \in Nat
                             /\ t.live[c] = rest[c] + freed[c]
    BY <1>2, <1>3 DEF Plus, Amounts
  <1>5. \A c \in Categories : freed[c] <= t.live[c] /\ t.live[c] - freed[c] = rest[c]
    BY <1>4
  <1>6. /\ Release(t, freed).live = [c \in Categories |-> t.live[c] - freed[c]]
        /\ Release(t, freed).total = SumOf(Release(t, freed).live)
        /\ Release(t, freed) \in [live : Amounts, total : Nat]
    BY <1>1, <1>3, <1>5, ReleaseExact DEF Agrees
  <1>7. Release(t, freed).live = rest
    BY <1>3, <1>5, <1>6 DEF Amounts
  <1> QED BY <1>2, <1>6, <1>7 DEF Agrees, rest, freed

LEMMA BookAgrees ==
  ASSUME NEW t, NEW k, Agrees(t, k), NEW b \in Buffers, NEW f \in Amounts, k[b] = Nothing
  PROVE  Agrees(Reserve(t, f), [k EXCEPT ![b] = f])
  <1> DEFINE kk == [k EXCEPT ![b] = f]
  <1>1. t \in [live : Amounts, total : Nat] /\ k \in [Buffers -> Amounts]
    BY DEF Agrees
  <1>2. kk \in [Buffers -> Amounts] /\ kk[b] = f /\ Without(kk, {b}) = k
    BY <1>1 DEF Without
  <1> HIDE DEF kk
  <1>3. AmountOf(kk, Buffers) = Plus(t.live, f)
    BY <1>2, SplitBooking, OneBooking DEF Agrees
  <1>4. SumOf(Plus(t.live, f)) = t.total + SumOf(f) /\ Plus(t.live, f) \in Amounts
    BY <1>1, SumOfPlus DEF Agrees
  <1>5. Reserve(t, f) = [live |-> Plus(t.live, f), total |-> t.total + SumOf(f)]
    BY DEF Reserve
  <1>6. t.total + SumOf(f) \in Nat
    BY <1>4, SumIsNat
  <1> QED BY <1>2, <1>3, <1>4, <1>5, <1>6 DEF Agrees, kk

\* ensure_scratch books the new buffer before it releases the old one.
LEMMA EnsureAgrees ==
  ASSUME NEW t, NEW k, Agrees(t, k), NEW b \in Buffers, NEW f \in Amounts
  PROVE  Agrees(Release(Reserve(t, f), k[b]), [k EXCEPT ![b] = f])
  <1> DEFINE kk   == [k EXCEPT ![b] = f]
             rest == AmountOf(Without(k, {b}), Buffers)
             mid  == Reserve(t, f)
  <1>1. /\ t \in [live : Amounts, total : Nat] /\ k \in [Buffers -> Amounts]
        /\ k[b] \in Amounts
    BY DEF Agrees
  <1>2. kk \in [Buffers -> Amounts] /\ kk[b] = f /\ Without(kk, {b}) = Without(k, {b})
    BY <1>1 DEF Without
  <1>3. t.live = Plus(rest, k[b]) /\ Without(k, {b}) \in [Buffers -> Amounts]
    BY <1>1, SplitBooking, OneBooking DEF Agrees
  <1>4. rest \in Amounts
    BY <1>3, AmountIsAmount
  <1>5. AmountOf(kk, Buffers) = Plus(rest, f)
    <2> HIDE DEF kk
    <2> QED BY <1>2, SplitBooking, OneBooking
  <1> HIDE DEF kk, rest
  <1>6. /\ mid.live = Plus(t.live, f) /\ mid.total = SumOf(mid.live)
        /\ mid \in [live : Amounts, total : Nat]
    <2>1. SumOf(Plus(t.live, f)) = t.total + SumOf(f) /\ Plus(t.live, f) \in Amounts
      BY <1>1, SumOfPlus DEF Agrees
    <2>2. t.total + SumOf(f) \in Nat
      BY <2>1, SumIsNat
    <2> QED BY <2>1, <2>2 DEF Reserve
  <1> HIDE DEF mid
  <1>7. \A c \in Categories : /\ rest[c] \in Nat /\ k[b][c] \in Nat /\ f[c] \in Nat
                             /\ mid.live[c] = rest[c] + k[b][c] + f[c]
                             /\ Plus(rest, f)[c] = rest[c] + f[c]
    BY <1>1, <1>3, <1>4, <1>6 DEF Plus, Amounts
  <1>8. \A c \in Categories : /\ k[b][c] <= mid.live[c]
                             /\ mid.live[c] - k[b][c] = Plus(rest, f)[c]
    BY <1>7
  <1>9. /\ Release(mid, k[b]).live = [c \in Categories |-> mid.live[c] - k[b][c]]
        /\ Release(mid, k[b]).total = SumOf(Release(mid, k[b]).live)
        /\ Release(mid, k[b]) \in [live : Amounts, total : Nat]
    BY <1>1, <1>6, <1>8, ReleaseExact
  <1>10. Release(mid, k[b]).live = Plus(rest, f)
    BY <1>8, <1>9 DEF Plus
  <1> QED BY <1>2, <1>5, <1>9, <1>10 DEF Agrees, kk, mid

-----------------------------------------------------------------------------
(* The sizes are natural numbers.                                          *)

LEMMA ChangedAmount ==
  ASSUME NEW f \in Amounts, NEW c, NEW n \in Nat
  PROVE  [f EXCEPT ![c] = n] \in Amounts
  BY DEF Amounts

LEMMA ChangedForV1 ==
  ASSUME NEW k \in Nat, NEW p \in Nat, NEW d \in Nat, NEW m \in Nat, NEW l \in Nat
  PROVE  [Nothing EXCEPT !["kv_cache"] = k, !["prompt_embeddings"] = p,
                         !["decoder"] = d, !["moe"] = m, !["logits"] = l] \in Amounts
  BY ChangedAmount, NothingIsAmount, Zenon

LEMMA ChangedForV2 ==
  ASSUME NEW p \in Nat, NEW d \in Nat, NEW m \in Nat, NEW l \in Nat
  PROVE  [Nothing EXCEPT !["prompt_embeddings"] = p, !["decoder"] = d,
                         !["moe"] = m, !["logits"] = l] \in Amounts
  BY ChangedAmount, NothingIsAmount, Zenon

LEMMA ChangedForDash ==
  ASSUME NEW k \in Nat, NEW d \in Nat
  PROVE  [Nothing EXCEPT !["kv_cache"] = k, !["decoder"] = d] \in Amounts
  BY ChangedAmount, NothingIsAmount, Zenon

LEMMA ArenasAreAmounts ==
  ASSUME NEW n \in Nat
  PROVE  V1Arenas(n) \in Amounts /\ V2Arenas(n) \in Amounts
  <1>1. /\ 160 * n \in Nat /\ 800 * n \in Nat /\ 915 * n \in Nat /\ 1 \in Nat
        /\ 3840 * (n + RingWindow) \in Nat /\ 160 * n + QuarterUp(n) \in Nat
    BY DEF QuarterUp, RingWindow
  <1>2. V1Arenas(n) \in Amounts
    BY <1>1, ChangedForV1 DEF V1Arenas
  <1>3. V2Arenas(n) \in Amounts
    BY <1>1, ChangedForV2 DEF V2Arenas
  <1> QED BY <1>2, <1>3

LEMMA DashIsAmount ==
  ASSUME NEW tokens \in Nat, NEW queries \in Nat, NEW pages \in Nat
  PROVE  DashCache(tokens, queries, pages) \in Amounts
  <1>1. (tokens + 31) \div 32 \in Nat
    OBVIOUS
  <1>2. /\ 4033 * tokens + 385 * ((tokens + 31) \div 32) + pages + 600 \in Nat
        /\ 342 * queries + 832 \in Nat
    BY <1>1
  <1> QED BY <1>2, ChangedForDash DEF DashCache

LEMMA ArenasAreHeld ==
  ASSUME NEW n \in Nat \ {0}
  PROVE  V1Arenas(n) # Nothing /\ V2Arenas(n) # Nothing
  <1>1. V1Arenas(n)["decoder"] # 0 /\ V2Arenas(n)["decoder"] # 0
    BY DEF V1Arenas, V2Arenas, Nothing, Categories
  <1>2. Nothing["decoder"] = 0
    BY DEF Nothing, Categories
  <1> QED BY <1>1, <1>2

\* The capacity chosen is the least of the scratch sizes that are large enough.
LEMMA CapacityIsLeast ==
  ASSUME NEW current \in Nat, NEW least \in Nat, NEW large,
         large = {n \in ScratchSizes : n >= current /\ n >= least}, large # {}
  PROVE  /\ large \subseteq Nat
         /\ Capacity(current, least) \in large
         /\ \A m \in large : Capacity(current, least) <= m
  <1>1. large \subseteq Nat
    BY DEF ScratchSizes
  <1>2. PICK n \in large : \A m \in large : ~(<<m, n>> \in OpToRel(<, Nat))
    BY <1>1, NatLessThanWellFounded, WFMin
  <1>3. \A m \in large : n <= m
    <2>1. OpToRel(<, Nat) = {p \in Nat \X Nat : p[1] < p[2]}
      BY Zenon DEF OpToRel
    <2>2. \A m \in large : <<m, n>> \notin {p \in Nat \X Nat : p[1] < p[2]}
      BY <1>2, <2>1, Zenon
    <2>3. ASSUME NEW m \in large
          PROVE  n <= m
      <3>1. m \in Nat /\ n \in Nat
        BY <1>1, <1>2
      <3>2. ~(m < n)
        BY <2>2, <3>1
      <3> QED BY <3>1, <3>2
    <2> QED BY <2>3
  <1>4. Capacity(current, least) = CHOOSE x \in large : \A m \in large : x <= m
    BY DEF Capacity
  <1> QED BY <1>1, <1>3, <1>4

LEMMA CapacityIsNat ==
  ASSUME NEW current \in Nat, NEW least \in Nat
  PROVE  Capacity(current, least) \in Nat
  <1> DEFINE large == {n \in ScratchSizes : n >= current /\ n >= least}
  <1>1. CASE large = {}
    BY <1>1 DEF Capacity
  <1>2. CASE large # {}
    <2> HIDE DEF large
    <2> QED BY <1>2, CapacityIsLeast DEF large
  <1> QED BY <1>1, <1>2

LEMMA SizesAreNat ==
  ASSUME NEW n \in Nat
  PROVE  /\ PrefillScratch(n) \in Nat
         /\ Transient(n) \in Nat
         /\ VisionWorkspace(n) \in Nat
         /\ VisionFinal(n) \in Nat
         /\ Output(n) \in Nat
         /\ Metadata(n) \in Nat
         /\ HalfUp(n) \in Nat
  <1>1. PrefillScratch(n) \in Nat
    BY DEF PrefillScratch, HalfUp
  <1>2. Transient(n) \in Nat
    BY <1>1, CapacityIsNat DEF Transient
  <1>3. VisionWorkspace(n) \in Nat
    BY DEF VisionWorkspace
  <1>4. VisionFinal(n) \in Nat
    BY DEF VisionFinal, Largest, VisualTokens
  <1>5. Output(n) \in Nat /\ Metadata(n) \in Nat /\ HalfUp(n) \in Nat
    BY DEF Output, QuarterUp, Metadata, HalfUp
  <1> QED BY <1>1, <1>2, <1>3, <1>4, <1>5

-----------------------------------------------------------------------------
(* The invariant.                                                          *)

\* The tracker agrees with the buffers.
Accounted == Agrees(tracker, booked)

CallTypeOK ==
  /\ stage \in Stages
  /\ request \in [kind : Kinds \cup {"none"}, views : Nat, tokens : Nat, new : Nat,
                  lookahead : {0, 1}]
  /\ estimate \in Nat
  /\ ok \in BOOLEAN
  /\ arenaTokens \in Nat
  /\ document \in [open : BOOLEAN, finished : BOOLEAN,
                   prefix : TailRows \cup {0}, text : TextRows \cup {0}]

\* Which request is served at which stage.
RequestOK ==
  /\ stage = "idle" <=> request.kind = "none"
  /\ request.kind # "none" => request.tokens # 0
  /\ request.kind \in {"image", "page", "window"} => request.views # 0
  /\ request.kind = "text" => stage \in {"arenas", "output", "transient", "prefill", "selection",
                                         "logits", "decode", "unwind", "result"}
  /\ stage = "metadata" => request.kind = "window"
  /\ stage \in {"dash", "book", "prepare_failed"} => V2
  /\ stage = "prefill" => ~V2
  /\ document.open => V2

\* When the parts of a request that are freed together with it may be held.
RequestHolds ==
  /\ (stage \in {"idle", "output"} \/ (stage = "arenas" /\ request.kind = "text"))
        => ~Held("output")
  /\ Held("metadata") => /\ request.kind = "window"
                         /\ stage \notin {"idle", "output", "enter", "metadata", "result"}
  /\ Held("document") <=> document.open

DecoderStages == {"arenas", "transient", "selection", "logits", "book", "prepare_failed",
                  "decode", "unwind"}

\* When a v2 engine may hold what.
V2Holds ==
  /\ Held("arenas") => stage \in {"decode", "unwind"}
  /\ (Held("dash") \/ Held("transient") \/ Held("selection") \/ Held("logits") \/ arenaTokens # 0)
        => stage \in DecoderStages
  /\ Held("vision") => stage \in {"final", "encode", "vision_failed"}
  /\ Held("final") => stage \in {"encode", "vision_failed", "dash"} \cup DecoderStages
  /\ stage \in {"transient", "selection", "logits", "book", "decode"} => arenaTokens # 0
  /\ stage = "decode" => booked["arenas"] = V2Arenas(arenaTokens)

\* When a v1 engine may hold what.
V1Holds ==
  /\ ~Held("dash")
  /\ booked["arenas"] = IF arenaTokens = 0 THEN Nothing ELSE V1Arenas(arenaTokens)
  /\ Held("vision") => request.kind = "image" /\ stage \in {"final", "encode", "vision_failed"}
  /\ Held("final") => /\ request.kind = "image"
                      /\ stage \in {"encode", "vision_failed", "arenas", "transient", "prefill", "unwind"}
  /\ (request.kind = "image"
       /\ stage \in {"output", "enter", "vision", "final", "encode", "vision_failed"})
        => arenaTokens = 0

Holds == RequestHolds /\ (V2 => V2Holds) /\ (~V2 => V1Holds)

IInv == Accounted /\ CallTypeOK /\ RequestOK /\ Holds

-----------------------------------------------------------------------------
(* The steps that take and free buffers.                                   *)

LEMMA BookedByIsAmount ==
  ASSUME NEW B
  PROVE  BookedBy(B) = AmountOf(booked, B)
  BY DEF BookedBy, AmountOf, Share, Part

LEMMA FreeStep ==
  ASSUME Accounted, NEW B \in SUBSET Buffers, Free(B)
  PROVE  /\ Accounted'
         /\ \A b \in Buffers : booked'[b] = IF b \in B THEN Nothing ELSE booked[b]
  <1>1. booked' = Without(booked, B)
    BY DEF Free, Without
  <1>2. tracker' = Release(tracker, AmountOf(booked, B))
    BY BookedByIsAmount DEF Free
  <1> QED BY <1>1, <1>2, FreeAgrees DEF Accounted, Without

LEMMA BookStep ==
  ASSUME Accounted, NEW b \in Buffers, NEW f \in Amounts, booked[b] = Nothing, Book(b, f)
  PROVE  /\ Accounted'
         /\ \A x \in Buffers : booked'[x] = IF x = b THEN f ELSE booked[x]
  <1>1. booked' = [booked EXCEPT ![b] = f] /\ tracker' = Reserve(tracker, f)
    BY DEF Book
  <1>2. booked \in [Buffers -> Amounts]
    BY DEF Accounted, Agrees
  <1> QED BY <1>1, <1>2, BookAgrees DEF Accounted

LEMMA EnsureStep ==
  ASSUME Accounted, NEW b \in Buffers, NEW c \in Categories, NEW least, NEW bytes \in Nat,
         Ensure(b, c, least, bytes)
  PROVE  /\ Accounted'
         /\ \A x \in Buffers : x # b => booked'[x] = booked[x]
  <1>1. booked \in [Buffers -> Amounts]
    BY DEF Accounted, Agrees
  <1>2. CASE UNCHANGED <<tracker, booked>>
    BY <1>2 DEF Accounted
  <1>3. CASE /\ tracker' = Release(Reserve(tracker, Only(c, bytes)), booked[b])
             /\ booked' = [booked EXCEPT ![b] = Only(c, bytes)]
    BY <1>1, <1>3, OnlyIsAmount, EnsureAgrees DEF Accounted
  <1> QED BY <1>2, <1>3 DEF Ensure

\* The buffers of B go before b is booked with f.
LEMMA SwapStep ==
  ASSUME Accounted, NEW B \in SUBSET Buffers, NEW b \in Buffers, NEW f \in Amounts,
         b \in B \/ booked[b] = Nothing,
         tracker' = Reserve(Release(tracker, BookedBy(B)), f),
         booked' = [x \in Buffers |-> IF x = b THEN f ELSE IF x \in B THEN Nothing ELSE booked[x]]
  PROVE  /\ Accounted'
         /\ \A x \in Buffers : booked'[x] = IF x = b THEN f
                                            ELSE IF x \in B THEN Nothing ELSE booked[x]
  <1> DEFINE rest == Without(booked, B)
             free == Release(tracker, BookedBy(B))
  <1>1. Agrees(free, rest)
    BY BookedByIsAmount, FreeAgrees DEF Accounted
  <1>2. rest[b] = Nothing /\ booked' = [rest EXCEPT ![b] = f]
    BY DEF Without
  <1> HIDE DEF rest, free
  <1>3. Agrees(Reserve(free, f), [rest EXCEPT ![b] = f])
    BY <1>1, <1>2, BookAgrees
  <1> QED BY <1>2, <1>3 DEF Accounted, free

\* The size of the request being served.
LEMMA SizesAreDefined ==
  ASSUME CallTypeOK, RequestOK, request.kind \notin {"none", "text"}
  PROVE  /\ Fresh \in Nat /\ Prompt \in Nat /\ Retained \in Nat /\ Pages \in Nat
         /\ Queries \in Nat \ {0}
  <1>1. /\ request.views \in Nat \ {0} /\ request.tokens \in Nat \ {0} /\ request.new \in Nat
    BY DEF CallTypeOK, RequestOK, Kinds
  <1>2. /\ TailRows \cup {0} \subseteq Nat /\ TextRows \cup {0} \subseteq Nat
        /\ \A n \in TailRows : n >= 1
    BY MemoryConstants DEF PageTokens, VisualTokens
  <1>3. document.prefix \in Nat /\ document.text \in Nat
    BY <1>2 DEF CallTypeOK
  <1>4. Fresh \in Nat /\ Pages \in Nat
    BY <1>1 DEF Fresh, Pages
  <1>5. CASE Reuses
    <2>1. document.prefix >= 1
      BY <1>2, <1>5 DEF Reuses, CallTypeOK
    <2>2. (request.views - 1) * PageTokens \in Nat
      BY <1>1 DEF PageTokens, VisualTokens
    <2>3. Fresh # 0 => (request.views - 1) * PageTokens >= 1
      BY <1>1, <1>5 DEF Fresh, PageTokens, VisualTokens
    <2>4. PICK more \in Nat : more = (request.views - 1) * PageTokens
      BY <2>2
    <2>5. /\ Prompt = document.prefix + more
          /\ Copied = document.prefix - (IF Fresh = 0 THEN 1 ELSE 0)
          /\ Retained = Prompt + document.text + request.new
      BY <1>5, <2>4 DEF Prompt, Copied, Retained
    <2>6. Prompt \in Nat /\ Retained \in Nat
      BY <1>1, <1>3, <2>5
    <2>7. Queries \in Nat \ {0}
      BY <1>3, <2>3, <2>4, <2>5 DEF Queries
    <2> QED BY <1>4, <2>6, <2>7
  <1>6. CASE ~Reuses
    BY <1>1, <1>4, <1>6 DEF Prompt, Copied, Queries, Retained
  <1> QED BY <1>5, <1>6

\* What admission expects of a valid request.
LEMMA SubtotalIsNat ==
  ASSUME NEW r \in Requests
  PROVE  Subtotal(r) \in Nat
  <1>1. r.views \in Nat /\ r.tokens \in Nat /\ r.new \in Nat /\ ModelBytes \in Nat
    BY MemoryConstants
  <1>2. \A n \in Nat : Vision(n) \in Nat /\ Final(n) \in Nat
    BY SizesAreNat DEF Vision, Final
  <1>3. \A m, n \in Nat : Largest(m, n) \in Nat
    BY DEF Largest
  <1>4. V1Subtotal(ModelBytes, r) \in Nat
    <2>1. SumOf(V1Arenas(r.tokens)) \in Nat
      BY <1>1, ArenasAreAmounts, SumIsNat
    <2>2. SumOf(V1Arenas(r.tokens)) + Final(r.views) \in Nat
      BY <1>1, <1>2, <2>1
    <2>3. Largest(Vision(r.views), SumOf(V1Arenas(r.tokens)) + Final(r.views)) \in Nat
      BY <1>1, <1>2, <1>3, <2>2
    <2> QED BY <1>1, <2>3 DEF V1Subtotal
  <1>5. ASSUME NEW tokens \in Nat, NEW queries \in Nat, NEW pages \in Nat
        PROVE  V2Decoder(tokens, queries, pages) \in Nat
    <2>1. SumOf(DashCache(tokens, queries, pages)) \in Nat
      BY DashIsAmount, SumIsNat
    <2>2. SumOf(V2Arenas(queries)) \in Nat
      BY ArenasAreAmounts, SumIsNat
    <2>3. Transient(queries) \in Nat
      BY SizesAreNat
    <2> QED BY <2>1, <2>2, <2>3 DEF V2Decoder, SelectionScratch, LogitsScratch
  <1>6. V2Subtotal(ModelBytes, r, document.open) \in Nat
    <2> DEFINE extra    == IF document.open THEN ExtraRows ELSE 0
               queries  == r.tokens + extra
               pages    == r.views + (IF document.open THEN 2 ELSE 1)
               decoder  == V2Decoder(r.tokens + r.new + extra, queries, pages)
               retained == IF document.open THEN DocumentBytes + Metadata(2 * queries) ELSE 0
               phases   == Largest(decoder + Final(r.views), Vision(r.views))
    <2>1. extra \in Nat /\ queries \in Nat /\ pages \in Nat /\ r.tokens + r.new + extra \in Nat
      BY <1>1 DEF ExtraRows
    <2> HIDE DEF extra, queries, pages
    <2>2. decoder \in Nat
      BY <1>5, <2>1
    <2>3. 2 * queries \in Nat
      BY <2>1
    <2>4. Metadata(2 * queries) \in Nat
      BY <2>3, SizesAreNat
    <2>5. retained \in Nat
      BY <2>4 DEF DocumentBytes
    <2> HIDE DEF decoder, retained
    <2>6. decoder + Final(r.views) \in Nat
      BY <1>1, <1>2, <2>2
    <2>7. phases \in Nat
      BY <1>1, <1>2, <1>3, <2>6
    <2>8. HalfUp(r.new) \in Nat
      BY <1>1, SizesAreNat
    <2> HIDE DEF phases
    <2>9. ModelBytes + phases + HalfUp(r.new) + retained \in Nat
      BY <1>1, <2>5, <2>7, <2>8
    <2> QED BY <2>9 DEF V2Subtotal, extra, queries, pages, decoder, retained, phases
  <1> QED BY <1>4, <1>6 DEF Subtotal

-----------------------------------------------------------------------------
(* Every action preserves the invariant.                                   *)

LEMMA KeepArenasStep ==
  ASSUME IInv, KeepArenas
  PROVE  IInv'
  <1>1. Accounted /\ CallTypeOK /\ RequestOK /\ RequestHolds
        /\ (V2 => V2Holds) /\ (~V2 => V1Holds)
    BY DEF IInv, Holds
  <1>2. /\ Accounted'
        /\ booked' = booked
    BY <1>1 DEF KeepArenas, memoryVars, Accounted
  <1>3. /\ ~V2 /\ stage = "arenas" /\ stage' = AfterArenas
        /\ request' = request /\ estimate' = estimate /\ ok' = ok
        /\ arenaTokens' = arenaTokens /\ document' = document
    BY DEF KeepArenas, At, Goto, memoryVars, callVars
  <1>4. CallTypeOK'
    BY <1>1, <1>3 DEF CallTypeOK, RequestOK, Stages, AfterArenas
  <1>5. RequestOK'
    BY <1>1, <1>3 DEF CallTypeOK, RequestOK, Kinds, AfterArenas
  <1>6. RequestHolds'
    BY <1>1, <1>2, <1>3 DEF CallTypeOK, RequestOK, RequestHolds, Held, Buffers, AfterArenas
  <1>7. V2 => V2Holds'
    BY <1>1, <1>2, <1>3 DEF CallTypeOK, RequestOK, V2Holds, DecoderStages, Held, Buffers,
       AfterArenas
  <1>8. ~V2 => V1Holds'
    BY <1>1, <1>2, <1>3 DEF CallTypeOK, RequestOK, RequestHolds, V1Holds, Held, Buffers,
       AfterArenas
  <1> QED BY <1>2, <1>4, <1>5, <1>6, <1>7, <1>8 DEF IInv, Holds

LEMMA OutputFailsStep ==
  ASSUME IInv, OutputFails
  PROVE  IInv'
  <1>1. Accounted /\ CallTypeOK /\ RequestOK /\ RequestHolds
        /\ (V2 => V2Holds) /\ (~V2 => V1Holds)
    BY DEF IInv, Holds
  <1>2. /\ Accounted'
        /\ booked' = booked
    BY <1>1 DEF OutputFails, memoryVars, Accounted
  <1>3. /\ stage = "output" /\ stage' = "result"
        /\ request' = request /\ estimate' = estimate /\ ok' = ok
        /\ arenaTokens' = arenaTokens /\ document' = document
    BY DEF OutputFails, At, Goto, memoryVars, callVars
  <1>4. CallTypeOK'
    BY <1>1, <1>3 DEF CallTypeOK, RequestOK, Stages
  <1>5. RequestOK'
    BY <1>1, <1>3 DEF CallTypeOK, RequestOK, Kinds
  <1>6. RequestHolds'
    BY <1>1, <1>2, <1>3 DEF CallTypeOK, RequestOK, RequestHolds, Held, Buffers
  <1>7. V2 => V2Holds'
    BY <1>1, <1>2, <1>3 DEF CallTypeOK, RequestOK, V2Holds, DecoderStages, Held, Buffers
  <1>8. ~V2 => V1Holds'
    BY <1>1, <1>2, <1>3 DEF CallTypeOK, RequestOK, RequestHolds, V1Holds, Held, Buffers
  <1> QED BY <1>2, <1>4, <1>5, <1>6, <1>7, <1>8 DEF IInv, Holds

LEMMA EnterImageStep ==
  ASSUME IInv, EnterImage
  PROVE  IInv'
  <1>1. Accounted /\ CallTypeOK /\ RequestOK /\ RequestHolds
        /\ (V2 => V2Holds) /\ (~V2 => V1Holds)
    BY DEF IInv, Holds
  <1>2. /\ Accounted'
        /\ \A b \in Buffers : booked'[b] = IF b \in (IF V2 THEN V2Request
             ELSE {}) THEN Nothing ELSE booked[b]
    BY <1>1, FreeStep DEF EnterImage, Buffers, Kinds, V2Request, Scratch
  <1>3. /\ stage = "enter" /\ stage' = IF request.kind = "window" THEN "metadata" ELSE "vision"
        /\ request' = request /\ estimate' = estimate /\ ok' = ok
        /\ arenaTokens' = IF V2 THEN 0 ELSE arenaTokens
        /\ document' = document
    BY DEF EnterImage, At, Goto, memoryVars, callVars
  <1>4. CallTypeOK'
    BY <1>1, <1>3 DEF CallTypeOK, RequestOK, Stages
  <1>5. RequestOK'
    BY <1>1, <1>3 DEF CallTypeOK, RequestOK, Kinds
  <1>6. RequestHolds'
    BY <1>1, <1>2, <1>3 DEF CallTypeOK, RequestOK, RequestHolds, Held, Buffers, V2Request, Scratch
  <1>7. V2 => V2Holds'
    BY <1>1, <1>2, <1>3 DEF CallTypeOK, RequestOK, V2Holds, DecoderStages, Held, Buffers,
       V2Request, Scratch
  <1>8. ~V2 => V1Holds'
    BY <1>1, <1>2, <1>3 DEF CallTypeOK, RequestOK, RequestHolds, V1Holds, Held, Buffers,
       V2Request, Scratch
  <1> QED BY <1>2, <1>4, <1>5, <1>6, <1>7, <1>8 DEF IInv, Holds

LEMMA MetadataFailsStep ==
  ASSUME IInv, MetadataFails
  PROVE  IInv'
  <1>1. Accounted /\ CallTypeOK /\ RequestOK /\ RequestHolds
        /\ (V2 => V2Holds) /\ (~V2 => V1Holds)
    BY DEF IInv, Holds
  <1>2. /\ Accounted'
        /\ booked' = booked
    BY <1>1 DEF MetadataFails, memoryVars, Accounted
  <1>3. /\ stage = "metadata" /\ stage' = "unwind"
        /\ request' = request /\ estimate' = estimate /\ ok' = ok
        /\ arenaTokens' = arenaTokens /\ document' = document
    BY DEF MetadataFails, At, Goto, memoryVars, callVars
  <1>4. CallTypeOK'
    BY <1>1, <1>3 DEF CallTypeOK, RequestOK, Stages
  <1>5. RequestOK'
    BY <1>1, <1>3 DEF CallTypeOK, RequestOK, Kinds
  <1>6. RequestHolds'
    BY <1>1, <1>2, <1>3 DEF CallTypeOK, RequestOK, RequestHolds, Held, Buffers
  <1>7. V2 => V2Holds'
    BY <1>1, <1>2, <1>3 DEF CallTypeOK, RequestOK, V2Holds, DecoderStages, Held, Buffers
  <1>8. ~V2 => V1Holds'
    BY <1>1, <1>2, <1>3 DEF CallTypeOK, RequestOK, RequestHolds, V1Holds, Held, Buffers
  <1> QED BY <1>2, <1>4, <1>5, <1>6, <1>7, <1>8 DEF IInv, Holds

LEMMA EncodeVisionStep ==
  ASSUME IInv, EncodeVision
  PROVE  IInv'
  <1>1. Accounted /\ CallTypeOK /\ RequestOK /\ RequestHolds
        /\ (V2 => V2Holds) /\ (~V2 => V1Holds)
    BY DEF IInv, Holds
  <1>2. /\ Accounted'
        /\ \A b \in Buffers : booked'[b] = IF b \in {"vision"} THEN Nothing ELSE booked[b]
    BY <1>1, FreeStep DEF EncodeVision, Buffers, Kinds
  <1>3. /\ stage = "encode" /\ stage' = IF V2 THEN "dash" ELSE "arenas"
        /\ request' = request /\ estimate' = estimate /\ ok' = ok
        /\ arenaTokens' = arenaTokens /\ document' = document
    BY DEF EncodeVision, At, Goto, memoryVars, callVars
  <1>4. CallTypeOK'
    BY <1>1, <1>3 DEF CallTypeOK, RequestOK, Stages
  <1>5. RequestOK'
    BY <1>1, <1>3 DEF CallTypeOK, RequestOK, Kinds
  <1>6. RequestHolds'
    BY <1>1, <1>2, <1>3 DEF CallTypeOK, RequestOK, RequestHolds, Held, Buffers
  <1>7. V2 => V2Holds'
    BY <1>1, <1>2, <1>3 DEF CallTypeOK, RequestOK, V2Holds, DecoderStages, Held, Buffers
  <1>8. ~V2 => V1Holds'
    BY <1>1, <1>2, <1>3 DEF CallTypeOK, RequestOK, RequestHolds, V1Holds, Held, Buffers
  <1> QED BY <1>2, <1>4, <1>5, <1>6, <1>7, <1>8 DEF IInv, Holds

LEMMA VisionStepFailsStep ==
  ASSUME IInv, VisionStepFails
  PROVE  IInv'
  <1>1. Accounted /\ CallTypeOK /\ RequestOK /\ RequestHolds
        /\ (V2 => V2Holds) /\ (~V2 => V1Holds)
    BY DEF IInv, Holds
  <1>2. /\ Accounted'
        /\ booked' = booked
    BY <1>1 DEF VisionStepFails, memoryVars, Accounted
  <1>3. /\ stage \in {"vision", "final", "encode"} /\ stage' = "vision_failed"
        /\ request' = request /\ estimate' = estimate /\ ok' = ok
        /\ arenaTokens' = arenaTokens /\ document' = document
    BY DEF VisionStepFails, At, Goto, memoryVars, callVars
  <1>4. CallTypeOK'
    BY <1>1, <1>3 DEF CallTypeOK, RequestOK, Stages
  <1>5. RequestOK'
    BY <1>1, <1>3 DEF CallTypeOK, RequestOK, Kinds
  <1>6. RequestHolds'
    BY <1>1, <1>2, <1>3 DEF CallTypeOK, RequestOK, RequestHolds, Held, Buffers
  <1>7. V2 => V2Holds'
    BY <1>1, <1>2, <1>3 DEF CallTypeOK, RequestOK, V2Holds, DecoderStages, Held, Buffers
  <1>8. ~V2 => V1Holds'
    BY <1>1, <1>2, <1>3 DEF CallTypeOK, RequestOK, RequestHolds, V1Holds, Held, Buffers
  <1> QED BY <1>2, <1>4, <1>5, <1>6, <1>7, <1>8 DEF IInv, Holds

LEMMA DropVisionStep ==
  ASSUME IInv, DropVision
  PROVE  IInv'
  <1>1. Accounted /\ CallTypeOK /\ RequestOK /\ RequestHolds
        /\ (V2 => V2Holds) /\ (~V2 => V1Holds)
    BY DEF IInv, Holds
  <1>2. /\ Accounted'
        /\ \A b \in Buffers : booked'[b] = IF b \in {"vision", "final"} THEN Nothing
             ELSE booked[b]
    BY <1>1, FreeStep DEF DropVision, Buffers, Kinds
  <1>3. /\ stage = "vision_failed" /\ stage' = "unwind"
        /\ request' = request /\ estimate' = estimate /\ ok' = ok
        /\ arenaTokens' = arenaTokens /\ document' = document
    BY DEF DropVision, At, Goto, memoryVars, callVars
  <1>4. CallTypeOK'
    BY <1>1, <1>3 DEF CallTypeOK, RequestOK, Stages
  <1>5. RequestOK'
    BY <1>1, <1>3 DEF CallTypeOK, RequestOK, Kinds
  <1>6. RequestHolds'
    BY <1>1, <1>2, <1>3 DEF CallTypeOK, RequestOK, RequestHolds, Held, Buffers
  <1>7. V2 => V2Holds'
    BY <1>1, <1>2, <1>3 DEF CallTypeOK, RequestOK, V2Holds, DecoderStages, Held, Buffers
  <1>8. ~V2 => V1Holds'
    BY <1>1, <1>2, <1>3 DEF CallTypeOK, RequestOK, RequestHolds, V1Holds, Held, Buffers
  <1> QED BY <1>2, <1>4, <1>5, <1>6, <1>7, <1>8 DEF IInv, Holds

LEMMA PrepareStepFailsStep ==
  ASSUME IInv, PrepareStepFails
  PROVE  IInv'
  <1>1. Accounted /\ CallTypeOK /\ RequestOK /\ RequestHolds
        /\ (V2 => V2Holds) /\ (~V2 => V1Holds)
    BY DEF IInv, Holds
  <1>2. /\ Accounted'
        /\ booked' = booked
    BY <1>1 DEF PrepareStepFails, memoryVars, Accounted
  <1>3. /\ V2 /\ stage' = "prepare_failed"
        /\ stage \in {"dash", "arenas", "transient", "selection", "logits", "book"}
        /\ request' = request /\ estimate' = estimate /\ ok' = ok
        /\ arenaTokens' = arenaTokens /\ document' = document
    BY DEF PrepareStepFails, At, Goto, memoryVars, callVars
  <1>4. CallTypeOK'
    BY <1>1, <1>3 DEF CallTypeOK, RequestOK, Stages
  <1>5. RequestOK'
    BY <1>1, <1>3 DEF CallTypeOK, RequestOK, Kinds
  <1>6. RequestHolds'
    BY <1>1, <1>2, <1>3 DEF CallTypeOK, RequestOK, RequestHolds, Held, Buffers
  <1>7. V2 => V2Holds'
    BY <1>1, <1>2, <1>3 DEF CallTypeOK, RequestOK, V2Holds, DecoderStages, Held, Buffers
  <1>8. ~V2 => V1Holds'
    BY <1>1, <1>2, <1>3 DEF CallTypeOK, RequestOK, RequestHolds, V1Holds, Held, Buffers
  <1> QED BY <1>2, <1>4, <1>5, <1>6, <1>7, <1>8 DEF IInv, Holds

LEMMA DropPreparedStep ==
  ASSUME IInv, DropPrepared
  PROVE  IInv'
  <1>1. Accounted /\ CallTypeOK /\ RequestOK /\ RequestHolds
        /\ (V2 => V2Holds) /\ (~V2 => V1Holds)
    BY DEF IInv, Holds
  <1>2. /\ Accounted'
        /\ \A b \in Buffers : booked'[b] = IF b \in Prepared THEN Nothing ELSE booked[b]
    BY <1>1, FreeStep DEF DropPrepared, Buffers, Kinds, Prepared
  <1>3. /\ stage = "prepare_failed" /\ stage' = "unwind"
        /\ request' = request /\ estimate' = estimate /\ ok' = ok
        /\ arenaTokens' = 0 /\ document' = document
    BY DEF DropPrepared, At, Goto, memoryVars, callVars
  <1>4. CallTypeOK'
    BY <1>1, <1>3 DEF CallTypeOK, RequestOK, Stages
  <1>5. RequestOK'
    BY <1>1, <1>3 DEF CallTypeOK, RequestOK, Kinds
  <1>6. RequestHolds'
    BY <1>1, <1>2, <1>3 DEF CallTypeOK, RequestOK, RequestHolds, Held, Buffers, Prepared
  <1>7. V2 => V2Holds'
    BY <1>1, <1>2, <1>3 DEF CallTypeOK, RequestOK, V2Holds, DecoderStages, Held, Buffers, Prepared
  <1>8. ~V2 => V1Holds'
    BY <1>1, <1>2, <1>3 DEF CallTypeOK, RequestOK, RequestHolds, V1Holds, Held, Buffers, Prepared
  <1> QED BY <1>2, <1>4, <1>5, <1>6, <1>7, <1>8 DEF IInv, Holds

LEMMA PrefillStep ==
  ASSUME IInv, Prefill
  PROVE  IInv'
  <1>1. Accounted /\ CallTypeOK /\ RequestOK /\ RequestHolds
        /\ (V2 => V2Holds) /\ (~V2 => V1Holds)
    BY DEF IInv, Holds
  <1>2. /\ Accounted'
        /\ \A b \in Buffers : booked'[b] = IF b \in {"final"} THEN Nothing ELSE booked[b]
    BY <1>1, FreeStep DEF Prefill, Buffers, Kinds
  <1>3. /\ stage = "prefill" /\ stage' = "selection"
        /\ request' = request /\ estimate' = estimate /\ ok' = ok
        /\ arenaTokens' = arenaTokens /\ document' = document
    BY DEF Prefill, At, Goto, memoryVars, callVars
  <1>4. CallTypeOK'
    BY <1>1, <1>3 DEF CallTypeOK, RequestOK, Stages
  <1>5. RequestOK'
    BY <1>1, <1>3 DEF CallTypeOK, RequestOK, Kinds
  <1>6. RequestHolds'
    BY <1>1, <1>2, <1>3 DEF CallTypeOK, RequestOK, RequestHolds, Held, Buffers
  <1>7. V2 => V2Holds'
    BY <1>1, <1>2, <1>3 DEF CallTypeOK, RequestOK, V2Holds, DecoderStages, Held, Buffers
  <1>8. ~V2 => V1Holds'
    BY <1>1, <1>2, <1>3 DEF CallTypeOK, RequestOK, RequestHolds, V1Holds, Held, Buffers
  <1> QED BY <1>2, <1>4, <1>5, <1>6, <1>7, <1>8 DEF IInv, Holds

LEMMA DecoderStepFailsStep ==
  ASSUME IInv, DecoderStepFails
  PROVE  IInv'
  <1>1. Accounted /\ CallTypeOK /\ RequestOK /\ RequestHolds
        /\ (V2 => V2Holds) /\ (~V2 => V1Holds)
    BY DEF IInv, Holds
  <1>2. /\ Accounted'
        /\ booked' = booked
    BY <1>1 DEF DecoderStepFails, memoryVars, Accounted
  <1>3. /\ stage' = "unwind"
        /\ IF V2 THEN stage = "decode" ELSE stage \in {"transient", "prefill", "selection",
             "logits", "decode"}
        /\ request' = request /\ estimate' = estimate /\ ok' = ok
        /\ arenaTokens' = arenaTokens /\ document' = document
    BY DEF DecoderStepFails, At, Goto, memoryVars, callVars
  <1>4. CallTypeOK'
    BY <1>1, <1>3 DEF CallTypeOK, RequestOK, Stages
  <1>5. RequestOK'
    BY <1>1, <1>3 DEF CallTypeOK, RequestOK, Kinds
  <1>6. RequestHolds'
    BY <1>1, <1>2, <1>3 DEF CallTypeOK, RequestOK, RequestHolds, Held, Buffers
  <1>7. V2 => V2Holds'
    BY <1>1, <1>2, <1>3 DEF CallTypeOK, RequestOK, V2Holds, DecoderStages, Held, Buffers
  <1>8. ~V2 => V1Holds'
    BY <1>1, <1>2, <1>3 DEF CallTypeOK, RequestOK, RequestHolds, V1Holds, Held, Buffers
  <1> QED BY <1>2, <1>4, <1>5, <1>6, <1>7, <1>8 DEF IInv, Holds

LEMMA ArenasFailStep ==
  ASSUME IInv, ArenasFail
  PROVE  IInv'
  <1>1. Accounted /\ CallTypeOK /\ RequestOK /\ RequestHolds
        /\ (V2 => V2Holds) /\ (~V2 => V1Holds)
    BY DEF IInv, Holds
  <1>2. /\ Accounted'
        /\ \A b \in Buffers : booked'[b] = IF b \in {"arenas", "final"} THEN Nothing
             ELSE booked[b]
    BY <1>1, FreeStep DEF ArenasFail, Buffers, Kinds
  <1>3. /\ ~V2 /\ stage = "arenas"
        /\ IF request.kind = "text" THEN stage' = "idle" /\ request' = NoRequest
             ELSE stage' = "unwind" /\ request' = request
        /\ estimate' = estimate /\ ok' = ok
        /\ arenaTokens' = 0 /\ document' = document
    BY DEF ArenasFail, At, Goto, memoryVars, callVars
  <1>4. CallTypeOK'
    BY <1>1, <1>3 DEF CallTypeOK, RequestOK, Stages, NoRequest, Kinds
  <1>5. RequestOK'
    BY <1>1, <1>3 DEF CallTypeOK, RequestOK, Kinds, NoRequest
  <1>6. RequestHolds'
    BY <1>1, <1>2, <1>3 DEF CallTypeOK, RequestOK, RequestHolds, Held, Buffers, NoRequest
  <1>7. V2 => V2Holds'
    BY <1>1, <1>2, <1>3 DEF CallTypeOK, RequestOK, V2Holds, DecoderStages, Held, Buffers
  <1>8. ~V2 => V1Holds'
    BY <1>1, <1>2, <1>3 DEF CallTypeOK, RequestOK, RequestHolds, V1Holds, Held, Buffers, NoRequest
  <1> QED BY <1>2, <1>4, <1>5, <1>6, <1>7, <1>8 DEF IInv, Holds

LEMMA UnwindStep ==
  ASSUME IInv, Unwind
  PROVE  IInv'
  <1>1. Accounted /\ CallTypeOK /\ RequestOK /\ RequestHolds
        /\ (V2 => V2Holds) /\ (~V2 => V1Holds)
    BY DEF IInv, Holds
  <1>2. /\ Accounted'
        /\ \A b \in Buffers : booked'[b] = IF b \in Unwound THEN Nothing ELSE booked[b]
    BY <1>1, FreeStep DEF Unwind, Buffers, Kinds, Unwound, V2Request, Scratch
  <1>3. /\ stage = "unwind" /\ stage' = "result"
        /\ request' = request /\ estimate' = estimate /\ ok' = ok
        /\ arenaTokens' = IF V2 THEN 0 ELSE arenaTokens
        /\ document' = document
    BY DEF Unwind, At, Goto, memoryVars, callVars
  <1>4. CallTypeOK'
    BY <1>1, <1>3 DEF CallTypeOK, RequestOK, Stages
  <1>5. RequestOK'
    BY <1>1, <1>3 DEF CallTypeOK, RequestOK, Kinds
  <1>6. RequestHolds'
    BY <1>1, <1>2, <1>3 DEF CallTypeOK, RequestOK, RequestHolds, Held, Buffers, Kinds, Unwound,
       V2Request, Scratch
  <1>7. V2 => V2Holds'
    BY <1>1, <1>2, <1>3 DEF CallTypeOK, RequestOK, V2Holds, DecoderStages, Held, Buffers, Kinds,
       Unwound, V2Request, Scratch
  <1>8. ~V2 => V1Holds'
    BY <1>1, <1>2, <1>3 DEF CallTypeOK, RequestOK, RequestHolds, V1Holds, Held, Buffers, Kinds,
       Unwound, V2Request, Scratch
  <1> QED BY <1>2, <1>4, <1>5, <1>6, <1>7, <1>8 DEF IInv, Holds

LEMMA DocumentEndStep ==
  ASSUME IInv, DocumentEnd
  PROVE  IInv'
  <1>1. Accounted /\ CallTypeOK /\ RequestOK /\ RequestHolds
        /\ (V2 => V2Holds) /\ (~V2 => V1Holds)
    BY DEF IInv, Holds
  <1>2. /\ Accounted'
        /\ \A b \in Buffers : booked'[b] = IF b \in (V2Request \cup {"document"}) THEN Nothing
                                           ELSE booked[b]
    BY <1>1, FreeStep DEF DocumentEnd, Buffers, Kinds, V2Request, Scratch
  <1>3. /\ stage = "idle" /\ stage' = "idle" /\ document.open
        /\ request' = request /\ estimate' = estimate /\ ok' = ok
        /\ arenaTokens' = 0 /\ document' = NoDocument
    BY DEF DocumentEnd, At, Goto, memoryVars, callVars
  <1>4. CallTypeOK'
    BY <1>1, <1>3 DEF CallTypeOK, RequestOK, Stages, NoDocument
  <1>5. RequestOK'
    BY <1>1, <1>3 DEF CallTypeOK, RequestOK, Kinds, NoDocument
  <1>6. RequestHolds'
    BY <1>1, <1>2, <1>3 DEF CallTypeOK, RequestOK, RequestHolds, Held, Buffers, NoDocument,
       V2Request, Scratch
  <1>7. V2 => V2Holds'
    BY <1>1, <1>2, <1>3 DEF CallTypeOK, RequestOK, V2Holds, DecoderStages, Held, Buffers,
       V2Request, Scratch
  <1>8. ~V2 => V1Holds'
    BY <1>1, <1>2, <1>3 DEF CallTypeOK, RequestOK, RequestHolds, V1Holds, Held, Buffers,
       V2Request, Scratch
  <1> QED BY <1>2, <1>4, <1>5, <1>6, <1>7, <1>8 DEF IInv, Holds

LEMMA StartTextStep ==
  ASSUME IInv, NEW r \in Requests, StartText(r)
  PROVE  IInv'
  <1>1. Accounted /\ CallTypeOK /\ RequestOK /\ RequestHolds
        /\ (V2 => V2Holds) /\ (~V2 => V1Holds)
    BY DEF IInv, Holds
  <1>2. /\ r.kind \in Kinds /\ r.views \in Nat /\ r.tokens \in Nat \ {0} /\ r.new \in Nat
        /\ r.kind = "text" <=> r.views = 0
        /\ Subtotal(r) \in Nat
    BY SubtotalIsNat, MemoryConstants
  <1>3. /\ Accounted'
        /\ booked' = booked
    BY <1>1 DEF StartText, memoryVars, Accounted
  <1>4. /\ stage = "idle" /\ stage' = IF r.kind = "text" THEN "arenas" ELSE "output"
        /\ r.kind = "text"
        /\ request' \in [kind : Kinds, views : Nat, tokens : Nat, new : Nat, lookahead : {0, 1}]
        /\ request'.kind = r.kind /\ request'.views = r.views /\ request'.tokens = r.tokens
        /\ estimate' = Subtotal(r) /\ ok' = FALSE
        /\ arenaTokens' = arenaTokens /\ document' = document
    BY <1>1, <1>2 DEF StartText, At, Goto, memoryVars, callVars, Start
  <1>5. CallTypeOK'
    BY <1>1, <1>4, <1>2 DEF CallTypeOK, RequestOK, Stages
  <1>6. RequestOK'
    BY <1>1, <1>4, <1>2 DEF CallTypeOK, RequestOK, Kinds
  <1>7. RequestHolds'
    BY <1>1, <1>3, <1>4, <1>2 DEF CallTypeOK, RequestOK, RequestHolds, Held, Buffers
  <1>8. V2 => V2Holds'
    BY <1>1, <1>3, <1>4, <1>2 DEF CallTypeOK, RequestOK, V2Holds, DecoderStages, Held, Buffers
  <1>9. ~V2 => V1Holds'
    BY <1>1, <1>3, <1>4, <1>2 DEF CallTypeOK, RequestOK, RequestHolds, V1Holds, Held, Buffers
  <1> QED BY <1>3, <1>5, <1>6, <1>7, <1>8, <1>9 DEF IInv, Holds

LEMMA StartImageStep ==
  ASSUME IInv, NEW r \in Requests, StartImage(r)
  PROVE  IInv'
  <1>1. Accounted /\ CallTypeOK /\ RequestOK /\ RequestHolds
        /\ (V2 => V2Holds) /\ (~V2 => V1Holds)
    BY DEF IInv, Holds
  <1>2. /\ r.kind \in Kinds /\ r.views \in Nat /\ r.tokens \in Nat \ {0} /\ r.new \in Nat
        /\ r.kind = "text" <=> r.views = 0
        /\ Subtotal(r) \in Nat
    BY SubtotalIsNat, MemoryConstants
  <1>3. /\ Accounted'
        /\ \A b \in Buffers : booked'[b] = IF b \in {"arenas"} THEN Nothing ELSE booked[b]
    BY <1>1, FreeStep DEF StartImage, Buffers, Kinds
  <1>4. /\ stage = "idle" /\ stage' = IF r.kind = "text" THEN "arenas" ELSE "output"
        /\ r.kind \in {"image", "page"}
        /\ request' \in [kind : Kinds, views : Nat, tokens : Nat, new : Nat, lookahead : {0, 1}]
        /\ request'.kind = r.kind /\ request'.views = r.views /\ request'.tokens = r.tokens
        /\ estimate' = Subtotal(r) /\ ok' = FALSE
        /\ arenaTokens' = 0 /\ document' = document
    BY <1>1, <1>2 DEF StartImage, At, Goto, memoryVars, callVars, Start
  <1>5. CallTypeOK'
    BY <1>1, <1>4, <1>2 DEF CallTypeOK, RequestOK, Stages
  <1>6. RequestOK'
    BY <1>1, <1>4, <1>2 DEF CallTypeOK, RequestOK, Kinds
  <1>7. RequestHolds'
    BY <1>1, <1>3, <1>4, <1>2 DEF CallTypeOK, RequestOK, RequestHolds, Held, Buffers
  <1>8. V2 => V2Holds'
    BY <1>1, <1>3, <1>4, <1>2 DEF CallTypeOK, RequestOK, V2Holds, DecoderStages, Held, Buffers
  <1>9. ~V2 => V1Holds'
    BY <1>1, <1>3, <1>4, <1>2 DEF CallTypeOK, RequestOK, RequestHolds, V1Holds, Held, Buffers
  <1> QED BY <1>3, <1>5, <1>6, <1>7, <1>8, <1>9 DEF IInv, Holds

LEMMA StartWindowStep ==
  ASSUME IInv, NEW r \in Requests, StartWindow(r)
  PROVE  IInv'
  <1>1. Accounted /\ CallTypeOK /\ RequestOK /\ RequestHolds
        /\ (V2 => V2Holds) /\ (~V2 => V1Holds)
    BY DEF IInv, Holds
  <1>2. /\ r.kind \in Kinds /\ r.views \in Nat /\ r.tokens \in Nat \ {0} /\ r.new \in Nat
        /\ r.kind = "text" <=> r.views = 0
        /\ Subtotal(r) \in Nat
    BY SubtotalIsNat, MemoryConstants
  <1>3. /\ Accounted'
        /\ \A b \in Buffers : booked'[b] = IF b \in {"arenas"} THEN Nothing ELSE booked[b]
    BY <1>1, FreeStep DEF StartWindow, Buffers, Kinds
  <1>4. /\ stage = "idle" /\ stage' = IF r.kind = "text" THEN "arenas" ELSE "output"
        /\ r.kind = "window"
        /\ request' \in [kind : Kinds, views : Nat, tokens : Nat, new : Nat, lookahead : {0, 1}]
        /\ request'.kind = r.kind /\ request'.views = r.views /\ request'.tokens = r.tokens
        /\ estimate' = Subtotal(r) /\ ok' = FALSE
        /\ arenaTokens' = 0 /\ document' = document
    BY <1>1, <1>2 DEF StartWindow, At, Goto, memoryVars, callVars, Start
  <1>5. CallTypeOK'
    BY <1>1, <1>4, <1>2 DEF CallTypeOK, RequestOK, Stages
  <1>6. RequestOK'
    BY <1>1, <1>4, <1>2 DEF CallTypeOK, RequestOK, Kinds
  <1>7. RequestHolds'
    BY <1>1, <1>3, <1>4, <1>2 DEF CallTypeOK, RequestOK, RequestHolds, Held, Buffers
  <1>8. V2 => V2Holds'
    BY <1>1, <1>3, <1>4, <1>2 DEF CallTypeOK, RequestOK, V2Holds, DecoderStages, Held, Buffers
  <1>9. ~V2 => V1Holds'
    BY <1>1, <1>3, <1>4, <1>2 DEF CallTypeOK, RequestOK, RequestHolds, V1Holds, Held, Buffers
  <1> QED BY <1>3, <1>5, <1>6, <1>7, <1>8, <1>9 DEF IInv, Holds

LEMMA BookOutputStep ==
  ASSUME IInv, BookOutput
  PROVE  IInv'
  <1>1. Accounted /\ CallTypeOK /\ RequestOK /\ RequestHolds
        /\ (V2 => V2Holds) /\ (~V2 => V1Holds)
    BY DEF IInv, Holds
  <1>2. Only("transient", Output(request.new)) \in Amounts /\ booked["output"] = Nothing
    <2>1. Only("transient", Output(request.new)) \in Amounts
      BY <1>1, OnlyIsAmount, SizesAreNat DEF CallTypeOK, Categories
    <2>2. booked["output"] = Nothing
      BY <1>1 DEF BookOutput, At, RequestHolds, V2Holds, V1Holds, DecoderStages, Held,
         RequestOK, CallTypeOK, Kinds
    <2> QED BY <2>1, <2>2
  <1>3. /\ Accounted'
        /\ \A x \in Buffers : booked'[x] = IF x = "output" THEN Only("transient",
             Output(request.new)) ELSE booked[x]
    BY <1>2, <1>1, BookStep DEF BookOutput, Buffers
  <1>4. /\ stage = "output" /\ stage' = IF request.kind = "text" THEN "transient" ELSE "enter"
        /\ request' = request /\ estimate' = estimate /\ ok' = ok
        /\ arenaTokens' = arenaTokens /\ document' = document
    BY <1>1, <1>2 DEF BookOutput, At, Goto, memoryVars, callVars
  <1>5. CallTypeOK'
    BY <1>1, <1>4, <1>2 DEF CallTypeOK, RequestOK, Stages
  <1>6. RequestOK'
    BY <1>1, <1>4, <1>2 DEF CallTypeOK, RequestOK, Kinds
  <1>7. RequestHolds'
    BY <1>1, <1>3, <1>4, <1>2 DEF CallTypeOK, RequestOK, RequestHolds, Held, Buffers
  <1>8. V2 => V2Holds'
    BY <1>1, <1>3, <1>4, <1>2 DEF CallTypeOK, RequestOK, V2Holds, DecoderStages, Held, Buffers,
       Kinds
  <1>9. ~V2 => V1Holds'
    BY <1>1, <1>3, <1>4, <1>2 DEF CallTypeOK, RequestOK, RequestHolds, V1Holds, Held, Buffers
  <1> QED BY <1>3, <1>5, <1>6, <1>7, <1>8, <1>9 DEF IInv, Holds

LEMMA BookMetadataStep ==
  ASSUME IInv, BookMetadata
  PROVE  IInv'
  <1>1. Accounted /\ CallTypeOK /\ RequestOK /\ RequestHolds
        /\ (V2 => V2Holds) /\ (~V2 => V1Holds)
    BY DEF IInv, Holds
  <1>2. Only("transient", Metadata(Prompt + 1 + Fresh * PageTokens)) \in Amounts
       /\ booked["metadata"] = Nothing
    <2>1. Only("transient", Metadata(Prompt + 1 + Fresh * PageTokens)) \in Amounts
      <3>1. Fresh \in Nat /\ Prompt \in Nat
        BY <1>1, SizesAreDefined DEF BookMetadata, At, RequestOK
      <3>2. Prompt + 1 + Fresh * PageTokens \in Nat
        BY <3>1 DEF PageTokens, VisualTokens
      <3> QED BY <3>2, OnlyIsAmount, SizesAreNat DEF Categories
    <2>2. booked["metadata"] = Nothing
      BY <1>1 DEF BookMetadata, At, RequestHolds, V2Holds, V1Holds, DecoderStages, Held,
         RequestOK, CallTypeOK, Kinds
    <2> QED BY <2>1, <2>2
  <1>3. /\ Accounted'
        /\ \A x \in Buffers : booked'[x] = IF x = "metadata" THEN Only("transient",
             Metadata(Prompt + 1 + Fresh * PageTokens)) ELSE booked[x]
    BY <1>2, <1>1, BookStep DEF BookMetadata, Buffers
  <1>4. /\ stage = "metadata" /\ stage' \in {"dash", "vision"}
        /\ request' = request /\ estimate' = estimate /\ ok' = ok
        /\ arenaTokens' = arenaTokens /\ document' = document
    BY <1>1, <1>2 DEF BookMetadata, At, Goto, memoryVars, callVars
  <1>5. CallTypeOK'
    BY <1>1, <1>4, <1>2 DEF CallTypeOK, RequestOK, Stages, Kinds
  <1>6. RequestOK'
    BY <1>1, <1>4, <1>2 DEF CallTypeOK, RequestOK, Kinds
  <1>7. RequestHolds'
    BY <1>1, <1>3, <1>4, <1>2 DEF CallTypeOK, RequestOK, RequestHolds, Held, Buffers, Kinds
  <1>8. V2 => V2Holds'
    BY <1>1, <1>3, <1>4, <1>2 DEF CallTypeOK, RequestOK, V2Holds, DecoderStages, Held, Buffers,
       Kinds
  <1>9. ~V2 => V1Holds'
    BY <1>1, <1>3, <1>4, <1>2 DEF CallTypeOK, RequestOK, RequestHolds, V1Holds, Held, Buffers,
       Kinds
  <1> QED BY <1>3, <1>5, <1>6, <1>7, <1>8, <1>9 DEF IInv, Holds

LEMMA BookArenasStep ==
  ASSUME IInv, BookArenas
  PROVE  IInv'
  <1>1. Accounted /\ CallTypeOK /\ RequestOK /\ RequestHolds
        /\ (V2 => V2Holds) /\ (~V2 => V1Holds)
    BY DEF IInv, Holds
  <1>2. V2Arenas(arenaTokens) \in Amounts /\ booked["arenas"] = Nothing
    <2>1. V2Arenas(arenaTokens) \in Amounts
      BY <1>1, ArenasAreAmounts DEF CallTypeOK
    <2>2. booked["arenas"] = Nothing
      BY <1>1 DEF BookArenas, At, RequestHolds, V2Holds, V1Holds, DecoderStages, Held,
         RequestOK, CallTypeOK, Kinds
    <2> QED BY <2>1, <2>2
  <1>3. /\ Accounted'
        /\ \A x \in Buffers : booked'[x] = IF x = "arenas" THEN V2Arenas(arenaTokens)
             ELSE booked[x]
    BY <1>2, <1>1, BookStep DEF BookArenas, Buffers
  <1>4. /\ V2 /\ stage = "book" /\ stage' = "decode"
        /\ request' = request /\ estimate' = estimate /\ ok' = ok
        /\ arenaTokens' = arenaTokens /\ document' = document
    BY <1>1, <1>2 DEF BookArenas, At, Goto, memoryVars, callVars, RequestOK
  <1>5. CallTypeOK'
    BY <1>1, <1>4, <1>2 DEF CallTypeOK, RequestOK, Stages
  <1>6. RequestOK'
    BY <1>1, <1>4, <1>2 DEF CallTypeOK, RequestOK, Kinds
  <1>7. RequestHolds'
    BY <1>1, <1>3, <1>4, <1>2 DEF CallTypeOK, RequestOK, RequestHolds, Held, Buffers
  <1>8. V2 => V2Holds'
    BY <1>1, <1>3, <1>4, <1>2 DEF CallTypeOK, RequestOK, V2Holds, DecoderStages, Held, Buffers
  <1>9. ~V2 => V1Holds'
    BY <1>1, <1>3, <1>4, <1>2 DEF CallTypeOK, RequestOK, RequestHolds, V1Holds, Held, Buffers
  <1> QED BY <1>3, <1>5, <1>6, <1>7, <1>8, <1>9 DEF IInv, Holds

LEMMA EnsureVisionStep ==
  ASSUME IInv, EnsureVision
  PROVE  IInv'
  <1>1. Accounted /\ CallTypeOK /\ RequestOK /\ RequestHolds
        /\ (V2 => V2Holds) /\ (~V2 => V1Holds)
    BY DEF IInv, Holds
  <1>2. VisionWorkspace(Fresh) \in Nat
    <2>1. Fresh \in Nat
      BY <1>1, SizesAreDefined DEF EnsureVision, At, RequestOK, CallTypeOK, Kinds
    <2> QED BY <2>1, SizesAreNat
  <1>3. /\ Accounted'
        /\ \A x \in Buffers : x # "vision" => booked'[x] = booked[x]
    BY <1>2, <1>1, EnsureStep DEF EnsureVision, Buffers, Categories
  <1>4. /\ stage = "vision" /\ stage' = "final"
        /\ request' = request /\ estimate' = estimate /\ ok' = ok
        /\ arenaTokens' = arenaTokens /\ document' = document
    BY <1>1, <1>2 DEF EnsureVision, At, Goto, memoryVars, callVars
  <1>5. CallTypeOK'
    BY <1>1, <1>4, <1>2 DEF CallTypeOK, RequestOK, Stages
  <1>6. RequestOK'
    BY <1>1, <1>4, <1>2 DEF CallTypeOK, RequestOK, Kinds
  <1>7. RequestHolds'
    BY <1>1, <1>3, <1>4, <1>2 DEF CallTypeOK, RequestOK, RequestHolds, Held, Buffers
  <1>8. V2 => V2Holds'
    BY <1>1, <1>3, <1>4, <1>2 DEF CallTypeOK, RequestOK, V2Holds, DecoderStages, Held, Buffers
  <1>9. ~V2 => V1Holds'
    BY <1>1, <1>3, <1>4, <1>2 DEF CallTypeOK, RequestOK, RequestHolds, V1Holds, Held, Buffers,
       Kinds
  <1> QED BY <1>3, <1>5, <1>6, <1>7, <1>8, <1>9 DEF IInv, Holds

LEMMA EnsureFinalStep ==
  ASSUME IInv, EnsureFinal
  PROVE  IInv'
  <1>1. Accounted /\ CallTypeOK /\ RequestOK /\ RequestHolds
        /\ (V2 => V2Holds) /\ (~V2 => V1Holds)
    BY DEF IInv, Holds
  <1>2. VisionFinal(Fresh) \in Nat
    <2>1. Fresh \in Nat
      BY <1>1, SizesAreDefined DEF EnsureFinal, At, RequestOK, CallTypeOK, Kinds
    <2> QED BY <2>1, SizesAreNat
  <1>3. /\ Accounted'
        /\ \A x \in Buffers : x # "final" => booked'[x] = booked[x]
    BY <1>2, <1>1, EnsureStep DEF EnsureFinal, Buffers, Categories
  <1>4. /\ stage = "final" /\ stage' = "encode"
        /\ request' = request /\ estimate' = estimate /\ ok' = ok
        /\ arenaTokens' = arenaTokens /\ document' = document
    BY <1>1, <1>2 DEF EnsureFinal, At, Goto, memoryVars, callVars
  <1>5. CallTypeOK'
    BY <1>1, <1>4, <1>2 DEF CallTypeOK, RequestOK, Stages
  <1>6. RequestOK'
    BY <1>1, <1>4, <1>2 DEF CallTypeOK, RequestOK, Kinds
  <1>7. RequestHolds'
    BY <1>1, <1>3, <1>4, <1>2 DEF CallTypeOK, RequestOK, RequestHolds, Held, Buffers
  <1>8. V2 => V2Holds'
    BY <1>1, <1>3, <1>4, <1>2 DEF CallTypeOK, RequestOK, V2Holds, DecoderStages, Held, Buffers
  <1>9. ~V2 => V1Holds'
    BY <1>1, <1>3, <1>4, <1>2 DEF CallTypeOK, RequestOK, RequestHolds, V1Holds, Held, Buffers,
       Kinds
  <1> QED BY <1>3, <1>5, <1>6, <1>7, <1>8, <1>9 DEF IInv, Holds

LEMMA EnsureSelectionStep ==
  ASSUME IInv, EnsureSelection
  PROVE  IInv'
  <1>1. Accounted /\ CallTypeOK /\ RequestOK /\ RequestHolds
        /\ (V2 => V2Holds) /\ (~V2 => V1Holds)
    BY DEF IInv, Holds
  <1>2. SelectionScratch \in Nat
    BY DEF SelectionScratch
  <1>3. /\ Accounted'
        /\ \A x \in Buffers : x # "selection" => booked'[x] = booked[x]
    BY <1>2, <1>1, EnsureStep DEF EnsureSelection, Buffers, Categories
  <1>4. /\ stage = "selection" /\ stage' = "logits"
        /\ request' = request /\ estimate' = estimate /\ ok' = ok
        /\ arenaTokens' = arenaTokens /\ document' = document
    BY <1>1, <1>2 DEF EnsureSelection, At, Goto, memoryVars, callVars
  <1>5. CallTypeOK'
    BY <1>1, <1>4, <1>2 DEF CallTypeOK, RequestOK, Stages
  <1>6. RequestOK'
    BY <1>1, <1>4, <1>2 DEF CallTypeOK, RequestOK, Kinds
  <1>7. RequestHolds'
    BY <1>1, <1>3, <1>4, <1>2 DEF CallTypeOK, RequestOK, RequestHolds, Held, Buffers
  <1>8. V2 => V2Holds'
    BY <1>1, <1>3, <1>4, <1>2 DEF CallTypeOK, RequestOK, V2Holds, DecoderStages, Held, Buffers
  <1>9. ~V2 => V1Holds'
    BY <1>1, <1>3, <1>4, <1>2 DEF CallTypeOK, RequestOK, RequestHolds, V1Holds, Held, Buffers
  <1> QED BY <1>3, <1>5, <1>6, <1>7, <1>8, <1>9 DEF IInv, Holds

LEMMA EnsureLogitsStep ==
  ASSUME IInv, EnsureLogits
  PROVE  IInv'
  <1>1. Accounted /\ CallTypeOK /\ RequestOK /\ RequestHolds
        /\ (V2 => V2Holds) /\ (~V2 => V1Holds)
    BY DEF IInv, Holds
  <1>2. LogitsScratch \in Nat
    BY DEF LogitsScratch
  <1>3. /\ Accounted'
        /\ \A x \in Buffers : x # "logits" => booked'[x] = booked[x]
    BY <1>2, <1>1, EnsureStep DEF EnsureLogits, Buffers, Categories
  <1>4. /\ stage = "logits" /\ stage' = IF V2 THEN "book" ELSE "decode"
        /\ request' = request /\ estimate' = estimate /\ ok' = ok
        /\ arenaTokens' = arenaTokens /\ document' = document
    BY <1>1, <1>2 DEF EnsureLogits, At, Goto, memoryVars, callVars
  <1>5. CallTypeOK'
    BY <1>1, <1>4, <1>2 DEF CallTypeOK, RequestOK, Stages
  <1>6. RequestOK'
    BY <1>1, <1>4, <1>2 DEF CallTypeOK, RequestOK, Kinds
  <1>7. RequestHolds'
    BY <1>1, <1>3, <1>4, <1>2 DEF CallTypeOK, RequestOK, RequestHolds, Held, Buffers
  <1>8. V2 => V2Holds'
    BY <1>1, <1>3, <1>4, <1>2 DEF CallTypeOK, RequestOK, V2Holds, DecoderStages, Held, Buffers
  <1>9. ~V2 => V1Holds'
    BY <1>1, <1>3, <1>4, <1>2 DEF CallTypeOK, RequestOK, RequestHolds, V1Holds, Held, Buffers
  <1> QED BY <1>3, <1>5, <1>6, <1>7, <1>8, <1>9 DEF IInv, Holds

LEMMA GrowArenasStep ==
  ASSUME IInv, GrowArenas
  PROVE  IInv'
  <1>1. Accounted /\ CallTypeOK /\ RequestOK /\ RequestHolds
        /\ (V2 => V2Holds) /\ (~V2 => V1Holds)
    BY DEF IInv, Holds
  <1>2. V1Arenas(request.tokens) \in Amounts
    BY <1>1, ArenasAreAmounts DEF CallTypeOK
  <1>3. /\ Accounted'
        /\ \A x \in Buffers : booked'[x] = IF x = "arenas" THEN V1Arenas(request.tokens)
                                           ELSE IF x \in {"arenas"} THEN Nothing ELSE booked[x]
    <2>1. booked \in [Buffers -> Amounts] /\ "arenas" \in Buffers
      BY <1>1 DEF Accounted, Agrees, Buffers
    <2>2. BookedBy({"arenas"}) = booked["arenas"]
      BY <2>1, BookedByIsAmount, OneBooking
    <2>3. tracker' = Reserve(Release(tracker, BookedBy({"arenas"})), V1Arenas(request.tokens))
      BY <2>2 DEF GrowArenas
    <2>4. booked' = [x \in Buffers |-> IF x = "arenas" THEN V1Arenas(request.tokens)
                                        ELSE IF x \in {"arenas"} THEN Nothing ELSE booked[x]]
      BY <2>1 DEF GrowArenas
    <2> QED BY <1>2, <1>1, <2>1, <2>3, <2>4, SwapStep
  <1>4. /\ ~V2 /\ stage = "arenas" /\ stage' = AfterArenas
        /\ request' = request /\ estimate' = estimate /\ ok' = ok
        /\ arenaTokens' = request.tokens /\ document' = document
    BY <1>1, <1>2 DEF GrowArenas, At, Goto, memoryVars, callVars
  <1>5. CallTypeOK'
    BY <1>1, <1>4, <1>2 DEF CallTypeOK, RequestOK, Stages, AfterArenas
  <1>6. RequestOK'
    BY <1>1, <1>4, <1>2 DEF CallTypeOK, RequestOK, Kinds, AfterArenas
  <1>7. RequestHolds'
    BY <1>1, <1>3, <1>4, <1>2 DEF CallTypeOK, RequestOK, RequestHolds, Held, Buffers, AfterArenas
  <1>8. V2 => V2Holds'
    BY <1>1, <1>3, <1>4, <1>2 DEF CallTypeOK, RequestOK, V2Holds, DecoderStages, Held, Buffers,
       AfterArenas
  <1>9. ~V2 => V1Holds'
    BY <1>1, <1>3, <1>4, <1>2 DEF CallTypeOK, RequestOK, RequestHolds, V1Holds, Held, Buffers,
       AfterArenas
  <1> QED BY <1>3, <1>5, <1>6, <1>7, <1>8, <1>9 DEF IInv, Holds

LEMMA AllocateDashStep ==
  ASSUME IInv, AllocateDash
  PROVE  IInv'
  <1>1. Accounted /\ CallTypeOK /\ RequestOK /\ RequestHolds
        /\ (V2 => V2Holds) /\ (~V2 => V1Holds)
    BY DEF IInv, Holds
  <1>2. DashCache(Retained, Queries, Pages) \in Amounts /\ booked["dash"] = Nothing
    <2>1. Retained \in Nat /\ Queries \in Nat /\ Pages \in Nat
      BY <1>1, SizesAreDefined DEF AllocateDash, At, RequestOK, CallTypeOK, Kinds
    <2>2. booked["dash"] = Nothing
      BY DEF AllocateDash, Held
    <2> QED BY <2>1, <2>2, DashIsAmount
  <1>3. /\ Accounted'
        /\ \A x \in Buffers : booked'[x] = IF x = "dash" THEN DashCache(Retained, Queries, Pages)
                                           ELSE IF x \in {"transient", "selection",
                                                "logits"} THEN Nothing ELSE booked[x]
    BY <1>2, <1>1, SwapStep DEF AllocateDash, Buffers
  <1>4. /\ stage = "dash" /\ stage' = "arenas" /\ arenaTokens = 0
        /\ request' = request /\ estimate' = estimate /\ ok' = ok
        /\ arenaTokens' = arenaTokens /\ document' = document
    BY <1>1, <1>2 DEF AllocateDash, At, Goto, memoryVars, callVars
  <1>5. CallTypeOK'
    BY <1>1, <1>4, <1>2 DEF CallTypeOK, RequestOK, Stages
  <1>6. RequestOK'
    BY <1>1, <1>4, <1>2 DEF CallTypeOK, RequestOK, Kinds
  <1>7. RequestHolds'
    BY <1>1, <1>3, <1>4, <1>2 DEF CallTypeOK, RequestOK, RequestHolds, Held, Buffers
  <1>8. V2 => V2Holds'
    BY <1>1, <1>3, <1>4, <1>2 DEF CallTypeOK, RequestOK, V2Holds, DecoderStages, Held, Buffers
  <1>9. ~V2 => V1Holds'
    BY <1>1, <1>3, <1>4, <1>2 DEF CallTypeOK, RequestOK, RequestHolds, V1Holds, Held, Buffers
  <1> QED BY <1>3, <1>5, <1>6, <1>7, <1>8, <1>9 DEF IInv, Holds

LEMMA DocumentBeginStep ==
  ASSUME IInv, DocumentBegin
  PROVE  IInv'
  <1>1. Accounted /\ CallTypeOK /\ RequestOK /\ RequestHolds
        /\ (V2 => V2Holds) /\ (~V2 => V1Holds)
    BY DEF IInv, Holds
  <1>2. Only("kv_cache", DocumentBytes) \in Amounts /\ booked["document"] = Nothing
       /\ Only("kv_cache", DocumentBytes) # Nothing
    <2>1. Only("kv_cache", DocumentBytes) \in Amounts
      BY OnlyIsAmount DEF DocumentBytes, Categories
    <2>2. booked["document"] = Nothing
      BY <1>1 DEF DocumentBegin, RequestHolds, Held
    <2>3. Only("kv_cache", DocumentBytes)["kv_cache"] # Nothing["kv_cache"]
      BY DEF Only, Nothing, DocumentBytes, Categories
    <2> QED BY <2>1, <2>2, <2>3
  <1>3. /\ Accounted'
        /\ \A x \in Buffers : booked'[x] = IF x = "document" THEN Only("kv_cache", DocumentBytes)
                                           ELSE IF x \in V2Request THEN Nothing ELSE booked[x]
    BY <1>2, <1>1, SwapStep DEF DocumentBegin, Buffers, V2Request, Scratch
  <1>4. /\ V2 /\ stage = "idle" /\ stage' = "idle" /\ ~document.open
        /\ request' = request /\ estimate' = estimate /\ ok' = ok
        /\ arenaTokens' = 0
        /\ document' = [NoDocument EXCEPT !.open = TRUE]
    BY <1>1, <1>2 DEF DocumentBegin, At, Goto, memoryVars, callVars
  <1>5. CallTypeOK'
    BY <1>1, <1>4, <1>2 DEF CallTypeOK, RequestOK, Stages, NoDocument
  <1>6. RequestOK'
    BY <1>1, <1>4, <1>2 DEF CallTypeOK, RequestOK, Kinds, NoDocument
  <1>7. RequestHolds'
    BY <1>1, <1>3, <1>4, <1>2 DEF CallTypeOK, RequestOK, RequestHolds, Held, Buffers,
       NoDocument, V2Request, Scratch
  <1>8. V2 => V2Holds'
    BY <1>1, <1>3, <1>4, <1>2 DEF CallTypeOK, RequestOK, V2Holds, DecoderStages, Held, Buffers,
       V2Request, Scratch
  <1>9. ~V2 => V1Holds'
    BY <1>1, <1>3, <1>4, <1>2 DEF CallTypeOK, RequestOK, RequestHolds, V1Holds, Held, Buffers
  <1> QED BY <1>3, <1>5, <1>6, <1>7, <1>8, <1>9 DEF IInv, Holds

LEMMA AllocateArenasStep ==
  ASSUME IInv, AllocateArenas
  PROVE  IInv'
  <1>1. Accounted /\ CallTypeOK /\ RequestOK /\ RequestHolds
        /\ (V2 => V2Holds) /\ (~V2 => V1Holds)
    BY DEF IInv, Holds
  <1>2. Queries \in Nat \ {0}
    BY <1>1, SizesAreDefined DEF AllocateArenas, At, RequestOK, CallTypeOK, Kinds
  <1>3. /\ Accounted'
        /\ booked' = booked
    BY <1>1 DEF AllocateArenas, memoryVars, Accounted
  <1>4. /\ V2 /\ stage = "arenas" /\ stage' = "transient"
        /\ request' = request /\ estimate' = estimate /\ ok' = ok
        /\ arenaTokens' = Queries /\ document' = document
    BY <1>1, <1>2 DEF AllocateArenas, At, Goto, memoryVars, callVars
  <1>5. CallTypeOK'
    BY <1>1, <1>4, <1>2 DEF CallTypeOK, RequestOK, Stages
  <1>6. RequestOK'
    BY <1>1, <1>4, <1>2 DEF CallTypeOK, RequestOK, Kinds
  <1>7. RequestHolds'
    BY <1>1, <1>3, <1>4, <1>2 DEF CallTypeOK, RequestOK, RequestHolds, Held, Buffers
  <1>8. V2 => V2Holds'
    BY <1>1, <1>3, <1>4, <1>2 DEF CallTypeOK, RequestOK, V2Holds, DecoderStages, Held, Buffers
  <1>9. ~V2 => V1Holds'
    BY <1>1, <1>3, <1>4, <1>2 DEF CallTypeOK, RequestOK, RequestHolds, V1Holds, Held, Buffers
  <1> QED BY <1>3, <1>5, <1>6, <1>7, <1>8, <1>9 DEF IInv, Holds

LEMMA EnsureTransientStep ==
  ASSUME IInv, EnsureTransient
  PROVE  IInv'
  <1>1. Accounted /\ CallTypeOK /\ RequestOK /\ RequestHolds
        /\ (V2 => V2Holds) /\ (~V2 => V1Holds)
    BY DEF IInv, Holds
  <1>2. /\ Accounted'
        /\ \A x \in Buffers : x # "transient" => booked'[x] = booked[x]
    <2> DEFINE least == PrefillScratch(IF V2 THEN Queries ELSE request.tokens)
               bytes == Capacity(booked["transient"]["transient"], least)
    <2>1. booked["transient"]["transient"] \in Nat
      BY <1>1 DEF Accounted, Agrees, Amounts, Buffers, Categories
    <2>2. least \in Nat
      <3>1. CASE V2
        BY <1>1, <3>1, SizesAreDefined, SizesAreNat
           DEF EnsureTransient, At, RequestOK, CallTypeOK, Kinds
      <3>2. CASE ~V2
        BY <1>1, <3>2, SizesAreNat DEF CallTypeOK
      <3> QED BY <3>1, <3>2
    <2>3. Ensure("transient", "transient", least, bytes)
      BY DEF EnsureTransient
    <2> HIDE DEF least
    <2>4. bytes \in Nat
      BY <2>1, <2>2, CapacityIsNat
    <2> HIDE DEF bytes
    <2> QED BY <1>1, <2>3, <2>4, EnsureStep DEF Buffers, Categories
  <1>3. /\ stage = "transient" /\ stage' = IF V2 THEN "selection" ELSE "prefill"
        /\ request' = request /\ estimate' = estimate /\ ok' = ok
        /\ arenaTokens' = arenaTokens /\ document' = document
    BY DEF EnsureTransient, At, Goto, memoryVars, callVars
  <1>4. CallTypeOK'
    BY <1>1, <1>3 DEF CallTypeOK, RequestOK, Stages
  <1>5. RequestOK'
    BY <1>1, <1>3 DEF CallTypeOK, RequestOK, Kinds
  <1>6. RequestHolds'
    BY <1>1, <1>2, <1>3 DEF CallTypeOK, RequestOK, RequestHolds, Held, Buffers
  <1>7. V2 => V2Holds'
    BY <1>1, <1>2, <1>3 DEF CallTypeOK, RequestOK, V2Holds, DecoderStages, Held, Buffers
  <1>8. ~V2 => V1Holds'
    BY <1>1, <1>2, <1>3 DEF CallTypeOK, RequestOK, RequestHolds, V1Holds, Held, Buffers
  <1> QED BY <1>2, <1>4, <1>5, <1>6, <1>7, <1>8 DEF IInv, Holds

LEMMA DecodeStep ==
  ASSUME IInv, Decode
  PROVE  IInv'
  <1>1. Accounted /\ CallTypeOK /\ RequestOK /\ RequestHolds
        /\ (V2 => V2Holds) /\ (~V2 => V1Holds)
    BY DEF IInv, Holds
  <1>2. /\ Accounted'
        /\ booked' = booked
    BY <1>1 DEF Decode, memoryVars, Accounted
  <1>3. /\ stage = "decode" /\ stage' = "unwind" /\ ok' = TRUE
        /\ request' = request /\ estimate' = estimate /\ arenaTokens' = arenaTokens
        /\ document' \in [open : BOOLEAN, finished : BOOLEAN,
                         prefix : TailRows \cup {0}, text : TextRows \cup {0}]
        /\ document'.open = document.open
    BY <1>1 DEF Decode, At, Goto, memoryVars, callVars, CallTypeOK
  <1>4. CallTypeOK'
    BY <1>1, <1>3 DEF CallTypeOK, RequestOK, Stages
  <1>5. RequestOK'
    BY <1>1, <1>3 DEF CallTypeOK, RequestOK, Kinds
  <1>6. RequestHolds'
    BY <1>1, <1>2, <1>3 DEF CallTypeOK, RequestOK, RequestHolds, Held, Buffers
  <1>7. V2 => V2Holds'
    BY <1>1, <1>2, <1>3 DEF CallTypeOK, RequestOK, V2Holds, DecoderStages, Held, Buffers
  <1>8. ~V2 => V1Holds'
    BY <1>1, <1>2, <1>3 DEF CallTypeOK, RequestOK, RequestHolds, V1Holds, Held, Buffers
  <1> QED BY <1>2, <1>4, <1>5, <1>6, <1>7, <1>8 DEF IInv, Holds

LEMMA ReturnStep ==
  ASSUME IInv, Return
  PROVE  IInv'
  <1>1. Accounted /\ CallTypeOK /\ RequestOK /\ RequestHolds
        /\ (V2 => V2Holds) /\ (~V2 => V1Holds)
    BY DEF IInv, Holds
  <1>2. /\ Accounted'
        /\ \/ /\ document' = document
              /\ \A b \in Buffers :
                   booked'[b] = IF b \in {"output"} THEN Nothing ELSE booked[b]
           \/ /\ document' = NoDocument /\ request.kind = "window"
              /\ \A b \in Buffers :
                   booked'[b] = IF b \in (V2Request \cup {"output",
                        "document"}) THEN Nothing ELSE booked[b]
    <2>1. PICK delivered \in BOOLEAN :
            IF request.kind = "window" /\ ~delivered
            THEN Free(V2Request \cup {"output", "document"}) /\ document' = NoDocument
            ELSE Free({"output"}) /\ document' = document
      BY DEF Return
    <2>2. CASE request.kind = "window" /\ ~delivered
      BY <1>1, <2>1, <2>2, FreeStep DEF V2Request, Scratch, Buffers
    <2>3. CASE ~(request.kind = "window" /\ ~delivered)
      BY <1>1, <2>1, <2>3, FreeStep DEF Buffers
    <2> QED BY <2>2, <2>3
  <1>3. /\ stage = "result" /\ stage' = "idle" /\ request' = NoRequest /\ ok' = FALSE
        /\ estimate' = estimate /\ arenaTokens' = arenaTokens
        /\ document' \in {document, NoDocument}
    BY DEF Return, At, Goto, memoryVars, callVars
  <1>4. CallTypeOK'
    <2>1. NoDocument \in [open : BOOLEAN, finished : BOOLEAN,
                         prefix : TailRows \cup {0}, text : TextRows \cup {0}]
      BY DEF NoDocument
    <2>2. NoRequest \in [kind : Kinds \cup {"none"}, views : Nat, tokens : Nat, new : Nat,
                        lookahead : {0, 1}]
      BY DEF NoRequest
    <2> QED BY <1>1, <1>3, <2>1, <2>2 DEF CallTypeOK, Stages
  <1>5. RequestOK'
    BY <1>1, <1>3 DEF CallTypeOK, RequestOK, Kinds, NoDocument, NoRequest
  <1>6. RequestHolds'
    BY <1>1, <1>2, <1>3 DEF CallTypeOK, RequestOK, RequestHolds, Held, Buffers, NoDocument,
       NoRequest, V2Request, Scratch
  <1>7. V2 => V2Holds'
    BY <1>1, <1>2, <1>3 DEF CallTypeOK, RequestOK, V2Holds, DecoderStages, Held, Buffers,
       V2Request, Scratch
  <1>8. ~V2 => V1Holds'
    BY <1>1, <1>2, <1>3 DEF CallTypeOK, RequestOK, RequestHolds, V1Holds, Held, Buffers,
       V2Request, Scratch, NoRequest, Kinds
  <1> QED BY <1>2, <1>4, <1>5, <1>6, <1>7, <1>8 DEF IInv, Holds

LEMMA StutterStep ==
  ASSUME IInv, UNCHANGED vars
  PROVE  IInv'
  <1> USE DEF vars, callVars, memoryVars
  <1>1. Accounted' /\ CallTypeOK' /\ RequestOK'
    BY DEF IInv, Accounted, CallTypeOK, RequestOK
  <1>2. RequestHolds' /\ (V2 => V2Holds') /\ (~V2 => V1Holds')
    BY DEF IInv, Holds, RequestHolds, V2Holds, V1Holds, Held
  <1> QED BY <1>1, <1>2 DEF IInv, Holds

LEMMA NextStep ==
  ASSUME IInv, [Next]_vars
  PROVE  IInv'
  BY StartTextStep, StartImageStep, StartWindowStep, KeepArenasStep, GrowArenasStep,
     ArenasFailStep, BookOutputStep, OutputFailsStep, EnterImageStep, BookMetadataStep,
     MetadataFailsStep, EnsureVisionStep, EnsureFinalStep, EncodeVisionStep,
     VisionStepFailsStep, DropVisionStep, AllocateDashStep, AllocateArenasStep,
     BookArenasStep, PrepareStepFailsStep, DropPreparedStep, EnsureTransientStep, PrefillStep,
     EnsureSelectionStep, EnsureLogitsStep, DecodeStep, DecoderStepFailsStep, UnwindStep,
     ReturnStep, DocumentBeginStep, DocumentEndStep, StutterStep
     DEF Next

\* A new engine holds its mapped model.
LEMMA InitHolds == Init => IInv
  <1> SUFFICES ASSUME Init PROVE IInv
    OBVIOUS
  <1> DEFINE mapped == Only("model_views", ModelBytes)
             none   == [b \in Buffers |-> Nothing]
  <1>1. mapped \in Amounts
    BY OnlyIsAmount, MemoryConstants DEF Categories
  <1>2. none \in [Buffers -> Amounts]
    BY NothingIsAmount
  <1>3. InitTracker.live = AmountOf(none, Buffers) /\ SumOf(Nothing) = 0
    BY DEF InitTracker, AmountOf, Part, Nothing, Buffers, SumOf, Categories
  <1>4. Agrees(InitTracker, none)
    BY <1>2, <1>3, NothingIsAmount DEF Agrees, InitTracker
  <1>5. booked = [none EXCEPT !["model"] = mapped] /\ none["model"] = Nothing
    BY DEF Init, Buffers
  <1> HIDE DEF mapped, none
  <1>6. Accounted
    BY <1>1, <1>4, <1>5, BookAgrees DEF Init, Accounted, Buffers, mapped
  <1>7. \A b \in Buffers \ {"model"} : ~Held(b)
    BY DEF Init, Held
  <1>8. CallTypeOK /\ RequestOK
    BY DEF Init, CallTypeOK, RequestOK, Stages, NoRequest, NoDocument
  <1>9. booked["arenas"] = Nothing
    BY <1>7 DEF Held, Buffers
  <1>10. RequestHolds /\ V2Holds /\ V1Holds
    BY <1>7, <1>9 DEF Init, RequestHolds, V2Holds, V1Holds, NoRequest, NoDocument, Buffers
  <1> QED BY <1>6, <1>8, <1>10 DEF IInv, Holds

-----------------------------------------------------------------------------
(* The theorems.                                                           *)

\* The inductive invariant holds of every engine: the tracker agrees with the
\* buffers, and which buffers may be held follows from the stage of the call.
THEOREM InvariantHolds == Spec => []IInv
  <1>1. IInv /\ [Next]_vars => IInv'
    BY NextStep
  <1> QED BY <1>1, InitHolds, PTL DEF Spec

\* The states of an engine: every variable stays within its type.
THEOREM TypesHold == Spec => []MemoryTypeOK
  <1>1. IInv => MemoryTypeOK
    BY DEF IInv, Accounted, Agrees, CallTypeOK, MemoryTypeOK
  <1> QED BY <1>1, InvariantHolds, PTL

\* The byte tracker agrees with the buffers on every path of every request,
\* so that no release of uocr_memory_release is ever refused.
THEOREM TrackerIsExact == Spec => []TrackerAgrees
  <1>1. IInv => TrackerAgrees
    BY BookedByIsAmount DEF IInv, Accounted, Agrees, TrackerAgrees
  <1> QED BY <1>1, InvariantHolds, PTL

\* Between calls only what an engine means to keep is live, whichever way the
\* last request ended.
THEOREM NothingIsLeftBehind == Spec => []IdleFootprint
  <1>1. IInv => IdleFootprint
    <2> SUFFICES ASSUME IInv, stage = "idle" PROVE IdleFootprint
      BY DEF IdleFootprint
    <2>1. request.kind = "none" /\ RequestHolds /\ (V2 => V2Holds) /\ (~V2 => V1Holds)
      BY DEF IInv, RequestOK, Holds
    <2>2. ~Held("output") /\ ~Held("metadata") /\ (Held("document") <=> document.open)
      BY <2>1 DEF RequestHolds
    <2>3. ~Held("vision") /\ ~Held("final") /\ ~Held("dash")
      BY <2>1 DEF V1Holds, V2Holds, DecoderStages
    <2>4. V2 => /\ ~Held("arenas") /\ ~Held("transient") /\ ~Held("selection") /\ ~Held("logits")
               /\ arenaTokens = 0
      BY <2>1 DEF V2Holds, DecoderStages, IInv, CallTypeOK
    <2>5. ~V2 => ~document.open
      BY DEF IInv, RequestOK
    <2> QED BY <2>2, <2>3, <2>4, <2>5 DEF IdleFootprint, Buffers
  <1> QED BY <1>1, InvariantHolds, PTL

\* The vision workspace and the decoder's memory never exist together.
THEOREM PhasesAreDisjoint == Spec => []VisionBeforeDecoder
  <1>1. IInv => VisionBeforeDecoder
    <2> SUFFICES ASSUME IInv, Held("vision")
                 PROVE  arenaTokens = 0 /\ ~Held("arenas") /\ ~Held("dash")
      BY DEF VisionBeforeDecoder
    <2>1. CASE V2
      BY <2>1 DEF IInv, Holds, V2Holds, DecoderStages, CallTypeOK
    <2>2. CASE ~V2
      BY <2>2 DEF IInv, Holds, V1Holds, CallTypeOK, Held
    <2> QED BY <2>1, <2>2
  <1> QED BY <1>1, InvariantHolds, PTL

\* The context's arenas and the engine's booking describe the same thing.
THEOREM ArenasAreBooked == Spec => []ArenasBooked
  <1>1. IInv => ArenasBooked
    BY DEF IInv, Holds, V1Holds, V2Holds, ArenasBooked
  <1> QED BY <1>1, InvariantHolds, PTL

-----------------------------------------------------------------------------
(* The estimate of a v2 engine.  What is live is bounded buffer by buffer, *)
(* by what admission expected of each; a phase's buffers are then within   *)
(* the phase's share of the estimate, and the phases are disjoint.         *)

\* A window may be rewritten to a retained tail: admission allows for the rows
\* that are longer than its prompt.
Extra(r)       == IF r.kind = "window" THEN ExtraRows ELSE 0
MostQueries(r) == r.tokens + Extra(r)
MostRows(r)    == r.tokens + r.new + Extra(r)
MostPages(r)   == r.views + (IF r.kind = "window" THEN 2 ELSE 1)

\* What admission expects of each buffer that request r takes.
Expected(r, b) ==
  CASE b = "output"    -> HalfUp(r.new)
    [] b = "metadata"  -> Metadata(2 * MostQueries(r))
    [] b = "vision"    -> VisionWorkspace(r.views)
    [] b = "final"     -> VisionFinal(r.views)
    [] b = "dash"      -> SumOf(DashCache(MostRows(r), MostQueries(r), MostPages(r)))
    [] b = "arenas"    -> SumOf(V2Arenas(MostQueries(r)))
    [] b = "transient" -> Transient(MostQueries(r))
    [] b = "selection" -> SelectionScratch
    [] b = "logits"    -> LogitsScratch

OfRequest == Buffers \ {"model", "document"}

\* The model and an open document are booked with their sizes.
KeptSizes ==
  /\ SumOf(booked["model"]) = ModelBytes
  /\ SumOf(booked["document"]) <= DocumentBytes

\* What admission saw of the request still describes it.
AdmittedAs ==
  stage # "idle" =>
    /\ request.kind \in {"page", "window"}
    /\ request.tokens >= 1 + PageTokens * request.views
    /\ document.open <=> request.kind = "window"
    /\ estimate = V2Subtotal(ModelBytes, request, request.kind = "window")

\* No buffer exceeds what admission expected of it.
WithinExpected ==
  stage # "idle" =>
    /\ \A b \in OfRequest : SumOf(booked[b]) <= Expected(request, b)
    /\ arenaTokens <= MostQueries(request)

\* The decoder takes its scratch in one order, and none twice.
ScratchInOrder ==
  /\ Held("transient") => stage \notin {"arenas", "transient"}
  /\ Held("selection") => stage \notin {"arenas", "transient", "selection"}
  /\ Held("logits") => stage \notin {"arenas", "transient", "selection", "logits"}

SizesOK == KeptSizes /\ AdmittedAs /\ WithinExpected /\ ScratchInOrder

-----------------------------------------------------------------------------
(* More of a request takes more memory.                                    *)

LEMMA SumOfOnly ==
  ASSUME NEW c \in Categories, NEW n \in Nat
  PROVE  SumOf(Only(c, n)) = n
  BY DEF SumOf, Only, Nothing, Categories

LEMMA SumOfNothing == SumOf(Nothing) = 0
  BY DEF SumOf, Nothing, Categories

LEMMA DashGrows ==
  ASSUME NEW t \in Nat, NEW q \in Nat, NEW p \in Nat,
         NEW tt \in Nat, NEW qq \in Nat, NEW pp \in Nat, t <= tt, q <= qq, p <= pp
  PROVE  SumOf(DashCache(t, q, p)) <= SumOf(DashCache(tt, qq, pp))
  <1>1. ASSUME NEW x \in Nat, NEW y \in Nat, NEW z \in Nat
        PROVE  SumOf(DashCache(x, y, z))
                 = 4033 * x + 385 * ((x + 31) \div 32) + z + 600 + 342 * y + 832
    <2> DEFINE kv == 4033 * x + 385 * ((x + 31) \div 32) + z + 600
               de == 342 * y + 832
    <2>1. kv \in Nat /\ de \in Nat
      OBVIOUS
    <2>2. DashCache(x, y, z) = [Nothing EXCEPT !["kv_cache"] = kv, !["decoder"] = de]
      BY DEF DashCache
    <2> HIDE DEF kv, de
    <2>3. SumOf(DashCache(x, y, z)) = kv + de
      BY <2>1, <2>2 DEF SumOf, Nothing, Categories
    <2> QED BY <2>3 DEF kv, de
  <1>2. (t + 31) \div 32 <= (tt + 31) \div 32
    OBVIOUS
  <1>3. (t + 31) \div 32 \in Nat /\ (tt + 31) \div 32 \in Nat
    OBVIOUS
  <1>4. PICK m \in Nat, mm \in Nat : m = (t + 31) \div 32 /\ mm = (tt + 31) \div 32
    BY <1>3
  <1> QED BY <1>1, <1>2, <1>4

LEMMA ArenasGrow ==
  ASSUME NEW n \in Nat, NEW nn \in Nat, n <= nn
  PROVE  SumOf(V2Arenas(n)) <= SumOf(V2Arenas(nn))
  <1>1. ASSUME NEW x \in Nat
        PROVE  SumOf(V2Arenas(x)) = 160 * x + QuarterUp(x) + 800 * x + 915 * x + 1
    <2> DEFINE pe == 160 * x + QuarterUp(x)
    <2>1. pe \in Nat
      BY DEF QuarterUp
    <2>2. V2Arenas(x) = [Nothing EXCEPT !["prompt_embeddings"] = pe, !["decoder"] = 800 * x,
                                        !["moe"] = 915 * x, !["logits"] = 1]
      BY DEF V2Arenas
    <2> HIDE DEF pe
    <2>3. SumOf(V2Arenas(x)) = pe + 800 * x + 915 * x + 1
      BY <2>1, <2>2 DEF SumOf, Nothing, Categories
    <2> QED BY <2>3 DEF pe
  <1>2. QuarterUp(n) <= QuarterUp(nn) /\ QuarterUp(n) \in Nat /\ QuarterUp(nn) \in Nat
    BY DEF QuarterUp
  <1> QED BY <1>1, <1>2

LEMMA CapacityGrows ==
  ASSUME NEW m \in Nat, NEW n \in Nat, m <= n
  PROVE  Capacity(0, m) <= Capacity(0, n)
  <1> DEFINE large(x) == {s \in ScratchSizes : s >= 0 /\ s >= x}
  <1>1. ScratchSizes \subseteq Nat
    BY DEF ScratchSizes
  <1>2. large(n) \subseteq large(m)
    <2> SUFFICES ASSUME NEW s \in ScratchSizes, s >= n PROVE s >= m
      OBVIOUS
    <2> QED BY <1>1
  <1>3. ASSUME NEW x \in Nat, large(x) = {}
        PROVE  Capacity(0, x) = x
    BY <1>3 DEF Capacity
  <1>4. ASSUME NEW x \in Nat, large(x) # {}
        PROVE  /\ Capacity(0, x) \in large(x)
               /\ \A s \in large(x) : Capacity(0, x) <= s
    <2> DEFINE sizes == large(x)
    <2>1. sizes = {s \in ScratchSizes : s >= 0 /\ s >= x} /\ sizes # {}
      BY <1>4
    <2> HIDE DEF sizes
    <2>2. /\ Capacity(0, x) \in sizes
          /\ \A s \in sizes : Capacity(0, x) <= s
      BY <2>1, CapacityIsLeast
    <2> QED BY <2>2 DEF sizes
  <1>5. CASE large(m) = {}
    <2>1. Capacity(0, m) = m /\ Capacity(0, n) = n
      BY <1>2, <1>3, <1>5
    <2> QED BY <2>1
  <1>6. CASE large(m) # {} /\ large(n) = {}
    <2>1. Capacity(0, n) = n /\ Capacity(0, m) \in large(m)
      BY <1>3, <1>4, <1>6
    <2>2. Capacity(0, m) \in Nat /\ ~(Capacity(0, m) >= n)
      BY <1>1, <1>6, <2>1
    <2> QED BY <2>1, <2>2
  <1>7. CASE large(m) # {} /\ large(n) # {}
    <2>1. Capacity(0, n) \in large(m)
      BY <1>2, <1>4, <1>7
    <2> QED BY <1>4, <1>7, <2>1
  <1> QED BY <1>5, <1>6, <1>7

LEMMA ScratchGrows ==
  ASSUME NEW m \in Nat, NEW n \in Nat, m <= n, m > 1
  PROVE  Capacity(0, PrefillScratch(m)) <= Transient(n)
  <1>1. PrefillScratch(m) \in Nat /\ PrefillScratch(n) \in Nat
    BY SizesAreNat
  <1>2. PrefillScratch(m) <= PrefillScratch(n)
    BY DEF PrefillScratch, HalfUp
  <1>3. Transient(n) = Capacity(0, PrefillScratch(n))
    BY DEF Transient
  <1> QED BY <1>1, <1>2, <1>3, CapacityGrows

LEMMA VisionGrows ==
  ASSUME NEW m \in Nat, NEW n \in Nat, m <= n
  PROVE  /\ VisionWorkspace(m) <= VisionWorkspace(n)
         /\ VisionFinal(m) <= VisionFinal(n)
  <1>1. VisionWorkspace(m) <= VisionWorkspace(n)
    BY DEF VisionWorkspace
  <1>2. VisionFinal(m) <= VisionFinal(n)
    BY DEF VisionFinal, Largest, VisualTokens
  <1> QED BY <1>1, <1>2

\* The total is the sum of what the buffers are booked with.
LEMMA TotalOfBuffers ==
  ASSUME NEW k \in [Buffers -> Amounts]
  PROVE  SumOf(AmountOf(k, Buffers))
           = SumOf(k["model"]) + SumOf(k["document"]) + SumOf(k["output"])
             + SumOf(k["metadata"]) + SumOf(k["vision"]) + SumOf(k["final"])
             + SumOf(k["dash"]) + SumOf(k["arenas"]) + SumOf(k["transient"])
             + SumOf(k["selection"]) + SumOf(k["logits"])
  <1>1. \A b \in Buffers, c \in Categories : k[b][c] \in Nat
    BY DEF Amounts
  <1>2. ASSUME NEW c \in Categories
        PROVE  AmountOf(k, Buffers)[c]
                 = k["model"][c] + k["document"][c] + k["output"][c] + k["metadata"][c]
                   + k["vision"][c] + k["final"][c] + k["dash"][c] + k["arenas"][c]
                   + k["transient"][c] + k["selection"][c] + k["logits"][c]
    BY <1>1 DEF AmountOf, Part, Buffers
  <1> DEFINE Sums(f, g, h) == SumOf(f) = SumOf(g) + SumOf(h)
             two   == Plus(k["model"], k["document"])
             three == Plus(two, k["output"])
             four  == Plus(three, k["metadata"])
             five  == Plus(four, k["vision"])
             six   == Plus(five, k["final"])
             seven == Plus(six, k["dash"])
             eight == Plus(seven, k["arenas"])
             nine  == Plus(eight, k["transient"])
             ten   == Plus(nine, k["selection"])
             whole == Plus(ten, k["logits"])
  <1>3. \A b \in Buffers : k[b] \in Amounts /\ SumOf(k[b]) \in Nat
    BY SumIsNat
  <1>4. /\ two \in Amounts   /\ Sums(two, k["model"], k["document"])
        /\ three \in Amounts /\ Sums(three, two, k["output"])
        /\ four \in Amounts  /\ Sums(four, three, k["metadata"])
        /\ five \in Amounts  /\ Sums(five, four, k["vision"])
        /\ six \in Amounts   /\ Sums(six, five, k["final"])
        /\ seven \in Amounts /\ Sums(seven, six, k["dash"])
        /\ eight \in Amounts /\ Sums(eight, seven, k["arenas"])
        /\ nine \in Amounts  /\ Sums(nine, eight, k["transient"])
        /\ ten \in Amounts   /\ Sums(ten, nine, k["selection"])
        /\ whole \in Amounts /\ Sums(whole, ten, k["logits"])
    <2> HIDE DEF two, three, four, five, six, seven, eight, nine, ten, whole
    <2>1. two \in Amounts /\ Sums(two, k["model"], k["document"])
      BY <1>3, SumOfPlus DEF two, Buffers
    <2>2. three \in Amounts /\ Sums(three, two, k["output"])
      BY <1>3, <2>1, SumOfPlus DEF three, Buffers
    <2>3. four \in Amounts /\ Sums(four, three, k["metadata"])
      BY <1>3, <2>2, SumOfPlus DEF four, Buffers
    <2>4. five \in Amounts /\ Sums(five, four, k["vision"])
      BY <1>3, <2>3, SumOfPlus DEF five, Buffers
    <2>5. six \in Amounts /\ Sums(six, five, k["final"])
      BY <1>3, <2>4, SumOfPlus DEF six, Buffers
    <2>6. seven \in Amounts /\ Sums(seven, six, k["dash"])
      BY <1>3, <2>5, SumOfPlus DEF seven, Buffers
    <2>7. eight \in Amounts /\ Sums(eight, seven, k["arenas"])
      BY <1>3, <2>6, SumOfPlus DEF eight, Buffers
    <2>8. nine \in Amounts /\ Sums(nine, eight, k["transient"])
      BY <1>3, <2>7, SumOfPlus DEF nine, Buffers
    <2>9. ten \in Amounts /\ Sums(ten, nine, k["selection"])
      BY <1>3, <2>8, SumOfPlus DEF ten, Buffers
    <2>10. whole \in Amounts /\ Sums(whole, ten, k["logits"])
      BY <1>3, <2>9, SumOfPlus DEF whole, Buffers
    <2> QED BY <2>1, <2>2, <2>3, <2>4, <2>5, <2>6, <2>7, <2>8, <2>9, <2>10
  <1>5. AmountOf(k, Buffers) = whole
    <2>1. \A c \in Categories : AmountOf(k, Buffers)[c] = whole[c]
      BY <1>2 DEF Plus
    <2> QED BY <2>1, <1>4, AmountIsAmount DEF Amounts
  <1> HIDE DEF two, three, four, five, six, seven, eight, nine, ten, whole
  <1> QED BY <1>3, <1>4, <1>5 DEF Buffers

-----------------------------------------------------------------------------
(* What a request takes is within what admission expected.                 *)

\* A tail is a marker, at least 128 rows to a block's end and the lookahead.
LEMMA RetainedLengths ==
  /\ \A n \in TailRows : n \in Nat /\ n >= 1 /\ n <= 434
  /\ \A n \in TextRows \cup {0} : n \in Nat /\ n <= 128
  <1>1. TailRows \subseteq (1 + 128 + 274)..(1 + 128 + 31 + 274) /\ TextRows \subseteq 0..128
    BY MemoryConstants DEF PageTokens, VisualTokens
  <1> QED BY <1>1

LEMMA RequestWithinAdmission ==
  ASSUME V2, CallTypeOK, RequestOK, AdmittedAs, stage # "idle"
  PROVE  /\ Fresh \in Nat /\ request.views \in Nat /\ Fresh <= request.views
         /\ Queries \in Nat \ {0} /\ MostQueries(request) \in Nat /\ Queries <= MostQueries(request)
         /\ Retained \in Nat /\ MostRows(request) \in Nat /\ Retained <= MostRows(request)
         /\ Pages \in Nat /\ MostPages(request) \in Nat /\ Pages <= MostPages(request)
         /\ Prompt + 1 + Fresh * PageTokens \in Nat
         /\ Prompt + 1 + Fresh * PageTokens <= 2 * MostQueries(request)
  <1>1. /\ request.views \in Nat \ {0} /\ request.tokens \in Nat \ {0} /\ request.new \in Nat
        /\ request.tokens >= 1 + 274 * request.views
    BY DEF CallTypeOK, RequestOK, AdmittedAs, Kinds, PageTokens, VisualTokens
  <1>2. /\ Fresh \in Nat /\ Prompt \in Nat /\ Retained \in Nat /\ Pages \in Nat
        /\ Queries \in Nat \ {0}
    BY SizesAreDefined DEF RequestOK, CallTypeOK, Kinds
  <1>3. /\ MostQueries(request) = request.tokens + Extra(request)
        /\ MostRows(request) = request.tokens + request.new + Extra(request)
        /\ MostPages(request) = request.views + (IF request.kind = "window" THEN 2 ELSE 1)
        /\ Extra(request) = IF request.kind = "window" THEN 290 ELSE 0
    BY DEF MostQueries, MostRows, MostPages, Extra, ExtraRows
  <1>4. CASE Reuses
    <2>1. /\ request.kind = "window"
          /\ document.prefix \in TailRows /\ document.text \in TextRows \cup {0}
      BY <1>4 DEF Reuses, CallTypeOK
    <2>2. /\ document.prefix \in Nat /\ document.prefix <= 434
          /\ document.text \in Nat /\ document.text <= 128
      BY <2>1, RetainedLengths
    <2>3. /\ Fresh = request.views - 1
          /\ Prompt = document.prefix + 274 * (request.views - 1)
          /\ Retained = Prompt + document.text + request.new
          /\ Queries = Prompt - Copied
          /\ Pages = request.views + 2
      BY <1>1, <1>4, <2>1 DEF Fresh, Prompt, Retained, Queries, Pages, PageTokens, VisualTokens
    <2>4. Copied \in Nat
      <3>1. document.prefix >= 1
        BY <2>1, RetainedLengths
      <3> QED BY <2>2, <3>1, <1>4 DEF Copied
    <2>5. Prompt <= request.tokens + 159
      BY <1>1, <2>2, <2>3
    <2>6. /\ Queries <= MostQueries(request) /\ Retained <= MostRows(request)
          /\ Pages <= MostPages(request)
      BY <1>1, <1>2, <1>3, <2>1, <2>2, <2>3, <2>4, <2>5
    <2>7. Prompt + 1 + Fresh * PageTokens <= 2 * MostQueries(request)
      BY <1>1, <1>2, <1>3, <2>1, <2>3, <2>5 DEF PageTokens, VisualTokens
    <2> QED BY <1>1, <1>2, <1>3, <2>3, <2>6, <2>7 DEF PageTokens, VisualTokens
  <1>5. CASE ~Reuses
    <2>1. /\ Fresh = request.views /\ Prompt = request.tokens
          /\ Retained = Prompt + request.new
          /\ Queries = Prompt /\ Pages = request.views + 1
      BY <1>1, <1>5 DEF Fresh, Prompt, Retained, Queries, Pages, Copied
    <2>2. /\ Queries <= MostQueries(request) /\ Retained <= MostRows(request)
          /\ Pages <= MostPages(request)
      BY <1>1, <1>3, <2>1
    <2>3. Prompt + 1 + Fresh * PageTokens <= 2 * MostQueries(request)
      BY <1>1, <1>3, <2>1 DEF PageTokens, VisualTokens
    <2> QED BY <1>1, <1>2, <1>3, <2>1, <2>2, <2>3 DEF PageTokens, VisualTokens
  <1> QED BY <1>4, <1>5

\* Expectations are natural numbers, so that an empty buffer is within its own.
LEMMA ExpectedIsNat ==
  ASSUME NEW r, r.views \in Nat, r.tokens \in Nat, r.new \in Nat, NEW b \in OfRequest
  PROVE  Expected(r, b) \in Nat /\ MostQueries(r) \in Nat
  <1>1. /\ MostQueries(r) \in Nat /\ MostRows(r) \in Nat /\ MostPages(r) \in Nat
        /\ 2 * MostQueries(r) \in Nat
    BY DEF MostQueries, MostRows, MostPages, Extra, ExtraRows
  <1>2. /\ SumOf(DashCache(MostRows(r), MostQueries(r), MostPages(r))) \in Nat
        /\ SumOf(V2Arenas(MostQueries(r))) \in Nat
    BY <1>1, DashIsAmount, ArenasAreAmounts, SumIsNat
  <1>3. /\ HalfUp(r.new) \in Nat /\ Metadata(2 * MostQueries(r)) \in Nat
        /\ VisionWorkspace(r.views) \in Nat /\ VisionFinal(r.views) \in Nat
        /\ Transient(MostQueries(r)) \in Nat
    BY <1>1, SizesAreNat
  <1> QED BY <1>1, <1>2, <1>3 DEF Expected, OfRequest, Buffers, SelectionScratch, LogitsScratch

\* A step that empties buffers of the request, or fills some within what was
\* expected, keeps the sizes right.
LEMMA WithinExpectedStep ==
  ASSUME IInv, V2, SizesOK, stage # "idle",
         request' = request, estimate' = estimate, document'.open = document.open,
         booked'["model"] = booked["model"], booked'["document"] = booked["document"],
         \A b \in OfRequest : \/ booked'[b] = booked[b]
                              \/ booked'[b] = Nothing
                              \/ SumOf(booked'[b]) <= Expected(request, b),
         arenaTokens' <= MostQueries(request)
  PROVE  (KeptSizes /\ AdmittedAs /\ WithinExpected)'
  <1>1. CallTypeOK /\ RequestOK /\ KeptSizes /\ AdmittedAs /\ WithinExpected
    BY DEF IInv, SizesOK
  <1>2. KeptSizes'
    BY <1>1 DEF KeptSizes
  <1>3. AdmittedAs'
    BY <1>1 DEF AdmittedAs
  <1>4. \A b \in OfRequest : Expected(request, b) \in Nat
    BY <1>1, ExpectedIsNat DEF CallTypeOK
  <1>5. \A b \in OfRequest : SumOf(booked'[b]) <= Expected(request, b)
    BY <1>1, <1>4, SumOfNothing DEF WithinExpected
  <1>6. WithinExpected'
    BY <1>5 DEF WithinExpected
  <1> QED BY <1>2, <1>3, <1>6

-----------------------------------------------------------------------------
(* The steps of a v2 engine, by what they do to the buffers.               *)

Empties == \/ OutputFails \/ EnterImage \/ MetadataFails \/ EncodeVision
           \/ VisionStepFails \/ DropVision \/ PrepareStepFails \/ DropPrepared
           \/ Decode \/ DecoderStepFails \/ Unwind

LEMMA EmptiesStep ==
  ASSUME IInv, V2, SizesOK, Empties
  PROVE  SizesOK'
  <1> DEFINE Goes(B) == /\ \A b \in Buffers \ B : booked'[b] = booked[b]
                        /\ \A b \in B : booked'[b] = Nothing
  <1>1. CallTypeOK /\ RequestOK /\ AdmittedAs /\ WithinExpected
    BY DEF IInv, SizesOK
  <1>2. /\ stage \notin {"idle"}
        /\ stage' \notin {"arenas", "transient", "selection", "logits"}
        /\ request' = request /\ estimate' = estimate
        /\ document'.open = document.open
        /\ arenaTokens' \in {arenaTokens, 0}
    <2>1. CASE OutputFails \/ EnterImage \/ MetadataFails \/ EncodeVision
      BY <2>1 DEF OutputFails, EnterImage, MetadataFails, EncodeVision, At, Goto, memoryVars
    <2>2. CASE VisionStepFails \/ DropVision \/ PrepareStepFails \/ DropPrepared
      BY <2>2 DEF VisionStepFails, DropVision, PrepareStepFails, DropPrepared, At, Goto, memoryVars
    <2>3. CASE DecoderStepFails \/ Unwind
      BY <2>3 DEF DecoderStepFails, Unwind, At, Goto, memoryVars
    <2>4. CASE Decode
      BY <1>1, <2>4 DEF Decode, At, memoryVars, CallTypeOK
    <2> QED BY <2>1, <2>2, <2>3, <2>4 DEF Empties
  <1>3. PICK B \in SUBSET OfRequest : Goes(B)
    <2>1. ASSUME NEW B \in SUBSET OfRequest, Free(B)
          PROVE  Goes(B)
      BY <2>1 DEF Free, OfRequest
    <2>2. ASSUME UNCHANGED booked
          PROVE  Goes({})
      BY <2>2
    <2> HIDE DEF Goes
    <2>3. CASE OutputFails \/ MetadataFails \/ VisionStepFails \/ PrepareStepFails
               \/ Decode \/ DecoderStepFails
      <3>1. UNCHANGED booked
        BY <2>3 DEF OutputFails, MetadataFails, VisionStepFails, PrepareStepFails, Decode,
           DecoderStepFails, memoryVars
      <3>2. {} \in SUBSET OfRequest
        OBVIOUS
      <3> QED BY <2>2, <3>1, <3>2
    <2>4. CASE EnterImage
      <3>1. Free(V2Request) /\ V2Request \in SUBSET OfRequest
        BY <2>4 DEF EnterImage, V2Request, Scratch, OfRequest, Buffers
      <3> QED BY <2>1, <3>1
    <2>5. CASE EncodeVision
      <3>1. Free({"vision"}) /\ {"vision"} \in SUBSET OfRequest
        BY <2>5 DEF EncodeVision, OfRequest, Buffers
      <3> QED BY <2>1, <3>1
    <2>6. CASE DropVision
      <3>1. Free({"vision", "final"}) /\ {"vision", "final"} \in SUBSET OfRequest
        BY <2>6 DEF DropVision, OfRequest, Buffers
      <3> QED BY <2>1, <3>1
    <2>7. CASE DropPrepared
      <3>1. Free(Prepared) /\ Prepared \in SUBSET OfRequest
        BY <2>7 DEF DropPrepared, Prepared, OfRequest, Buffers
      <3> QED BY <2>1, <3>1
    <2>8. CASE Unwind
      <3>1. Free(Unwound) /\ Unwound \in SUBSET OfRequest
        BY <2>8 DEF Unwind, Unwound, V2Request, Scratch, OfRequest, Buffers
      <3> QED BY <2>1, <3>1
    <2> QED BY <2>3, <2>4, <2>5, <2>6, <2>7, <2>8 DEF Empties
  <1>4. booked'["model"] = booked["model"] /\ booked'["document"] = booked["document"]
    BY <1>3 DEF OfRequest, Buffers
  <1>5. \A b \in OfRequest : booked'[b] = booked[b] \/ booked'[b] = Nothing
    BY <1>3 DEF OfRequest
  <1>6. MostQueries(request) \in Nat /\ arenaTokens' <= MostQueries(request)
    BY <1>1, <1>2, RequestWithinAdmission DEF WithinExpected
  <1>7. (KeptSizes /\ AdmittedAs /\ WithinExpected)'
    BY <1>2, <1>4, <1>5, <1>6, WithinExpectedStep
  <1>8. ScratchInOrder'
    BY <1>2 DEF ScratchInOrder
  <1> QED BY <1>7, <1>8 DEF SizesOK

\* What ensure_scratch does with a buffer that is not held.
LEMMA EnsureTakes ==
  ASSUME Accounted, NEW b \in Buffers, NEW c \in Categories, NEW least \in Nat, NEW bytes \in Nat,
         ~Held(b), Ensure(b, c, least, bytes)
  PROVE  /\ \A x \in Buffers : x # b => booked'[x] = booked[x]
         /\ SumOf(booked'[b]) = 0 \/ (least > 0 /\ SumOf(booked'[b]) = bytes)
  <1>1. booked \in [Buffers -> Amounts] /\ booked[b] = Nothing /\ Nothing[c] = 0
    BY DEF Accounted, Agrees, Held, Nothing
  <1>2. CASE UNCHANGED <<tracker, booked>>
    BY <1>1, <1>2, SumOfNothing
  <1>3. CASE least > booked[b][c] /\ booked' = [booked EXCEPT ![b] = Only(c, bytes)]
    BY <1>1, <1>3, SumOfOnly
  <1> QED BY <1>2, <1>3 DEF Ensure

Takes == \/ BookOutput \/ BookMetadata \/ EnsureVision \/ EnsureFinal
         \/ AllocateDash \/ AllocateArenas \/ EnsureTransient \/ EnsureSelection
         \/ EnsureLogits \/ BookArenas

LEMMA TakesStep ==
  ASSUME IInv, V2, SizesOK, Takes
  PROVE  SizesOK'
  <1> DEFINE Fills(x) == /\ \A b \in Buffers : b # x => booked'[b] = booked[b]
                         /\ SumOf(booked'[x]) <= Expected(request, x)
                         /\ arenaTokens' = arenaTokens
  <1>1. /\ Accounted /\ CallTypeOK /\ RequestOK /\ RequestHolds /\ V2Holds
        /\ AdmittedAs /\ WithinExpected /\ ScratchInOrder
    BY DEF IInv, Holds, SizesOK
  <1>2. /\ stage # "idle"
        /\ request' = request /\ estimate' = estimate /\ document' = document
    <2>1. CASE BookOutput \/ BookMetadata \/ EnsureVision \/ EnsureFinal \/ AllocateDash
      BY <2>1 DEF BookOutput, BookMetadata, EnsureVision, EnsureFinal, AllocateDash, At, Goto
    <2>2. CASE AllocateArenas \/ EnsureTransient \/ EnsureSelection \/ EnsureLogits \/ BookArenas
      BY <2>2 DEF AllocateArenas, EnsureTransient, EnsureSelection, EnsureLogits, BookArenas,
                    At, Goto
    <2> QED BY <2>1, <2>2 DEF Takes
  <1>3. /\ Fresh \in Nat /\ request.views \in Nat /\ Fresh <= request.views
        /\ Queries \in Nat \ {0} /\ MostQueries(request) \in Nat /\ Queries <= MostQueries(request)
        /\ Retained \in Nat /\ MostRows(request) \in Nat /\ Retained <= MostRows(request)
        /\ Pages \in Nat /\ MostPages(request) \in Nat /\ Pages <= MostPages(request)
        /\ Prompt + 1 + Fresh * PageTokens \in Nat
        /\ Prompt + 1 + Fresh * PageTokens <= 2 * MostQueries(request)
    BY <1>1, <1>2, RequestWithinAdmission
  <1>4. booked \in [Buffers -> Amounts]
    BY <1>1 DEF Accounted, Agrees
  <1>5. ASSUME NEW x \in OfRequest, Fills(x)
        PROVE  (KeptSizes /\ AdmittedAs /\ WithinExpected)'
    <2>1. booked'["model"] = booked["model"] /\ booked'["document"] = booked["document"]
      BY <1>5 DEF OfRequest, Buffers
    <2>2. \A b \in OfRequest : booked'[b] = booked[b] \/ SumOf(booked'[b]) <= Expected(request, b)
      BY <1>5 DEF OfRequest
    <2>3. arenaTokens' <= MostQueries(request)
      BY <1>1, <1>2, <1>5 DEF WithinExpected
    <2> QED BY <1>2, <2>1, <2>2, <2>3, WithinExpectedStep
  <1>6. CASE BookOutput
    <2>1. /\ booked' = [booked EXCEPT !["output"] = Only("transient", Output(request.new))]
          /\ arenaTokens' = arenaTokens /\ stage' = "enter"
      BY <1>1, <1>6 DEF BookOutput, Book, Goto, CallTypeOK, RequestOK, Kinds, AdmittedAs, At
    <2>2. request.new \in Nat
      BY <1>1 DEF CallTypeOK
    <2>3. Output(request.new) \in Nat /\ Output(request.new) <= HalfUp(request.new)
      BY <2>2 DEF Output, QuarterUp, HalfUp
    <2>4. SumOf(booked'["output"]) = Output(request.new)
      BY <1>4, <2>1, <2>3, SumOfOnly DEF Buffers, Categories
    <2>5. Fills("output")
      BY <1>4, <2>1, <2>3, <2>4 DEF Expected
    <2>6. ScratchInOrder'
      BY <2>1 DEF ScratchInOrder
    <2> QED BY <1>5, <2>5, <2>6 DEF SizesOK, OfRequest, Buffers
  <1>7. CASE BookMetadata
    <2> DEFINE rows == Prompt + 1 + Fresh * PageTokens
    <2>1. /\ booked' = [booked EXCEPT !["metadata"] = Only("transient", Metadata(rows))]
          /\ arenaTokens' = arenaTokens /\ stage' \in {"dash", "vision"}
      BY <1>7 DEF BookMetadata, Book, Goto
    <2>2. rows \in Nat /\ 2 * MostQueries(request) \in Nat /\ rows <= 2 * MostQueries(request)
      BY <1>3
    <2> HIDE DEF rows
    <2>3. Metadata(rows) \in Nat /\ Metadata(rows) <= Metadata(2 * MostQueries(request))
      BY <2>2 DEF Metadata
    <2>4. SumOf(booked'["metadata"]) = Metadata(rows)
      BY <1>4, <2>1, <2>3, SumOfOnly DEF Buffers, Categories
    <2>5. Fills("metadata")
      BY <1>4, <2>1, <2>3, <2>4 DEF Expected
    <2>6. ScratchInOrder'
      BY <2>1 DEF ScratchInOrder
    <2> QED BY <1>5, <2>5, <2>6 DEF SizesOK, OfRequest, Buffers
  <1>8. CASE EnsureVision
    <2>1. /\ Ensure("vision", "vision_gpu", VisionWorkspace(Fresh), VisionWorkspace(Fresh))
          /\ arenaTokens' = arenaTokens /\ stage' = "final" /\ ~Held("vision")
      BY <1>1, <1>8 DEF EnsureVision, Goto, At, V2Holds
    <2>2. VisionWorkspace(Fresh) \in Nat /\ VisionWorkspace(request.views) \in Nat
      BY <1>3, SizesAreNat
    <2>3. VisionWorkspace(Fresh) <= VisionWorkspace(request.views)
      BY <1>3, VisionGrows
    <2>4. /\ \A x \in Buffers : x # "vision" => booked'[x] = booked[x]
          /\ SumOf(booked'["vision"]) = 0 \/ SumOf(booked'["vision"]) = VisionWorkspace(Fresh)
      BY <1>1, <2>1, <2>2, EnsureTakes DEF Buffers, Categories
    <2>5. Fills("vision")
      BY <2>1, <2>2, <2>3, <2>4 DEF Expected
    <2>6. ScratchInOrder'
      BY <2>1 DEF ScratchInOrder
    <2> QED BY <1>5, <2>5, <2>6 DEF SizesOK, OfRequest, Buffers
  <1>9. CASE EnsureFinal
    <2>1. /\ Ensure("final", "vision_final", VisionFinal(Fresh), VisionFinal(Fresh))
          /\ arenaTokens' = arenaTokens /\ stage' = "encode" /\ ~Held("final")
      BY <1>1, <1>9 DEF EnsureFinal, Goto, At, V2Holds, DecoderStages
    <2>2. VisionFinal(Fresh) \in Nat /\ VisionFinal(request.views) \in Nat
      BY <1>3, SizesAreNat
    <2>3. VisionFinal(Fresh) <= VisionFinal(request.views)
      BY <1>3, VisionGrows
    <2>4. /\ \A x \in Buffers : x # "final" => booked'[x] = booked[x]
          /\ SumOf(booked'["final"]) = 0 \/ SumOf(booked'["final"]) = VisionFinal(Fresh)
      BY <1>1, <2>1, <2>2, EnsureTakes DEF Buffers, Categories
    <2>5. Fills("final")
      BY <2>1, <2>2, <2>3, <2>4 DEF Expected
    <2>6. ScratchInOrder'
      BY <2>1 DEF ScratchInOrder
    <2> QED BY <1>5, <2>5, <2>6 DEF SizesOK, OfRequest, Buffers
  <1>10. CASE AllocateDash
    <2> DEFINE dash == DashCache(Retained, Queries, Pages)
    <2>1. /\ booked' = [b \in Buffers |-> IF b = "dash" THEN dash
                          ELSE IF b \in {"transient", "selection", "logits"} THEN Nothing
                          ELSE booked[b]]
          /\ arenaTokens' = arenaTokens /\ stage = "dash"
      BY <1>10 DEF AllocateDash, At, Goto
    <2>2. SumOf(dash) <= Expected(request, "dash")
      BY <1>3, DashGrows DEF Expected
    <2> HIDE DEF dash
    <2>3. ~Held("transient") /\ ~Held("selection") /\ ~Held("logits")
      BY <1>1, <2>1 DEF V2Holds, DecoderStages
    <2>4. Fills("dash")
      BY <2>1, <2>2, <2>3 DEF Held, Buffers
    <2>5. ScratchInOrder'
      BY <2>1, <2>3 DEF ScratchInOrder, Held, Buffers
    <2> QED BY <1>5, <2>4, <2>5 DEF SizesOK, OfRequest, Buffers
  <1>11. CASE AllocateArenas
    <2>1. /\ booked' = booked /\ arenaTokens' = Queries /\ stage = "arenas" /\ stage' = "transient"
      BY <1>11 DEF AllocateArenas, At, Goto
    <2>2. (KeptSizes /\ AdmittedAs /\ WithinExpected)'
      BY <1>2, <1>3, <2>1, WithinExpectedStep
    <2>3. ScratchInOrder'
      BY <1>1, <2>1 DEF ScratchInOrder, Held
    <2> QED BY <2>2, <2>3 DEF SizesOK
  <1>12. CASE EnsureTransient
    <2> DEFINE least == PrefillScratch(Queries)
    <2>1. /\ Ensure("transient", "transient", least, Capacity(0, least))
          /\ arenaTokens' = arenaTokens /\ stage = "transient" /\ stage' = "selection"
          /\ ~Held("transient") /\ ~Held("selection") /\ ~Held("logits")
      <3>1. ~Held("transient") /\ ~Held("selection") /\ ~Held("logits")
        BY <1>1, <1>12 DEF EnsureTransient, At, ScratchInOrder
      <3>2. booked["transient"]["transient"] = 0
        BY <3>1 DEF Held, Nothing, Categories
      <3> QED BY <1>12, <3>1, <3>2 DEF EnsureTransient, At, Goto
    <2>2. least \in Nat /\ Capacity(0, least) \in Nat
      BY <1>3, SizesAreNat, CapacityIsNat
    <2>3. /\ \A x \in Buffers : x # "transient" => booked'[x] = booked[x]
          /\ \/ SumOf(booked'["transient"]) = 0
             \/ least > 0 /\ SumOf(booked'["transient"]) = Capacity(0, least)
      <3> HIDE DEF least
      <3> QED BY <1>1, <2>1, <2>2, EnsureTakes DEF Buffers, Categories
    <2>4. least > 0 => Capacity(0, least) <= Transient(MostQueries(request))
      <3>1. least > 0 => Queries > 1
        BY <1>3 DEF PrefillScratch
      <3> QED BY <1>3, <3>1, ScratchGrows
    <2>5. Transient(MostQueries(request)) \in Nat
      BY <1>3, SizesAreNat
    <2> HIDE DEF least
    <2>6. Fills("transient")
      BY <2>1, <2>3, <2>4, <2>5 DEF Expected
    <2>7. ScratchInOrder'
      BY <2>1, <2>3 DEF ScratchInOrder, Held, Buffers
    <2> QED BY <1>5, <2>6, <2>7 DEF SizesOK, OfRequest, Buffers
  <1>13. CASE EnsureSelection
    <2>1. /\ Ensure("selection", "decoder", SelectionScratch, SelectionScratch)
          /\ arenaTokens' = arenaTokens /\ stage' = "logits"
          /\ ~Held("selection") /\ ~Held("logits")
      BY <1>1, <1>13 DEF EnsureSelection, Goto, At, ScratchInOrder
    <2>2. /\ \A x \in Buffers : x # "selection" => booked'[x] = booked[x]
          /\ SumOf(booked'["selection"]) = 0 \/ SumOf(booked'["selection"]) = SelectionScratch
      BY <1>1, <2>1, EnsureTakes DEF Buffers, Categories, SelectionScratch
    <2>3. Fills("selection")
      BY <2>1, <2>2 DEF Expected, SelectionScratch
    <2>4. ScratchInOrder'
      BY <2>1, <2>2 DEF ScratchInOrder, Held, Buffers
    <2> QED BY <1>5, <2>3, <2>4 DEF SizesOK, OfRequest, Buffers
  <1>14. CASE EnsureLogits
    <2>1. /\ Ensure("logits", "decoder", LogitsScratch, LogitsScratch)
          /\ arenaTokens' = arenaTokens /\ stage' = "book"
          /\ ~Held("logits")
      BY <1>1, <1>14 DEF EnsureLogits, Goto, At, ScratchInOrder
    <2>2. /\ \A x \in Buffers : x # "logits" => booked'[x] = booked[x]
          /\ SumOf(booked'["logits"]) = 0 \/ SumOf(booked'["logits"]) = LogitsScratch
      BY <1>1, <2>1, EnsureTakes DEF Buffers, Categories, LogitsScratch
    <2>3. Fills("logits")
      BY <2>1, <2>2 DEF Expected, LogitsScratch
    <2>4. ScratchInOrder'
      BY <2>1 DEF ScratchInOrder
    <2> QED BY <1>5, <2>3, <2>4 DEF SizesOK, OfRequest, Buffers
  <1>15. CASE BookArenas
    <2>1. /\ booked' = [booked EXCEPT !["arenas"] = V2Arenas(arenaTokens)]
          /\ arenaTokens' = arenaTokens /\ stage' = "decode"
      BY <1>15 DEF BookArenas, Book, Goto
    <2>2. SumOf(V2Arenas(arenaTokens)) <= Expected(request, "arenas")
      <3>1. arenaTokens \in Nat /\ arenaTokens <= MostQueries(request)
        BY <1>1, <1>2 DEF CallTypeOK, WithinExpected
      <3> QED BY <1>3, <3>1, ArenasGrow DEF Expected
    <2>3. Fills("arenas")
      BY <1>4, <2>1, <2>2 DEF Buffers
    <2>4. ScratchInOrder'
      BY <2>1 DEF ScratchInOrder
    <2> QED BY <1>5, <2>3, <2>4 DEF SizesOK, OfRequest, Buffers
  <1> QED BY <1>6, <1>7, <1>8, <1>9, <1>10, <1>11, <1>12, <1>13, <1>14, <1>15 DEF Takes


-----------------------------------------------------------------------------
(* The steps between two requests.                                         *)

LEMMA StartsStep ==
  ASSUME IInv, V2, SizesOK, NEW r \in Requests, StartImage(r) \/ StartWindow(r)
  PROVE  SizesOK'
  <1>1. /\ CallTypeOK /\ RequestOK /\ RequestHolds /\ V2Holds /\ KeptSizes
    BY DEF IInv, Holds, SizesOK
  <1>2. /\ stage = "idle" /\ stage' = "output"
        /\ request'.kind = r.kind /\ request'.views = r.views
        /\ request'.tokens = r.tokens /\ request'.new = r.new
        /\ request' \in [kind : Kinds, views : Nat, tokens : Nat, new : Nat, lookahead : {0, 1}]
        /\ estimate' = V2Subtotal(ModelBytes, r, document.open)
        /\ document' = document /\ arenaTokens' = 0
        /\ r.kind \in {"page", "window"}
        /\ document.open <=> r.kind = "window"
        /\ Free({"arenas"})
    <2>1. r \in [kind : {"page", "window"}, views : Nat, tokens : Nat \ {0}, new : Nat \ {0}]
      BY MemoryConstants DEF Kinds
    <2>2. CASE StartImage(r)
      BY <2>1, <2>2 DEF StartImage, Start, Subtotal, At, Kinds
    <2>3. CASE StartWindow(r)
      BY <2>1, <2>3 DEF StartWindow, Start, Subtotal, At, Kinds
    <2> QED BY <2>2, <2>3
  <1>3. r.tokens >= 1 + PageTokens * r.views
    BY MemoryConstants
  <1>4. V2Subtotal(ModelBytes, request', r.kind = "window")
          = V2Subtotal(ModelBytes, r, document.open)
    BY <1>2 DEF V2Subtotal
  <1>5. AdmittedAs'
    BY <1>2, <1>3, <1>4 DEF AdmittedAs
  <1>6. \A b \in OfRequest : ~Held(b)
    <2>1. request.kind = "none"
      BY <1>1, <1>2 DEF RequestOK
    <2>2. ~Held("output") /\ ~Held("metadata")
      BY <1>2, <2>1, <1>1 DEF RequestHolds
    <2>3. /\ ~Held("vision") /\ ~Held("final") /\ ~Held("dash") /\ ~Held("arenas")
          /\ ~Held("transient") /\ ~Held("selection") /\ ~Held("logits")
      BY <1>1, <1>2 DEF V2Holds, DecoderStages
    <2> QED BY <2>2, <2>3 DEF OfRequest, Buffers
  <1>7. \A b \in OfRequest : booked'[b] = Nothing
    BY <1>2, <1>6 DEF Free, Held, OfRequest
  <1>8. KeptSizes'
    <2>1. booked'["model"] = booked["model"] /\ booked'["document"] = booked["document"]
      BY <1>2 DEF Free, Buffers
    <2> QED BY <1>1, <2>1 DEF KeptSizes
  <1>9. WithinExpected'
    <2>1. request'.views \in Nat /\ request'.tokens \in Nat /\ request'.new \in Nat
      BY <1>2
    <2>2. /\ \A b \in OfRequest : Expected(request', b) \in Nat
          /\ MostQueries(request') \in Nat
      BY <2>1, ExpectedIsNat DEF OfRequest, Buffers
    <2> QED BY <1>2, <1>7, <2>2, SumOfNothing DEF WithinExpected
  <1>10. ScratchInOrder'
    BY <1>2 DEF ScratchInOrder
  <1> QED BY <1>5, <1>8, <1>9, <1>10 DEF SizesOK

\* Between two requests only the model and the document count.
Rests == DocumentBegin \/ DocumentEnd \/ Return

LEMMA RestsStep ==
  ASSUME IInv, V2, SizesOK, Rests
  PROVE  SizesOK'
  <1>1. KeptSizes /\ booked \in [Buffers -> Amounts]
    BY DEF SizesOK, IInv, Accounted, Agrees
  <1>2. stage' = "idle"
    BY DEF Rests, DocumentBegin, DocumentEnd, Return, callVars, At
  <1>3. /\ booked'["model"] = booked["model"]
        /\ SumOf(booked'["document"]) <= DocumentBytes
    <2>1. DocumentBytes \in Nat
      BY DEF DocumentBytes
    <2>2. ASSUME NEW B, Free(B), "model" \notin B
          PROVE  /\ booked'["model"] = booked["model"]
                 /\ booked'["document"] \in {booked["document"], Nothing}
      BY <2>2 DEF Free, Buffers
    <2>3. CASE DocumentBegin
      <3>1. booked'["document"] = Only("kv_cache", DocumentBytes)
        BY <2>3 DEF DocumentBegin, Buffers
      <3>2. SumOf(booked'["document"]) = DocumentBytes
        BY <2>1, <3>1, SumOfOnly DEF Categories
      <3>3. booked'["model"] = booked["model"]
        BY <2>3 DEF DocumentBegin, Buffers, V2Request, Scratch
      <3> QED BY <2>1, <3>2, <3>3
    <2>4. CASE DocumentEnd
      <3>1. Free(V2Request \cup {"document"}) /\ "model" \notin V2Request \cup {"document"}
        BY <2>4 DEF DocumentEnd, V2Request, Scratch
      <3> QED BY <1>1, <2>1, <2>2, <3>1, SumOfNothing DEF KeptSizes
    <2>5. CASE Return
      <3>1. Free(V2Request \cup {"output", "document"}) \/ Free({"output"})
        BY <2>5 DEF Return
      <3>2. "model" \notin V2Request \cup {"output", "document"} /\ "model" \notin {"output"}
        BY DEF V2Request, Scratch
      <3> QED BY <1>1, <2>1, <2>2, <3>1, <3>2, SumOfNothing DEF KeptSizes
    <2> QED BY <2>3, <2>4, <2>5 DEF Rests
  <1> QED BY <1>1, <1>2, <1>3 DEF SizesOK, KeptSizes, AdmittedAs, WithinExpected, ScratchInOrder

\* The steps of a v1 engine are not steps of a v2 engine.
LEMMA NotOfV2 ==
  ASSUME IInv, V2
  PROVE  /\ ~KeepArenas /\ ~GrowArenas /\ ~ArenasFail /\ ~Prefill
         /\ \A r \in Requests : ~StartText(r)
  <1>1. ~KeepArenas /\ ~GrowArenas /\ ~ArenasFail /\ ~Prefill
    BY DEF IInv, RequestOK, KeepArenas, GrowArenas, ArenasFail, Prefill, At
  <1>2. \A r \in Requests : r.kind # "text"
    BY MemoryConstants DEF Kinds
  <1> QED BY <1>1, <1>2 DEF StartText

LEMMA SizesStep ==
  ASSUME IInv, V2 => SizesOK, [Next]_vars
  PROVE  V2 => SizesOK'
  <1> SUFFICES ASSUME V2 PROVE SizesOK'
    OBVIOUS
  <1>1. CASE UNCHANGED vars
    BY <1>1 DEF vars, callVars, memoryVars, SizesOK, KeptSizes, AdmittedAs, WithinExpected,
       ScratchInOrder, Held
  <1>2. CASE Next
    BY <1>2, NotOfV2, StartsStep, EmptiesStep, TakesStep, RestsStep
       DEF Next, Empties, Takes, Rests
  <1> QED BY <1>1, <1>2

LEMMA SizesInit == Init => (V2 => SizesOK)
  <1> SUFFICES ASSUME Init, V2 PROVE SizesOK
    OBVIOUS
  <1>1. booked["model"] = Only("model_views", ModelBytes) /\ booked["document"] = Nothing
    BY DEF Init, Buffers
  <1>2. SumOf(booked["model"]) = ModelBytes
    BY <1>1, SumOfOnly, MemoryConstants DEF Categories
  <1>3. SumOf(booked["document"]) <= DocumentBytes
    BY <1>1, SumOfNothing DEF DocumentBytes
  <1> QED BY <1>2, <1>3 DEF Init, SizesOK, KeptSizes, AdmittedAs, WithinExpected, ScratchInOrder

\* The estimate is the sum of what is expected of the buffers of the larger
\* phase, of the output, and of a document with its window's metadata.
LEMMA EstimateAddsUp ==
  ASSUME NEW r, r.views \in Nat \ {0}, r.tokens \in Nat, r.new \in Nat,
         r.kind \in {"page", "window"}
  PROVE  LET decoder == Expected(r, "dash") + Expected(r, "arenas") + Expected(r, "transient")
                          + Expected(r, "selection") + Expected(r, "logits")
             window  == IF r.kind = "window" THEN DocumentBytes + Expected(r, "metadata") ELSE 0
         IN  V2Subtotal(ModelBytes, r, r.kind = "window")
               = ModelBytes + Largest(decoder + Expected(r, "final"),
                                      Expected(r, "vision") + Expected(r, "final"))
                 + Expected(r, "output") + window
  <1>1. /\ Vision(r.views) = Expected(r, "vision") + Expected(r, "final")
        /\ Final(r.views) = Expected(r, "final")
    BY DEF Vision, Final, Expected
  <1>2. V2Decoder(MostRows(r), MostQueries(r), MostPages(r))
          = Expected(r, "dash") + Expected(r, "arenas") + Expected(r, "transient")
              + Expected(r, "selection") + Expected(r, "logits")
    BY DEF V2Decoder, Expected
  <1>3. HalfUp(r.new) = Expected(r, "output")
    BY DEF Expected
  <1>4. Metadata(2 * MostQueries(r)) = Expected(r, "metadata")
    BY DEF Expected
  <1>5. V2Subtotal(ModelBytes, r, r.kind = "window")
          = ModelBytes
            + Largest(V2Decoder(MostRows(r), MostQueries(r), MostPages(r)) + Final(r.views),
                      Vision(r.views))
            + HalfUp(r.new)
            + (IF r.kind = "window" THEN DocumentBytes + Metadata(2 * MostQueries(r)) ELSE 0)
    BY DEF V2Subtotal, MostRows, MostQueries, MostPages, Extra
  <1> QED BY <1>1, <1>2, <1>3, <1>4, <1>5

\* What is live never exceeds what admission expected of the request.
THEOREM EstimateIsEnough == Spec => []LiveWithinEstimate
  <1>1. IInv /\ (V2 => SizesOK) /\ [Next]_vars => (V2 => SizesOK)'
    BY SizesStep
  <1>2. IInv /\ (V2 => SizesOK) => LiveWithinEstimate
    <2> SUFFICES ASSUME IInv, V2 => SizesOK, request.kind \in {"page", "window"}
                 PROVE  tracker.total <= estimate /\ (stage \in Scratch => ~Held(stage))
      BY DEF LiveWithinEstimate
    <2>1. /\ Accounted /\ CallTypeOK /\ RequestOK /\ RequestHolds
          /\ (V2 => V2Holds)
      BY DEF IInv, Holds
    <2>2. stage # "idle"
      BY <2>1 DEF RequestOK
    <2>3. V2 /\ KeptSizes /\ AdmittedAs /\ WithinExpected /\ ScratchInOrder
      BY <2>1 DEF SizesOK, CallTypeOK, Kinds
    <2>4. V2Holds
      BY <2>1, <2>3
    <2>5. stage \in Scratch => ~Held(stage)
      BY <2>3, <2>4 DEF Scratch, V2Holds, DecoderStages, ScratchInOrder
    <2> DEFINE has(b) == SumOf(booked[b])
               exp(b) == Expected(request, b)
               later(b) == b \in {"dash", "arenas", "transient", "selection", "logits"}
    <2>6. /\ \A b \in Buffers : has(b) \in Nat
          /\ \A b \in Buffers : ~Held(b) => has(b) = 0
      <3>1. booked \in [Buffers -> Amounts]
        BY <2>1 DEF Accounted, Agrees
      <3> QED BY <3>1, SumIsNat, SumOfNothing DEF Held
    <2>7. /\ request.views \in Nat \ {0} /\ request.tokens \in Nat /\ request.new \in Nat
      BY <2>1 DEF CallTypeOK, RequestOK
    <2>8. \A b \in OfRequest : exp(b) \in Nat /\ has(b) <= exp(b)
      BY <2>2, <2>3, <2>7, ExpectedIsNat DEF WithinExpected
    <2>9. has("model") = ModelBytes /\ has("document") <= DocumentBytes
      BY <2>3 DEF KeptSizes
    <2>10. request.kind # "window" => has("document") = 0 /\ has("metadata") = 0
      BY <2>1, <2>2, <2>3, <2>6 DEF RequestHolds, AdmittedAs, Buffers
    <2>11. \/ has("vision") = 0
           \/ \A b \in Buffers : later(b) => has(b) = 0
      BY <2>4, <2>6 DEF V2Holds, DecoderStages, Buffers
    <2>12. tracker.total
             = has("model") + has("document") + has("output") + has("metadata")
               + has("vision") + has("final") + has("dash") + has("arenas")
               + has("transient") + has("selection") + has("logits")
      BY <2>1, TotalOfBuffers DEF Accounted, Agrees
    <2> DEFINE decoder == exp("dash") + exp("arenas") + exp("transient")
                            + exp("selection") + exp("logits")
               window  == IF request.kind = "window" THEN DocumentBytes + exp("metadata") ELSE 0
               phases  == Largest(decoder + exp("final"), exp("vision") + exp("final"))
    <2>13. estimate = ModelBytes + phases + exp("output") + window
      BY <2>2, <2>3, <2>7, EstimateAddsUp DEF AdmittedAs
    <2> HIDE DEF has, exp
    <2>14. has("vision") + has("final") + has("dash") + has("arenas") + has("transient")
             + has("selection") + has("logits") <= phases /\ phases \in Nat
      <3>1. \A b \in {"vision", "final", "dash", "arenas", "transient", "selection", "logits"} :
              has(b) \in Nat /\ exp(b) \in Nat /\ has(b) <= exp(b)
        BY <2>6, <2>8 DEF OfRequest, Buffers
      <3>2. \/ has("vision") = 0
            \/ /\ has("dash") = 0 /\ has("arenas") = 0 /\ has("transient") = 0
               /\ has("selection") = 0 /\ has("logits") = 0
        BY <2>11 DEF Buffers
      <3> QED BY <3>1, <3>2 DEF Largest
    <2>15. has("document") + has("metadata") <= window /\ window \in Nat
      BY <2>6, <2>8, <2>9, <2>10 DEF OfRequest, Buffers, DocumentBytes
    <2>16. has("output") \in Nat /\ exp("output") \in Nat /\ has("output") <= exp("output")
      BY <2>6, <2>8 DEF OfRequest, Buffers
    <2>17. \A b \in Buffers : has(b) \in Nat
      BY <2>6
    <2> HIDE DEF phases, window
    <2>18. tracker.total <= estimate
      BY <2>9, <2>12, <2>13, <2>14, <2>15, <2>16, <2>17, MemoryConstants DEF Buffers
    <2> QED BY <2>5, <2>18
  <1> QED BY <1>1, <1>2, SizesInit, InvariantHolds, NextStep, InitHolds, PTL DEF Spec

=============================================================================
