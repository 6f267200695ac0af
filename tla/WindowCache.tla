----------------------------- MODULE WindowCache -----------------------------
(***************************************************************************)
(* The rows of the attention cache of a document window, over the control  *)
(* of module DocumentSession: what each row holds, the RoPE coordinates it *)
(* was computed at, and the coordinates the window gives it now            *)
(* (src/backend/metal/uocr_metal_document.inc and uocr_page_state_step in  *)
(* src/runtime/uocr_page_state.c).                                         *)
(*                                                                         *)
(* A window that reuses a tail copies rows that an earlier window computed *)
(* at its own coordinates, replays the page counters over them, and goes   *)
(* on as if it had computed them.  Nothing in the code compares the two;   *)
(* the properties of this module do.                                       *)
(*                                                                         *)
(* The generated tokens are those of DocumentSession.  In particular no    *)
(* image token is generated: the code does not mask it, and one would move *)
(* the boundary between prompt and generated pages (README, hazards).      *)
(***************************************************************************)
EXTENDS DocumentSession, Integers, Sequences, FiniteSets

VARIABLES
  cache,  \* the rows of the window being decoded
  saved   \* d->prefix, d->kv and d->last_visual_row

cacheVars == <<sessionVars, cache, saved>>

BOS   == "BOS"
IMAGE == "IMAGE"
NoPage == -1

(* What a row holds: a token, the page of the document it belongs to and   *)
(* its place there; these are history, the program has only token ids.     *)
Item(tok, page, at) == [tok |-> tok, page |-> page, at |-> at]

(* The rows that n pages take in a prompt, and a prepared request's prompt. *)
PageItem(page, at) == Item(IF at = 0 THEN PAGE ELSE IMAGE, page, at)
PageItems(first, n) ==
  [k \in 1..n * PageRows |-> PageItem(first + ((k - 1) \div PageRows), (k - 1) % PageRows)]

RequestItems(r) ==
  <<Item(BOS, NoPage, 0)>> \o PageItems(doc.next, r.views)
    \o [i \in 1..r.instruction |-> Item(TEXT, NoPage, i)]

-----------------------------------------------------------------------------
(* Page counters: uocr_page_state_init and uocr_page_state_step.           *)

StateInit(capacity, base) ==
  [markers |-> 0, prompt |-> 0, capacity |-> capacity, parity |-> base % 2,
   started |-> FALSE, counts |-> [p \in 0..(capacity - 1) |-> 0]]

MaxOf(a, b) == IF a >= b THEN a ELSE b
MinOf(a, b) == IF a <= b THEN a ELSE b

MarkersWith(st, tok) == st.markers + (IF tok = PAGE THEN 1 ELSE 0)
PromptPagesWith(st, tok) ==
  IF tok = IMAGE THEN MaxOf(MarkersWith(st, tok), st.prompt) ELSE st.prompt

(* The RoPE page of a token: a prompt page by its marker, a generated page *)
(* like the prompt page it transcribes, everything else page 0.            *)
RopePage(st, tok, generated) ==
  LET m == MarkersWith(st, tok)
      n == PromptPagesWith(st, tok)
  IN IF ~generated /\ (tok = IMAGE \/ m > n) THEN m
     ELSE IF m > n THEN MinOf(m - n, n) ELSE 0

(* The image page that a token's queries are routed to.                    *)
QueryPage(st, tok, generated) ==
  LET m == MarkersWith(st, tok)
      n == PromptPagesWith(st, tok)
  IN IF tok = IMAGE \/ (m > n /\ ~generated) THEN m - 1
     ELSE IF m > n THEN m - n - 1 ELSE NoPage

StepFails(st, tok, generated) ==
  \/ ~generated /\ st.started
  \/ generated /\ st.prompt = 0
  \/ tok = IMAGE /\ MarkersWith(st, tok) = 0
  \/ PromptPagesWith(st, tok) >= st.capacity
  \/ RopePage(st, tok, generated) >= st.capacity
  \/ st.counts[RopePage(st, tok, generated)] >= MaxPositions

Coordinates(st, tok, generated) ==
  LET page == RopePage(st, tok, generated) IN
  [token |-> st.counts[page],
   page  |-> page + (IF page # 0 THEN st.parity ELSE 0),
   image |-> IF tok = IMAGE THEN MarkersWith(st, tok) - 1 ELSE NoPage,
   query |-> QueryPage(st, tok, generated)]

StateStep(st, tok, generated) ==
  [st EXCEPT !.markers = MarkersWith(st, tok),
             !.prompt = PromptPagesWith(st, tok),
             !.started = generated,
             !.counts[RopePage(st, tok, generated)] = @ + 1]

(* A cache under construction: appending a row steps the counters; the row *)
(* remembers the RoPE coordinates its key was rotated by.  `visual` counts  *)
(* the image rows that were computed.                                      *)
EmptyCache(prompt, capacity, base) ==
  [rows |-> <<>>, coords |-> <<>>, prompt |-> prompt, visual |-> 0,
   ok |-> capacity \in 2..MaxPositions + 1, state |-> StateInit(capacity, base)]

NoCache == EmptyCache(<<>>, 0, 0)
NoSaved == [prefix |-> <<>>, rows |-> <<>>, last |-> Item(IMAGE, NoPage, 0)]

(* A row as computed now, and as copied from an earlier window.            *)
Rotated(item, at) ==
  [tok |-> item.tok, page |-> item.page, at |-> item.at,
   token |-> at.token, parity |-> at.page % 2]

Append1(c, tok, row, generated) ==
  [c EXCEPT !.rows = Append(@, row),
            !.coords = Append(@, Coordinates(c.state, tok, generated)),
            !.state = StateStep(@, tok, generated)]

Compute(c, item, generated) ==
  IF ~c.ok \/ StepFails(c.state, item.tok, generated) THEN [c EXCEPT !.ok = FALSE]
  ELSE Append1(c, item.tok,
               Rotated(item, Coordinates(c.state, item.tok, generated)), generated)

Replay(c, tok, row) ==
  IF ~c.ok \/ StepFails(c.state, tok, FALSE) THEN [c EXCEPT !.ok = FALSE]
  ELSE Append1(c, tok, row, FALSE)

-----------------------------------------------------------------------------
(* Starting a window.                                                      *)

(* The request's ids after BOS and its first page.                         *)
FreshFrom == PageRows + 2

WindowPrompt(r) ==
  IF Reuse = 1
  THEN saved.prefix \o SubSeq(RequestItems(r), FreshFrom, 1 + r.views * PageRows)
  ELSE RequestItems(r)

(* Defective variants: the page base of the first owned page; the forced   *)
(* marker starts the context page.                                         *)
PageBaseOwned == doc.next
ContextMarkersNone == 0

PageCounters(r) == r.views + Reuse + 1
PageBase == IF Reuse = 1 THEN doc.next - 1 ELSE doc.next
ContextMarkers == 1

(* Image tokens take the rows of the encoded fresh views in order; without *)
(* a fresh view the last row of the lookahead page is recomputed from its  *)
(* saved embedding.                                                        *)
VisualItem(r, n) ==
  IF r.views = Reuse THEN saved.last
  ELSE Item(IMAGE, doc.next + Reuse + ((n - 1) \div ImageRows),
            ((n - 1) % ImageRows) + 1)

(* A row of the prompt: copied, and the counters replayed, or computed.    *)
Feed(c, r, i) ==
  LET tok == c.prompt[i].tok
      visual == [c EXCEPT !.visual = @ + 1]
  IN IF i <= Copied(r) THEN Replay(c, tok, saved.rows[i])
     ELSE IF tok = IMAGE THEN Compute(visual, VisualItem(r, visual.visual), FALSE)
     ELSE Compute(c, c.prompt[i], FALSE)

Prefilling(r) ==
  LET prompt == WindowPrompt(r)
      fed[i \in 0..Len(prompt)] ==
        IF i = 0 THEN EmptyCache(prompt, PageCounters(r), PageBase) ELSE Feed(fed[i - 1], r, i)
  IN fed[Len(prompt)]

(* Text rows are copied back without stepping the counters.                *)
RestoreText(c) ==
  [c EXCEPT !.rows = @ \o SubSeq(saved.rows, doc.prefix + 1, doc.prefix + doc.text),
            !.coords = @ \o [i \in 1..doc.text |->
               [token |-> 0, page |-> 1 + c.state.parity, image |-> NoPage, query |-> 0]],
            !.state.markers = @ + ContextMarkers,
            !.state.started = TRUE]

PrefilledCache(r) ==
  LET c == Prefilling(r) IN
  IF Reuse = 1 /\ c.ok THEN Compute(RestoreText(c), Item(PAGE, doc.next, 0), TRUE) ELSE c

-----------------------------------------------------------------------------
(* Retaining a tail.                                                       *)

(* The marker of the last owned page, and where its image rows end.        *)
ScannedMarker ==
  CHOOSE i \in 1..Len(cache.prompt) :
    /\ cache.prompt[i].tok = PAGE
    /\ Cardinality({j \in 1..i : cache.prompt[j].tok = PAGE}) = win.reuse + doc.owned
ScannedEnd ==
  CHOOSE e \in ScannedMarker..Len(cache.prompt) :
    /\ \A j \in (ScannedMarker + 1)..e : cache.prompt[j].tok = IMAGE
    /\ e = Len(cache.prompt) \/ cache.prompt[e + 1].tok # IMAGE

(* Defective variant: forgets the restored text before the generated rows. *)
GeneratedFromPrompt == win.prompt

GeneratedFrom == win.prompt + win.saved

Retained ==
  LET images == RetainedPrefix - 1
      text   == GeneratedFrom + TextStart
  IN [prefix |-> <<Item(PAGE, doc.next + doc.owned - 1, 0)>>
                   \o SubSeq(cache.prompt, TailStart + 1, TailStart + images),
      rows   |-> <<cache.rows[ScannedMarker]>>
                   \o SubSeq(cache.rows, TailStart + 1, TailStart + images)
                   \o SubSeq(cache.rows, text + 1, text + RetainedText),
      last   |-> Item(IMAGE, doc.next + win.views - 1, ImageRows)]

-----------------------------------------------------------------------------
CacheInit == SessionInit /\ cache = NoCache /\ saved = NoSaved

CacheBegin(cap) == DocumentBegin(cap) /\ UNCHANGED <<cache, saved>>
CacheGenerate == GeneratePrepared /\ UNCHANGED <<cache, saved>>
CacheEnd == DocumentEnd /\ saved' = NoSaved /\ UNCHANGED cache

CacheWindow(first, owned, look, r) ==
  /\ GenerateWindow(first, owned, look, r)
  /\ cache' = IF win'.decoding THEN PrefilledCache(r) ELSE NoCache
  /\ saved' = IF doc'.open THEN saved ELSE NoSaved

(* The page a generated token transcribes, and its place there.            *)
GeneratedItem(token) ==
  LET g == GuardAccept(win.guard, token) IN
  Item(token, IF g.markers = 0 THEN NoPage ELSE doc.next + g.markers - 1, g.length)

CacheDecode ==
  /\ win.decoding
  /\ \E token \in WindowFilter :
       \/ /\ TurnOutcome(token) = "ok" /\ CompleteWindow
          /\ saved' = IF doc.look = 1 THEN Retained ELSE saved
          /\ cache' = NoCache
       \/ /\ TurnOutcome(token) = "running" /\ EmitToken(token)
          /\ cache' = Compute(cache, GeneratedItem(token), TRUE)
          /\ UNCHANGED saved
       \/ /\ TurnOutcome(token) \notin {"ok", "running"} /\ WindowFails(TurnOutcome(token))
          /\ cache' = NoCache /\ saved' = NoSaved

CacheFault == DecodeFault /\ cache' = NoCache /\ saved' = NoSaved

CacheNext ==
  \/ \E cap \in PageCaps : CacheBegin(cap)
  \/ \E first \in FirstPages, owned \in OwnedPages, look \in {0, 1}, r \in Requests :
       CacheWindow(first, owned, look, r)
  \/ CacheDecode
  \/ CacheFault
  \/ CacheEnd
  \/ CacheGenerate

CacheSpec == CacheInit /\ [][CacheNext]_cacheVars

-----------------------------------------------------------------------------
(* The row counts of DocumentSession are those of the rows themselves, and *)
(* the end of the owned images, found by scanning the prompt, is where the *)
(* retention arithmetic puts it.                                           *)
LayoutAgrees ==
  win.decoding =>
    /\ Len(cache.prompt) = win.prompt
    /\ Len(cache.rows) = win.length /\ Len(cache.coords) = win.length
    /\ doc.look = 1 => ScannedEnd = TailEnd

(* The page counters never refuse a token of an admitted window.           *)
ReplaySucceeds == win.decoding => cache.ok

(* What the next window attends to is one contiguous piece of the          *)
(* document: the marker and the image tail of the page before, its window's *)
(* pages entire and in order, and the newest text of the page before.      *)
ContextIsContiguous ==
  win.decoding =>
    LET items == [i \in 1..Len(cache.rows) |->
                    Item(cache.rows[i].tok, cache.rows[i].page, cache.rows[i].at)]
        pages == PageItems(doc.next, win.views)
        tail  == win.prompt - Len(pages) - 1
        text  == SubSeq(items, win.prompt + 1, win.prompt + win.saved)
    IN IF win.reuse = 0
       THEN SubSeq(items, 2, 1 + Len(pages)) = pages
       ELSE /\ tail >= TailRows
            /\ items[1] = Item(PAGE, doc.next - 1, 0)
            /\ SubSeq(items, 2, win.prompt)
                 = SubSeq(PageItems(doc.next - 1, 1), PageRows - tail + 1, PageRows) \o pages
            /\ \A i \in DOMAIN text :
                 /\ text[i].tok = TEXT /\ text[i].page = doc.next - 1
                 /\ text[i].at = text[1].at + i - 1

(* Keys computed in an earlier window were rotated by the page parity this *)
(* window computes for them; and rows of the window's own pages, the       *)
(* lookahead page computed before included, by the same token position.    *)
RopeConsistent ==
  win.decoding => \A i \in DOMAIN cache.rows :
    LET row == cache.rows[i]
        at  == cache.coords[i]
    IN /\ row.parity = at.page % 2
       /\ row.tok = IMAGE => row.parity = (row.page + 1) % 2
       /\ row.page >= doc.next => row.token = at.token

(* The rows are where the counters, the tables and the rotation take them  *)
(* to be.                                                                  *)
RowsInPlace == LayoutAgrees /\ ReplaySucceeds /\ RopeConsistent

(* Every row that writes text of a page, restored or generated, is routed  *)
(* to that page's image rows and to no other's.                            *)
QueriesSeeTheirPage ==
  win.decoding => \A i \in (win.prompt + 1)..Len(cache.rows) :
    cache.rows[i].page # NoPage =>
      {j \in DOMAIN cache.rows : cache.coords[j].image = cache.coords[i].query}
        = {j \in DOMAIN cache.rows :
             cache.rows[j].tok = IMAGE /\ cache.rows[j].page = cache.rows[i].page}
=============================================================================
