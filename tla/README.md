# Verification of unlimitedocr.c

TLA+ models of the control logic of unlimitedocr.c: the document sessions that
transcribe a PDF page by page, the Python stream over them, the sharing of an
engine between threads, the rows of the attention cache that one window hands
to the next, the memory a request takes and gives back; and, around the engine,
the conversion of a checkpoint into a model file, the cache those files are
published in, the functions that take a document to a parsed text, and the
fixture directories of the parity tests. Every definition is translated from the
source; `PROJECT.json` gives, under `map`, the lines of each.

- [The system](#the-system)
- [Modules](#modules)
- [What is checked](#what-is-checked)
- [Bounds](#bounds)
- [Fairness](#fairness)
- [Findings](#findings)
- [What is proved](#what-is-proved)
- [What is only model-checked](#what-is-only-model-checked)
- [What is not modelled](#what-is-not-modelled)
- [Plan](#plan)
- [Running it](#running-it)

## The system

unlimitedocr.c runs an OCR model on Metal. A Python package
(`src/unlimitedocr_c`) prepares requests and calls a C library
(`src/core`, `src/runtime`, `src/model`, `src/backend/metal`) over ctypes.

| Component | State it keeps | Operations |
|---|---|---|
| API object `UnlimitedOCR` (`api.py`) | reentrant lock, `_engine` and its two capacities, `_document_active` | `generate`, `stream_pages` (a generator), `close`, `_ensure_engine` |
| `Engine` (`ffi.py`) | native handle, its own lock, `_document_active` | constructor, `document`, `document_window`, `generate_prepared`, `close`, `last_error` |
| C engine (`uocr_api.c`) | `document_active`, token limits, `last_error` per engine and `g_last_error` per thread, memory tracker, profile | `uocr_engine_open/close`, `uocr_generate_prepared`, `uocr_document_begin/generate_window/end` |
| Document session (`uocr_metal_document.inc`) | `ctx->document`: next page, page cap, pending and finished flags, retained prefix and text with their key/value rows | `begin`, `set_window`, `validate_window`, `metal_generate_document_window`, `metal_document_retain`, `end` |
| Page counters and guard (`uocr_page_state.c`) | markers, prompt pages, rows per page; markers and length of the page being written | `state_init/step`, `guard_filter/accept` |
| Metal context (`uocr_metal.m`) | mapped model, DASH cache, arenas, command batch | map and unmap, decode, cache allocation |
| Memory tracker and admission (`uocr_memory.c`, `uocr_api.c`) | live bytes per category and in total; the bytes the engine booked for arenas | reserve, release, estimate; admission of a request against `memory_budget_bytes` |
| Converter (`convert.py`, `tensor_registry.py`, `quant_cfg.py`) | the shards and documents of a checkpoint; a plan of tensors; the file being written with two positions in it | check and plan, number, choose a type, lay out, validate, stream, compare |
| Model cache (`api.py`, `convert.py`) | the entry, a staged file and a hidden temporary beside it, a statistics file | resolve, download, convert, publish, map |
| Frontend (`frontend.py`), request checks (`ffi.py`, `uocr_request_validation.c`) | none: pure | prepare image, page and text requests; admit or refuse them, three times |
| Tokenizer cache (`frontend.py`) | one tokenizer per path with the identity of the file it was read from | load, validate |
| Convenience functions and parser (`ocr.py`, `parsing.py`) | the engine, PDF document and directory a call has opened; the parser's position | `ocr_image`, `ocr_pages`, `ocr_pdf`, `generate*`, `parse_ocr` |
| Golden tools (`golden.py`, `parity.py`) | a directory of arrays with a manifest | dumps that contain other dumps; loads |
| Sequence, vision schedule, profile, allocator counters, logits processor | see [Plan](#plan) | |
| Model file loader, kernels, CPU reference, performance tools | see [What is not modelled](#what-is-not-modelled) | |

How they interact. A stream calls the native library once per window. The
library keeps, between two windows, a page it was shown in advance (the
lookahead page) and a tail of its cache; the Python generator keeps the same
lookahead page in its buffer. Three flags (`UnlimitedOCR._document_active`,
`Engine._document_active`, `engine->document_active`) and one pointer
(`ctx->document`) say that a document is open, and they are raised and cleared in
different places. Between two chunks the consumer of the stream runs, and while
a window is being filled the caller's page iterable runs; both hold the object's
lock and may call the object again.

What is hard in it:

- *failure in the middle*: a window can fail in about twenty places, and each must
  leave the session closed and the flags able to admit the next document;
- *two copies of the same state*: the stream's buffer and the session's lookahead
  page, first page and page cap must agree, window after window;
- *admission before the fact*: memory and context are admitted from the request as
  prepared, but the window runs on a prompt rewritten around the retained tail;
- *accounting spread over three files*: the engine books arenas, the context scratch
  and the document its state, each from its own error paths, and a v1 engine decides
  from one of them whether another is still right;
- *loops without their own bound*: the decode loop ends only because the guard
  forces markers and EOS;
- *reuse of old rows*: rows of an earlier window keep the rotary position they were
  computed with while the page counters are replayed with window-local numbers;
- *files that change underfoot*: a shard may be replaced between the reading of its
  header, the check of its data and the reading of it, a tokenizer while it is read, a model while
  it is mapped; a crash leaves part of a file or part of a directory;
- *addresses by arithmetic*: tensors are found by numbers computed from names, and
  experts by a base and a stride, with nothing in between that would notice a gap;
- *the same rule written three times*: what a request is, in two languages;
- *threads*: an object may be shared, an engine may be replaced under it, and the
  text of an error is read in a second call after the one that failed.

`PROJECT.json` lists these under `hazards`, each at its line with the properties
that would notice it going wrong.

What makes each part correct, in a sentence: a document's pages come out once and
in order; a failed window ends the session; the rewritten window fits what was
admitted; what a window retains fits its arrays and is one contiguous piece of the
document; every generated row attends to its own page's image; the byte counters agree with
the buffers, nothing of a request outlives it, and what is live stays within what
was admitted; calls on one engine
never overlap and always come back; engines are neither leaked nor used after they
were closed; a converted file holds each tensor of its source once, where the
directory and Metal look for it; a cache entry is always a whole model; a fixture's
expectations come with the inputs they were computed from; a request the frontend
prepares is refused by the engine for its size alone; a call of `ocr.py` gives back all it opened; and
a tokenizer that is returned was at the path during the call.

## Modules

`PageGuard` holds the guard of `uocr_page_state.c` (lines 11-22) and the token
filter of the argmax kernels over the three kinds of tokens they tell apart: PAGE,
EOS and TEXT. The guard forces the next PAGE (or EOS) when a page reaches its cap
and excludes EOS until the owned pages are there.

`DocumentSession` is the native session. Callers serialize the calls on an engine,
so a call that does not decode is one step; `GenerateWindow` is a window from
`uocr_document_generate_window` to the end of its prefill, `DecodeStep` one turn
of the loop at `uocr_metal_document.inc:322-360`, `DecodeFault` a device failure.
`doc` is `ctx->document`, `active` is `engine->document_active`, `win` the locals
of `metal_generate_document_window`, `ret` what the last call returned. The model's
tokens are any the filter allows. Cached rows are counted.

`WindowCache` adds the rows themselves to `DocumentSession`: for each, the token,
the page of the document it shows and the rotary coordinates its key was computed
with. It models the prompt rewrite, the replay of the page counters over copied
rows, the restored text, the forced marker, decoding and retention. Key and value
contents are abstracted to these labels.

`PageStream` composes `DocumentSession`, which it extends, with the Python side on one
thread. The session's operations get their arguments from the stream, so the input
sets of `DocumentSession` are empty in its runs. Its own state is the generator's
program counter, page buffer and counters, the consumer between chunks, the page
iterable, and the other methods of the object that these may call.
`EndStream` is the unwinding of the finally clauses and context managers.
`PageDelivery` is what a stream promises: pages appended in order, each once,
`complete` only when all of them were delivered.

`SharedEngine` models threads that share objects: the reentrant lock, engine
selection, opening, replacement and closing, native calls split into start and
finish so that they can overlap, streams suspended at their yield with the lock
held, nested calls of the consumer, and the two error texts. `NativeContract` is
what the C header asks of its callers: on one engine one operation at a time, on
an open engine, windows inside a session, everything else outside.

`RequestMemory` models the memory of one engine call by call: admission, the
buffers a request takes in the order in which the code takes them, a failure at each
of them, and the release on every way out, for a v1 engine, which keeps arenas and
decoder scratch between requests, and for a v2 engine, which keeps only an open
document. `stage` is the place in the call, `booked` the bytes each buffer is booked
with per category, `arenaTokens` the capacity of the context's arenas, which other
code allocates and books, `tracker` is `engine->memory_tracker`. A window only has a
size here; its prefix and text rows are any that `metal_document_retain` can leave.
`MemoryTracker` holds the counters, with the refusal of a release that asks too much,
and `MemoryEstimate` the size of each buffer and the admission estimate. The unit is
16 bytes. Peaks are left out, image requests have global views encoded in one chunk,
and the cached position tables and upload staging that admission adds for a document
window are not tracked by the code and not counted here: the modelled estimate is the
smaller one, which makes the check against it the stronger one.

`MCEngineMemory` runs both architectures of `RequestMemory` as one system, by
INSTANCE, so that one run answers for both.

The conversion is a tower, each module extending the one below it:

- `TensorIds`: the numbers the runtime knows tensors by. A name is a record of the
  kind of module, its layer, its number and its part.
- `QuantPolicy`: which tensors a configuration quantizes, and which configurations
  are accepted.
- `CheckpointSource`: a directory of shards, some with data, some with a cached
  header only, an index, and the configuration files; a plan is made of them in the
  order of `build_dry_run_plan`.
- `ConvertedFile`: the one pass that assigns offsets (`LayOut` to `PlaceScale`), the
  check of the experts' layout (`Validate`), and the streaming of payload and
  scales through two positions (`WriteRows`, `NextTensor`). The file is a function
  from offsets to what was written there, so an overwritten or misplaced byte shows.
- `ShardReading`: how the writer gets the data of the plan. `ResolvePayloads` groups
  the tensors by shard, `CheckShard` checks the header and the length of one shard
  (`_resolve_safetensors_payloads`), `OpenShard` opens one of them again
  (`write_uocr_model`), `ReadRows` reads a chunk of what is open, and `ReplaceShard`
  renames another version over a shard between any two of these.
- `Conversion`: all of these together, with the plan for a single tensor, as
  `python -m unlimitedocr_c.convert` runs them.
- `TensorCompare`: `--compare-uocr`, on a file that may have been damaged since,
  under a plan that may be of another profile or another configuration. The profile
  in the header of the file and the type of the tensor are compared as well as the
  bytes. The checkpoint is the one that was converted (`SameCheckpoint`): a
  comparison with another one says nothing of the conversion.

`ModelCache` models files as inodes behind path names: a rename moves a name, an open
file follows its inode. Processes resolve one entry, convert beside it, publish
statistics and model, map the file, fail, and are killed at any step.

`FrontendRequest` holds what the frontend prepares (`Prepare*`) and the two gates
after it (`FfiAccepts`, `NativeAccepts`), over runs of tokens of one kind.
`TokenizerCache` has one lane per thread, the lock while it is held, and files known
by an identity that a replacement changes. `OcrParsing` reads a page, a block or a
mark in a step and is compared with `InFormat` and `FormatPages`, a definition of the
format by each control and its neighbours, which does not go through the text in order.
A text is a sequence of symbols, a header the set of its places that are no white space.
`OcrCommand` composes the three: one call, from rasterizing to the parsed text, with
a failure at every step and the unwinding of its `finally` clauses.

`GoldenFixtures` builds each dump as the sequence of its steps from the dumps it
calls, and runs dumps one after another into one directory, failing and crashing.
A file's content is the set of dumps its data came from.

The theorems are in modules of their own: `DocumentProofs`, about the session and
the stream over it, which `WindowCacheProofs` extends for the session's theorems,
`SharedEngineProofs`, `RequestMemoryProofs`, `ModelCacheProofs`, `OcrCommandProofs`,
`ConversionProofs` and `GoldenFixturesProofs`.
The `MC*` modules define the small instances.

Definitions whose comment starts with *Defective variant* or says *mutant* are
plausible bugs (a dropped row, a missing reset, a flag that survives, a lock that is
not reentrant, an identity taken too late). No specification uses them; each one is
what a property is known to exclude, and `mutants` in `PROJECT.json` says which
definition it stands in for.

## What is checked

| Run | Question | Properties |
|---|---|---|
| `document_session` | Does a session survive every sequence of valid and invalid calls, every token choice and every failure? | `FailuresContained`: a failed window leaves no session, the flag agrees with the pointer, and the loop's defensive errors are unreachable; `WindowFits`: the rewritten window is within what was admitted (rows, queries, page counters, metadata) and the retained tail fits; `PagesStayCapped`; `WindowReturnsOwnedPages`; `WindowEnds` |
| `page_stream` | Do the stream and the session agree on the document through failures, early closes, nested calls and successive streams? | `StreamAndSessionAgree`: the flags nest, the session expects the page after those delivered and retains the page that is buffered; `WithinBounds`: no window is refused for its size, reading ahead is bounded, the output limit holds across windows; `DeliversInOrder`: `PageDelivery` is implemented; `StreamAnswers` |
| `page_stream_uncapped` | Can a stream without an output limit run out of output? | see [Findings](#findings) |
| `shared_engine` | Do two threads on one object keep out of each other's way? | `SharingSafe`: the lock is held once per frame, engines are accounted for, native calls exclude each other; `ErrorsPaired`: an error text is the call's own; `HonoursContract`: `NativeContract` is implemented; `CallsReturn` |
| `window_cache` | What does a window attend to? | `RowsInPlace`: the counted rows are the rows, the counters accept every token, copied keys have the parity the new window gives them; `ContextIsContiguous`: one piece of the document; `QueriesSeeTheirPage` |
| `engine_memory` | Does an engine of either architecture account for what it keeps, through every failure? | `TrackerAgrees`; `FootprintOfEither`: only what an engine keeps on purpose survives a request, and the context's arenas are those booked; `VisionBeforeDecoder`; `LiveWithinEstimate`: what is live on a v2 engine stays within the estimate, without its margin |
| `request_memory_budget` | Is the budget a bound for a v1 engine? | see [Findings](#findings) |
| `model_cache` | Is a cache entry always a whole model? | `PublishesWhole`: the entry is absent or complete and of one conversion (`EntryWhole`), and a staged file is the stager's own; `StatsOfEntry`; `FailureKeepsEntry`; `MappedFilesStable`: what an engine has mapped never changes |
| `model_cache_overlap` | And when two conversions overlap in time? | see [Findings](#findings) |
| `conversion` | Is a converted file its source, quantized? | `FileFaithful`: regions are disjoint, every byte of every tensor is written once and nothing is overwritten; `ExpertsPlaced`: a layout that was accepted is one Metal's base and stride address if the experts have the same shapes, which strict and v2 conversions check, and a regular one is accepted; `ReadsItsTensors`: the rows of all tensors of a shard are read from one version of it, the one that was checked against the plan, whenever it was replaced but between its check and its opening; `IdsStable`: numbers are distinct, order the directory, and are the same in both checkpoints; `CompareSound`: a comparison says 0 exactly if profile, type and bytes are the plan's, and the first difference it reports is one |
| `golden_fixtures` | Can a fixture directory lie? | `ExpectationsOfOneDump`: expectations never come with the inputs of another dump; `FinishedDumpReloads`: a finished dump is loaded as it was written |
| `ocr_command` | What does a call of `ocr.py` leave behind, and are its parts consistent? | `CallsLeaveNothing`: engine, document and directory are given back on every way out; `RequestsFit`: a request the frontend prepared passes the checks of ctypes, and the library refuses it for its size alone; `TokenizerIsCurrent`: what a load returns was at the path at some moment of the call, and is of the model asked for; `ParseMatchesFormat` |

Each type invariant is checked in the run of its module. `WindowReturnsOwnedPages`, `StatsOfEntry`,
`FailureKeepsEntry` and `MappedFilesStable` are action properties; `WindowEnds`,
`StreamAnswers` and `CallsReturn` are liveness properties; `DeliversInOrder` and
`HonoursContract` are refinements. `CHECK_DEADLOCK FALSE` appears where the system
really stops: once the threads have made their calls (`shared_engine`), the files
are written or refused (`conversion`), the dumps are made (`golden_fixtures`), the
call has returned and the files are used up (`ocr_command`), and a symmetric cache
has run out of inodes (`model_cache`).

Every property of a passing run has a mutant that TLC finds violating it.

## Bounds

The source's row counts are 273 image rows, a tail of 128 in blocks of 32, 128
text rows, 290 extra rows. The instances keep the relations between them that the
assumption `SessionConstants` names, and scale them down.

- `document_session`: pages of a marker and two image rows, tails of one row in
  blocks of two, one text row, three extra rows (tight: `TailRows + BlockRows +
  TextRows = ExtraRows + 1`), a context of 19 rows, so that some windows fit the
  request but not the context. One, two and three views, no, few and too many
  output tokens, page caps around the largest allowed: each validity test of a
  call is met and missed, both alignments of the tail occur, and text is retained
  whole and truncated. First pages up to 4 give three windows in a row, and a
  reusing window that retains again is the inductive case.
- `page_stream`: sources of zero to three pages, windows of one and two pages, so
  windows with and without lookahead, a final window of one page, and a source
  that ends exactly at a window. Windows of three pages do not fit the context and
  are refused by `OptionsValid`. Output limits below and at a page cap.
  The single-image requests are smaller and larger than a stream's engine, so a
  stream meets an engine it can use and one it must replace.
- `page_stream_uncapped`: windows of one page, cap two, no limit.
- `shared_engine`: two threads, two calls each (a stream with a nested call uses
  both), two sizes of engine so that growing and reusing both occur, one window per
  stream, two handles. Two threads and one object give every contention on a lock;
  the theorems cover the rest.
- `window_cache`: pages of four rows, tails of one or two rows, two text rows,
  up to five pages, so that a tail is cut from rows that were themselves copied.
- `engine_memory`, v1: texts of 1, 40 and 900 tokens and one image, so that arenas
  are made, kept, grown and dropped, and prefill runs with and without scratch.
- `engine_memory`, v2: the source's own numbers, a mixed-Q4 model, every tail length
  `metal_document_retain` can leave (403 to 434 rows) with no, one, some and all of
  the text, windows of one, two and three pages with and without a lookahead, and a
  budget under which a page of four views is refused and everything else is admitted.
- `request_memory_budget`: a short text and one of 20000 tokens.
- `model_cache`: two processes, two conversions that differ, files of a header and
  one more chunk, five inodes: two mapped, the entry, a staged and a temporary file.
- `conversion`: one sparse layer of two experts whose down projection is transposed,
  in one and two shards, whole and with some sixty things wrong one at a time;
  layouts of every mix of the three types and two shapes; alignments larger and
  smaller than a tensor; chunks of one and three rows, so that the last is short;
  two damaged bytes anywhere in a small file. One shard is replaced once, by a file
  with other headers, shorter or longer, at any moment between the configuration and
  the last row: one replacement is enough to come between any two of the four
  readings of a shard. Header and length of a shard are read in one step.
- `golden_fixtures`: two dumps (`MaxDumps`) of any kind, of texts of two lengths and
  images as long as one of them, contiguous or not, with features that fit or not.
  Two are enough for a directory to be used again after any partial dump. A load is
  one step: it runs on a directory at rest.
- `ocr_command`: every crop grid of both models, eight prompts in three forms, no to
  three pages, budgets around zero, the prompt's length and the positions; three
  tokenizer files (`MaxFiles`), which another thread loads and replaces while the
  call lasts; 4,804 texts of up to four pieces. Identities never return: a file
  moved away and back is not a new one in the model.

`MaxCalls`, `MaxWindows`, `MaxDumps` and `MaxFiles` are the only bounds on counters; `EngineLimits`,
`PageCaps`, `Requests`, `FirstPages`, `OwnedPages`, `Options`, `MaxSource`,
`SingleRequests` and `Needs` are sets of inputs, as are `Requests`, `TailRows` and
`TextRows` of `RequestMemory`, and `Sources`, `Damages`, `Commands` and `Texts` of the
modules around the engine. The theorems hold for all of their values.

## Fairness

- `FairSessionSpec`: weak fairness of `DecodeStep`. A native call runs to its end
  on the thread that made it; nothing is assumed of who calls, nor that a fault
  comes to its help.
- `PageStream!FairSpec`: weak fairness of the generator's steps, which is what
  `next(chunks)` executes, and of the caller's iterable answering. Nothing makes
  the consumer ask again, and failures are not fair. `StreamAnswers` therefore says
  that the generator by itself reaches a yield, a return or an exception.
- `SharedEngine!FairSpec`: every thread that can take a step takes it, and the
  consumer of a stream goes on with it or closes it, as README.md:115-117 of the
  repository asks. A Python `RLock` is not fair, so weak fairness of `Acquire` gives
  nothing while others keep taking the lock; `CallsReturn` holds because calls are
  finite in number. It says that no call is stuck behind a lock that nobody will
  release, not that waiting is bounded.

## Findings

### A window's output allowance

The README of the repository says that `max_output_tokens=None` "leaves total
document output uncapped" (README.md:110) and that the page cap forces a page turn
or EOS (README.md:108-109). `stream_pages` also gives every window an allowance of
`owned * max_page_tokens + 256` tokens (`api.py:574`), which the native loop
enforces by failing the window. The caps of the owned pages do not add up to all a
window can generate: text before the first marker, which may grow to a page cap of
its own before the marker is forced, and the markers themselves also consume the
allowance. So a window without an output limit can still exhaust and raise, which
`page_stream_uncapped` shows; it takes full pages and more than 256 tokens of such
text and markers.

### The budget of a v1 engine

README_DESIGN.md:163-166 says that the engine computes an estimate for every
component, rejects a request whose estimate exceeds `memory_budget_bytes`, and that
this "guarantees that no runtime OOM can occur during inference". The estimate of a
v1 request has no transient bytes (`uocr_memory.c:658` sums a field nothing sets),
while prefill books the scratch of its mixture of experts as transient, rounded up
to a power of two. `request_memory_budget` shows a text of 20000 tokens that is
admitted under 4.00 GB with an estimate of 3.87 GB, margin included, and reaches
4.22 GB. For v2 requests, whose estimate has the decoder's own sizes,
`LiveWithinEstimate` holds, and is proved.

### Two conversions of one cache entry

The documentation says that `force_reconvert` "atomically replaces it after
conversion succeeds; failed conversions leave existing files intact" (`api.py:204`,
README.md:150), and advises one instance per lane (`api.py:357`). The names of the
staged file and of its temporary are fixed by the entry's name (`api.py:165`,
`convert.py:2671`). `model_cache_overlap` lets two conversions overlap: while the first
is about to rename its finished file, the second unlinks it and opens a new one under
the same name; the first renames that one, twice, and the entry is a model that is
still being written, in TLC's trace an empty one. The run checks `EntryWhole`, of the
entry alone. With one conversion at a time, whatever fails or is killed, `model_cache`
holds.

## What is proved

The proof modules are checked by TLAPS for every value of the constants that the
named assumptions allow.

**DocumentSession**, from `SessionConstants` (positive sizes, tail and block fit a
page, tail, block and text fit the extra rows; with the source's numbers
128 + 32 <= 274 and 128 + 32 + 128 <= 291) and `SessionInputs` (types of the inputs).
The inductive invariant is `SessionInv`. The safety properties alone are not
inductive, because a retained tail is shaped by the window before it and the
window by the request it was started with; so `DocInv` says that a retained prefix
holds at least a marker, a minimal tail and the lookahead page, `LayoutInv` how the
window's rows follow from the document and the request, and `ProgressInv` how many
markers and tokens it can have. The subtle step is retention in a window that
itself reuses a tail: the image tail ends at `prefix + (owned - 1) * PageRows`, and
aligning it costs less than a block, so the new prefix is again below the arrays'
size and above the minimum. `TypesHold`, `FailuresAreContained`, `WindowsFit` and
`PagesRespectTheCap` follow, and `WindowsReturnTheirPages`, the action property.

**PageStream**, from the same assumptions and `StreamInputs` (types of a stream's
arguments, sources and requests). `StreamInv` is `SessionInv` with the stream's part:
the pages delivered and then those buffered are one run from page 0 (`Buffered`), the
engine has the capacities that were computed from the stream's arguments (`Serving`),
the output limit is kept (`Budgeted`), the three flags nest (`Flags`), and what the
session expects at rest (`Between`) and was given when it runs (`InCall`).
That both sides agree is not inductive by itself: after a call they agree because
of what the call was given, which `InCall` keeps while the session decodes. The
subtle lemma is `PreparedIsAdmitted`: capacities are computed once, for a window of
all pages with a lookahead and without a tail, and must admit every later window,
shorter ones, those whose prompt is rewritten around a tail, and those whose
allowance is what the output limit leaves. `SidesAgree` and `BoundsHold` follow,
and `ImplementsDelivery`, the refinement of `PageDelivery`: a step appends the next
pages, completes a stream of which every page was delivered, gives up, or stutters.

**SharedEngine**, from `SharingConstants` (`NoThread` and `NoHandle` are no thread
and no handle; `ObjectOf` is a function). The invariant is `LockInv /\ EngineInv`.
`LockInv` says that the lock is held once per frame of its owner (`LockBalanced`)
and adds that a thread with a suspended stream can at most be in a refused nested
call, because its document stays active. `EngineInv` says that a call works with
the engine its object has, that objects have distinct engines, and that an engine
has no session before the stream's begin and after its end. With them the thread
that takes a step is alone in its object, so nobody else's part of the invariant
can break. `SharingIsSafe` follows.
`ImplementsContract` is the refinement: under the mapping of `SharedEngine!Contract`
each step opens an engine, starts or finishes one operation of `NativeContract`, or
leaves it alone, for any number of threads, objects and engines.
The two error texts need one invariant more: `PairInv` says that from a failure to
the exception that names it, the text that will be read is the failure's. Other
threads write texts in that time, but of other engines: the thread that failed still
owns its object's lock, and no two objects have the same engine. `ErrorsArePaired`
and `SharingTypesHold` follow.

**WindowCache**, from the same assumptions as `DocumentSession`. `CacheFollowsSession`
says that the module implements the session: every step of the rows is one of the
control, so `SessionInv` carries over. `CacheInv` is about the rows, and its
difficulty is that they are computed by loops: a prompt is prefilled row by row, each
step reading the page counters that the one before it left. The proof goes through a
closed form. `RowItem` is the i-th item of a window's prompt, `StateAt` are the page
counters after i of them, both functions of i, of the window's first page and of where
its pages start; `StateNext` is one turn of the loop, and `PrefillingIs` concludes that
the loop ends with every row at the coordinates of the closed form (`RowCoords`), by
the least row at which it would not. `CacheHolds` says what a window's cache holds: its
prompt, what text was restored behind it, the tokens decoded since. Prefilling and
restoring establish it (`PrefilledHolds`, `RestoreHolds`) and each token that is fed
keeps it (`EmitHolds`). It is not inductive from window to window, because rows that a
window copies were computed by one before it, at other coordinates and with another
first page. `SavedHolds` carries them over: what a document keeps is a tail that
starts inside a page, a lookahead page and consecutive text of the page before. That a window
leaves such a tail is `TailNumbers` (where the cut falls, also when the rows cut are
themselves copies), `PrefixRetained` and `RowsRetained`; that the next one, numbering
its pages from one page earlier, gives the copied rows the parity they were computed
with is `ItemAgrees`. `RowsAreInPlace`, `ContextsAreContiguous` and
`QueriesSeeTheirPages` follow, for any number of windows of any number of pages.
TLC had checked `CacheInv` in every state of `window_cache` before the proof.

**RequestMemory**, from `MaxBytesAssumption` and `MemoryConstants` (requests are
well-typed, a text has no views and every other request has some, a v2 prompt has a
row for every image row, retained tails have the lengths the code leaves). The
invariant is `IInv`: `Accounted`, which is `TrackerAgrees` with types; `RequestOK`,
which request is served at which stage; and `Holds`, which buffers may be held at
which stage. `TrackerAgrees` alone would be preserved by a release, but not by a
booking: replacing an entry of `booked` is exact only when the buffer was not booked
before, and that is what `Holds` knows. The arithmetic is in five lemmas: what
is live splits into the buffers of a set and the rest (`SplitBooking`), so that
freeing (`FreeAgrees`), booking (`BookAgrees`) and replacing a buffer with the new
one booked first (`EnsureAgrees`) are exact, and no release is refused
(`ReleaseExact`). `TrackerIsExact`, `NothingIsLeftBehind`, `PhasesAreDisjoint`,
`ArenasAreBooked` and `TypesHold` follow.

`EstimateIsEnough` needs more, because `LiveWithinEstimate` compares two sums that
are computed at different times: the estimate from the request as it was sent, and
what is booked, buffer by buffer, while it is served. `SizesOK` relates them. Each
buffer of a v2 engine has an expected size that is a function of the request alone
(`Expected`), computed from the largest prompt a window can be rewritten to:
`MostRows`, the prompt sent and at most `Extra` rows of a retained tail. `WithinExpected`
says that no buffer is larger than expected, `ScratchInOrder` that those of the vision
phase are gone before the first of the decoder, and `KeptSizes` what a document keeps
between requests. Capacities are rounded up, so that each expectation is monotone
(`CapacityGrows`, `ArenasGrow`, `DashGrows`, `ScratchGrows`, `VisionGrows`); an action
either frees buffers, books one at a size within its expectation, or leaves them
alone (`EmptiesStep`, `TakesStep`, `RestsStep`). `EstimateAddsUp` sums the expectations
of the buffers that may be live together, and `RequestWithinAdmission` compares the
sum with what admission computed.

**ModelCache**, from `CacheConstants` and, as each theorem states, `~Overlap`: one
conversion at a time, which is what [the finding](#two-conversions-of-one-cache-entry)
shows to be necessary. `PublishesWhole` is not inductive, because a rename publishes
whatever the hidden file holds; `IInv` follows that file from its opening. `Writing`
says that the writer's open file is the hidden one and is filled up to the writer's
position, `Apart` that no file has two names, `MapsApart` that no engine has mapped a
file in the making, `Alone` that one process converts, `Planned` and `Reported` which
plan the file, the entry and the statistics belong to. Killed processes leave all of
these as they were, and what they leave on disk is unlinked before it is reused.
`EntryIsWhole` and the action properties `StatsDescribeEntry`, `FailuresKeepTheEntry`
and `MappedFilesStay` follow, for any number of processes, chunks and inodes.

**OcrCommand**, from `CallerAssumption`, `CommandAssumption` and, for the parser,
`TextsAssumption` (a text is a sequence of the symbols). The invariant has a
part for each component: `TokenizersHold`, that a cached tokenizer is never older than
the identity it is known by, whatever was replaced between the two, and where each
load under way got what it holds; `ResourcesHold`, at which steps a call may have an
engine, an open document, a temporary directory or a load; `PagesHold`, that the
pages rendered are the first ones and, once a request is made, all of them.
`NothingIsLeft` and `TokenizersAreCurrent` follow, for any number of threads and
any sequence of replaced files.
`RequestsPassTheGates` is about the requests themselves, for prompts of any length,
every crop grid, any number of pages and any budget; of the options it needs their types
and that a grid is one that `find_closest_aspect_ratio` may return, of a given engine that its
limits are those of one of the models (`CommandAssumption`). A count of tokens is a
sum over the runs of a prompt, which induction would compute; without it, `TotalIs`
takes the least place where the partial sums differ from what is claimed of them.
`RunsHold` and `RunsCount` say what the runs of a prompt are, and which tokens,
placeholders and image and `<PAGE>` positions follow; `SpansMatch` that in v2, where
the frontend counted as many `<PAGE><image>` as there are pages, each page is
followed by an image and each image follows a page, as the library wants of the runs.
`Matches` puts these beside the views and the grid, and from it `RequestMade` holds of
every `prepare_image`, `prepare_pages` and `prepare_text` that is not refused
(`ImageMade`, `PagesMade`, `TextMade`), whether its budget is capped or not. On the
steps of a call, `RequestHolds` and `EngineHolds` remember that the request is such a
one and that an engine of the call's own was opened with its limits. `SizeDecides` is
the rest: what is left of the library's checks is the size.

`TextsAreParsed` is about the parser, for texts of any length. `ParseInv` says what it
has read up to its position: `GoodV2` and `GoodV1` that everything before it is in the
format, with headers that end before it, but for the white space behind the last mark,
which the parser skips and only the control after it settles (`V2Settled`); `ArrivedV2`
behind which mark it stands, which is how the parser's two memories, blocks read and a
`<MERGE>` pending, agree with what precedes a place in the text (`V2Before`); `GivenV2`
that it has given the pages before the last mark, and of the last page the blocks so
far. The pages and blocks of the format are in the order of their places, by rank and
not by recursion, so that one more place at the end is one more element
(`InOrderAppend`), which replaces an induction over the text. A step that reads keeps
this true (`V2PageReads`, `V2MergeReads`, `V2BlockReads`, `V1LabelReads`,
`V1BlockReads`); one that stops is at a place that no text in the format has
(`V2StopsOutside`, `V1StopsOutside`); at the end what was read is all of the format
(`V2EndReads`, `V1EndReads`).

**Conversion**, from `SourceAssumption` (the shards and options a conversion may find
are well-formed, and headers are finite), `ContractAssumption`, `GroupAssumption` and
`FileConstants` (alignments, chunks, records and the quantization group are positive), `ExpertShapes`
(the registry expects the same shapes of all experts of a layer,
`tensor_registry.py:263`) and `NoMismatch` (`None` is no position). There is no bound
on tensors, shards, layers, experts, sizes or chunks. Ids come first, by arithmetic
alone: `LayerIdsDistinct`, for up to 90 layers of up to 300 experts, and
`ExpertIdsConsecutive`. They order the plan (`PlanIsOrdered`). Then three inductive
invariants.

- `ConversionInv` is `SourceInv /\ FileInv /\ Reading`. `SourceInv` remembers what the
  checks accepted: from the end of `CheckTensors` the tensors can be planned, and the
  plan is one of them. `FileInv` is the layout and the stream. That regions are
  disjoint is not inductive before all are placed: `Slabs` keeps every slab placed so
  far below the cursor, and `Placing` which of them are placed at each stage of a
  group, payloads first and scales after. That the file is exact is not inductive
  before it is whole: `Content` says what it holds up to the writer's position in each
  slab, `NothingElse` that it holds no more, and `Positions` that the two positions are
  where the rows written so far put them, which is what makes the writer's own count
  check unreachable. `Reading` follows each shard from its check to the last row
  (`OneVersion`): what the check saw has the planned tensors at the planned places and
  is what the name has until the shard is opened, unless it was replaced before that;
  what was opened stays, and all rows come from it. `ConversionTyped`, `FilesAreFaithful`, `TensorsAreRead` and `IdsAreStable` follow.
- `PlacedInv` adds `Joints`, that neighbouring slabs of a group follow one another with
  the gap alignment needs, through every step of the layout, and `Judged`, that a layout goes on
  exactly if it was accepted; with `Shaped`, which shapes were checked. The proof of
  `ExpertsArePlaced` goes through the whole layer: experts are consecutive tensors of
  the directory, each starts where the one before it ends, and adding these up by
  expert gives the base and stride that Metal uses. The validation itself does not
  compare shapes: a v1 conversion that is not strict may have experts of different
  shapes without a gap, which pass it and which base and stride do not address.
  `SameShapes` is therefore a premise of `ExpertsAddressable`, and `CheckedShapes` says
  where it holds.
- `CompareInv`, on top of `ConversionInv`: damage is all that the file differs by
  (`Holding`), and the rows compared are clean or the mismatch found is the first one
  (`Looked`). The mismatch is first in the order of comparing, a chunk's payload before
  its scales, so that a later byte of the payload may differ as well; `FirstIs` says
  what can be said of rows instead, whatever the chunk. `ComparisonsAreSound` follows.

**GoldenFixtures**, from `GoldenAssumption`: there is a layer at least, and a request
has a token at least and no more image tokens than tokens. Nothing bounds the number of
requests, dumps, tokens or layers. A dump is a long sequence of steps, built from
the sequence of the dump it calls, and a claim about each place in each of the ten would be
unreadable, so the argument has two parts. The first looks at the steps of a dump
without running them. `StepHolds` says what a step may count on in the steps before it: a
write follows the manifest that names nothing, a commit names what was written and
counts the layers that were written, and a reload in the middle of a dump finds all it
needs; `StepsLead` says that it holds at every step of every dump, and is proved dump
by dump from the dump it calls. The second part runs them. `DirectoryOk` is inductive: the
files and the manifest hold what the steps done so far have put there (`FilesOk`,
`ManifestOk`), each dump is at a step of its own sequence (`JobOk`), and an expectation
that any manifest names, of a dump that crashed long ago or of the one under way, comes
with files of that dump only (`ExpectationsOk`). The last is not inductive by
itself: a write replaces a file of an earlier dump, and what keeps the claim is that the
dump saved a manifest without expectations before it wrote any file that a load reads, which is the first
part's `Save`. `ExpectationsComeTogether` and `FinishedDumpsReload` follow. The module
sets rows of a mapping by `Updated` and not by `@@`, which the provers do not know.

## What is only model-checked

Liveness (`WindowEnds`, `StreamAnswers`, `CallsReturn`), which is beyond the
prover; and `FootprintOfEither`
as one property of both architectures, of which `RequestMemoryProofs` proves the two
halves for each of them.

## What is not modelled

- Floating-point arithmetic on the GPU and its CPU reference: the kernels matter
  here only through the token filter they apply and the positions they are given.
  Likewise the arithmetic of images (resizing, crops by aspect ratio), of
  quantization, of the reference decoder in `golden.py` and of the parity thresholds.
- Tokenization and download, which other libraries do: they succeed or fail.
- The model file loader: a sequential check of an external format whose outcome is
  all that other components see.
- The stress, profiling and benchmark tools; the provenance record, the statistics'
  contents and the printed reports of a conversion; profile events and reports.
- `golden.py`'s loaders of SAM, CLIP and projected features: nothing in the
  repository writes their files.
- `load_prepared_fixture`, which nothing in the package calls: it loads no expectations,
  and reads the arrays that `save_prepared_request` writes after its manifest.
- The cache of the end-of-text string (`_EOS_TEXT_CACHE`), which is known by the same
  identity of a file as the tokenizers that `TokenizerCache` models, and is filled
  from a tokenizer that came through that cache.
- The warm-up request of an engine, whose failure is only a warning, and the default
  path of the tokenizer.
- `Engine` used directly by several threads, reports and resets of memory and
  profile counters.
- Hazards that no property covers are listed in `PROJECT.json` with the reason: a
  generated image token, which the code does not mask and the documentation does
  not mention; a suspended stream finalised on a thread that does not own the lock,
  and two streams whose consumers call each other's object; a tokenizer validated
  for the identity of the file before the one that was read; the race between
  raising and resetting the allocator's peak.
- A shard that is replaced after `_resolve_safetensors_payloads` has checked it and
  before `write_uocr_model` opens it again (`convert.py:2007`, `convert.py:2692`). The
  two steps and the replacement between them are modelled, and rows are then read at
  places found in the other version, without an error if it is long enough.
  `ReadsItsTensors` leaves this window out, and only this: without the exception for
  `late` shards TLC finds the window.

## Plan

Done: the engine (`PageGuard`, `DocumentSession`, `PageStream` with `PageDelivery`,
`SharedEngine` with `NativeContract`, `WindowCache`, `RequestMemory` with
`MemoryTracker` and `MemoryEstimate`) and what surrounds it (`ModelCache`, the
conversion from `TensorIds` to `TensorCompare`, `FrontendRequest`, `TokenizerCache`,
`OcrParsing`, `OcrCommand`, `GoldenFixtures`); the proofs of `DocumentSession`,
`PageStream` with its refinement, `SharedEngine` with its error texts, `WindowCache`
as an implementation of the session, `RequestMemory`, `ModelCache`, `OcrCommand` with
the requests of `FrontendRequest` and the parser, the whole conversion, and the dumps
of `GoldenFixtures`.

Next, in this order:

1. `CommandBatch`: the command batch and the arenas of `uocr_metal.m`: what is
   encoded is committed or abandoned, and no arena is reused while the GPU may
   still read it.
2. `SharedEngine` extended by a finalising thread and by objects that call each
   other; `Engine` under direct sharing.
3. `AllocCounters` and `Profile`: the concurrent live and peak counters, and the
   event table with its drop counter.
4. `Sequence`, `VisionSchedule`, `LogitsProcessor`: pure operators checked against
   reference definitions.
5. A refinement of the windows of `DocumentSession` by those of `RequestMemory`.

## Running it

```
tlc -workers 2 -config DocumentSession.cfg     MCDocumentSession
tlc -workers 2 -config PageStream.cfg          MCPageStream
tlc -workers 2 -config PageStreamUncapped.cfg  MCPageStream       # ends in a violation
tlc -workers 2 -config SharedEngine.cfg        MCSharedEngine
tlc -workers 2 -config WindowCache.cfg         MCWindowCache
tlc -workers 2 -config EngineMemory.cfg        MCEngineMemory
tlc -workers 2 -config RequestMemoryBudget.cfg MCRequestMemory    # ends in a violation
tlc -workers 2 -config ModelCache.cfg          MCModelCache
tlc -workers 2 -config ModelCacheOverlap.cfg   MCModelCache       # ends in a violation
tlc -workers 2 -config Conversion.cfg          MCConversion
tlc -workers 2 -config GoldenFixtures.cfg      MCGoldenFixtures
tlc -workers 2 -config OcrCommand.cfg          MCOcrCommand
tlapm DocumentProofs.tla
tlapm SharedEngineProofs.tla
tlapm WindowCacheProofs.tla
tlapm RequestMemoryProofs.tla
tlapm ModelCacheProofs.tla
tlapm OcrCommandProofs.tla
tlapm ConversionProofs.tla
tlapm GoldenFixturesProofs.tla
```
