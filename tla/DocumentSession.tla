--------------------------- MODULE DocumentSession ---------------------------
(***************************************************************************)
(* The native document session of one v2 engine: uocr_document_begin,      *)
(* uocr_document_generate_window and uocr_document_end                     *)
(* (src/core/uocr_api.c) over metal_generate_document_window               *)
(* (src/backend/metal/uocr_metal_document.inc).                            *)
(*                                                                         *)
(* A session transcribes a document in windows.  A window owns some pages  *)
(* and may look one page ahead; when it does, the tail of its attention    *)
(* cache is retained and the next window starts from it.  This module      *)
(* keeps the control and the row counts; WindowCache models the rows.      *)
(*                                                                         *)
(* Callers serialize the calls on an engine, so a call that does not       *)
(* decode is one step and a decoding window is one step per token.  The    *)
(* model's choice of token is nondeterministic within the filter, and any  *)
(* device, vision or allocation failure may strike at any step.            *)
(***************************************************************************)
EXTENDS PageGuard

CONSTANTS
  ImageRows,     \* visual tokens of a page             (UOCR_GLOBAL_VISUAL_TOKENS, 273)
  TailRows,      \* image rows retained at least        (128)
  BlockRows,     \* router block the tail is aligned to (32)
  TextRows,      \* generated rows retained at most     (128)
  ExtraRows,     \* rows admission adds for a document  (UOCR_DOCUMENT_EXTRA_ROWS, 290)
  SlackTokens,   \* output allowance beyond the page caps (256)
  MaxPositions,  \* context of the model                (UOCR_V2_MAX_POSITIONS, 131072)
  MaxPageCap     \* largest max_page_tokens             (20000)

PageRows == ImageRows + 1        \* a page marker and its image tokens

ASSUME SessionConstants ==
  /\ {ImageRows, TailRows, BlockRows, TextRows, ExtraRows, SlackTokens,
      MaxPositions, MaxPageCap} \subseteq Nat \ {0}
  /\ TailRows + BlockRows <= PageRows              \* 128 + 32 <= 274
  /\ TailRows + BlockRows + TextRows <= ExtraRows + 1  \* 128 + 31 + 128 <= 290

CONSTANTS
  EngineLimits,  \* token limits an engine may be opened with
  PageCaps,      \* max_page_tokens a caller may ask for
  Requests,      \* prepared requests a caller may submit
  FirstPages,    \* first_page arguments
  OwnedPages     \* owned_pages arguments

(* A prepared request, reduced to what the window code reads of it.  Its    *)
(* prompt is BOS, then views times PAGE and ImageRows image tokens, then   *)
(* `instruction` more; `base` says that the views are global ones and that *)
(* the prompt has exactly this shape.                                      *)
RequestRecords ==
  [views : Nat \ {0}, instruction : Nat, maxNew : Nat, base : BOOLEAN]

ASSUME SessionInputs ==
  /\ EngineLimits \subseteq [prompt : Nat, gen : Nat]
  /\ PageCaps \subseteq Nat
  /\ Requests \subseteq RequestRecords
  /\ FirstPages \subseteq Nat
  /\ OwnedPages \subseteq Nat

NTokens(r) == 1 + r.views * PageRows + r.instruction

VARIABLES
  limits,  \* max_prompt_tokens and max_gen_tokens of the open engine
  active,  \* engine->document_active
  doc,     \* ctx->document; open says it is allocated
  win,     \* the window being decoded, if any
  ret      \* what the last call returned

sessionVars == <<limits, active, doc, win, ret>>

NoDocument ==
  [open |-> FALSE, next |-> 0, cap |-> 0, owned |-> 0, look |-> 0,
   pending |-> FALSE, finished |-> FALSE, prefix |-> 0, text |-> 0]

NoWindow ==
  [decoding |-> FALSE, views |-> 0, tokens |-> 0, maxNew |-> 0, reuse |-> 0,
   prompt |-> 0, saved |-> 0, queries |-> 0, length |-> 0, count |-> 0,
   marker |-> 0, guard |-> [expected |-> 0, cap |-> 0, markers |-> 0, length |-> 0]]

Returned(op, status) == [op |-> op, status |-> status, markers |-> 0, count |-> 0]

-----------------------------------------------------------------------------
(* uocr_document_begin.  The budget check and the two allocations fail     *)
(* together as "memory".                                                   *)

BeginIsValid(cap) == ~active /\ ~doc.open /\ cap \in 1..MaxPageCap

DocumentBegin(cap) ==
  /\ ~win.decoding
  /\ \/ /\ BeginIsValid(cap)
        /\ doc' = [NoDocument EXCEPT !.open = TRUE, !.cap = cap]
        /\ active' = TRUE
        /\ ret' = Returned("begin", "ok")
     \/ /\ BeginIsValid(cap)
        /\ ret' = Returned("begin", "memory")
        /\ UNCHANGED <<doc, active>>
     \/ /\ ~BeginIsValid(cap)
        /\ ret' = Returned("begin", "invalid")
        /\ UNCHANGED <<doc, active>>
  /\ UNCHANGED <<limits, win>>

(* uocr_document_end is idempotent: it frees the state if there is any.    *)
DocumentEnd ==
  /\ ~win.decoding
  /\ doc' = NoDocument
  /\ active' = FALSE
  /\ ret' = Returned("end", "ok")
  /\ UNCHANGED <<limits, win>>

(* uocr_generate_prepared: refused during a document; otherwise it leaves  *)
(* nothing of itself behind (every v2 request state is released).          *)
GeneratePrepared ==
  /\ ~win.decoding
  /\ \E status \in IF active THEN {"invalid"} ELSE {"ok", "fault"} :
        ret' = Returned("generate", status)
  /\ UNCHANGED <<limits, active, doc, win>>

-----------------------------------------------------------------------------
(* Starting a window: metal_document_set_window, then the validation and   *)
(* the admission estimate of generate_prepared_impl.                       *)

SetWindowIsValid(first, owned, look) ==
  /\ ~doc.pending
  /\ ~doc.finished
  /\ first = doc.next
  /\ owned \in 1..(MaxPositions \div PageRows)
  /\ look \in {0, 1}
  /\ first # 0 => doc.prefix # 0

RequestIsValid(r) ==
  /\ NTokens(r) <= limits.prompt
  /\ r.maxNew <= limits.gen
  /\ NTokens(r) + r.maxNew <= MaxPositions

WindowIsValid(r, owned, look) ==
  /\ r.base
  /\ r.views = owned + look
  /\ r.maxNew \in 1..(owned * doc.cap + SlackTokens)

(* Defective variant: forgets the rows a document adds.                    *)
AdmittedTokensPlain(tokens, maxNew) == tokens + maxNew

(* The capacities admission is computed from, and the limit on the first.  *)
AdmittedTokens(tokens, maxNew) == tokens + maxNew + ExtraRows
AdmittedQueries(tokens) == tokens + ExtraRows
AdmittedPages(views) == views + 2
AdmissionIsValid(r) == AdmittedTokens(NTokens(r), r.maxNew) <= MaxPositions

(* What metal_generate_document_window lays out.  A window that reuses a   *)
(* tail replaces BOS and its first page by the retained prefix, and drops  *)
(* the instruction; when it has no fresh page it recomputes one row.       *)
Reuse == IF doc.prefix # 0 THEN 1 ELSE 0
SavedText == IF Reuse = 1 THEN doc.text ELSE 0
PromptCount(r) ==
  IF Reuse = 1 THEN doc.prefix + (r.views - 1) * PageRows ELSE NTokens(r)
Copied(r) ==
  IF Reuse = 0 THEN 0 ELSE IF r.views = 1 THEN doc.prefix - 1 ELSE doc.prefix
ContextIsValid(r) == PromptCount(r) + SavedText + r.maxNew <= MaxPositions

WindowAdmitted(first, owned, look, r) ==
  /\ SetWindowIsValid(first, owned, look)
  /\ RequestIsValid(r)
  /\ WindowIsValid(r, owned, look)
  /\ AdmissionIsValid(r)
  /\ ContextIsValid(r)

(* Decoder capacity of the window being decoded.                           *)
Capacity == win.prompt + win.saved + win.maxNew
PageCapacity == win.views + win.reuse + 1

(* Entries of the prompt rewrite and of the vision prompt, an int32 and a  *)
(* mask byte each; admission allows two such entries per admitted query.   *)
MetadataEntries == win.prompt + 1 + (win.views - win.reuse) * PageRows

(* The window after its prefill.  A reusing window then restores the text  *)
(* rows and feeds one page marker of its own, its first generated token.   *)
Prefilled(owned, r) ==
  [decoding |-> TRUE, views |-> r.views, tokens |-> NTokens(r), maxNew |-> r.maxNew,
   reuse |-> Reuse, prompt |-> PromptCount(r), saved |-> SavedText,
   queries |-> PromptCount(r) - Copied(r),
   length |-> PromptCount(r) + SavedText + Reuse,
   count |-> Reuse, marker |-> Reuse,
   guard |-> [expected |-> owned, cap |-> doc.cap, markers |-> Reuse, length |-> 0]]

(* Defective variant: the failed window leaves the session open.           *)
WindowFailsOpen(status) ==
  /\ win' = NoWindow
  /\ ret' = Returned("window", status)
  /\ UNCHANGED <<limits, active, doc>>

WindowFails(status) ==
  /\ doc' = NoDocument
  /\ active' = FALSE
  /\ win' = NoWindow
  /\ ret' = Returned("window", status)
  /\ UNCHANGED limits

StartWindow(first, owned, look, r) ==
  /\ active
  /\ WindowAdmitted(first, owned, look, r)
  /\ doc' = [doc EXCEPT !.owned = owned, !.look = look, !.pending = TRUE]
  /\ win' = Prefilled(owned, r)
  /\ ret' = Returned("window", "running")
  /\ UNCHANGED <<limits, active>>

(* A rejected window ends the session; so do the memory budget, a failed   *)
(* allocation, and a failed vision pass or prefill.                        *)
RejectWindow(first, owned, look, r) ==
  /\ active
  /\ IF WindowAdmitted(first, owned, look, r)
     THEN \E status \in {"memory", "fault"} : WindowFails(status)
     ELSE WindowFails("invalid")

(* Without a session the call is refused.                                  *)
RefuseWindow ==
  /\ ~active
  /\ ret' = Returned("window", "invalid")
  /\ UNCHANGED <<limits, active, doc, win>>

GenerateWindow(first, owned, look, r) ==
  /\ ~win.decoding
  /\ \/ StartWindow(first, owned, look, r)
     \/ RejectWindow(first, owned, look, r)
     \/ RefuseWindow

-----------------------------------------------------------------------------
(* Decoding.  An extra marker ends the window when a page follows it or    *)
(* when it reuses a tail; only then may the model select it.               *)

MarkerStop == win.reuse = 1 \/ doc.look = 1

(* Defective variant: the marker is masked before the last owned page.     *)
WindowFilterMaskedEarly ==
  IF MarkerStop THEN GuardFilter(win.guard) ELSE GuardFilter(win.guard) \ {PAGE}

WindowFilter ==
  IF GuardFilter(win.guard) = Tokens /\ ~MarkerStop /\ win.guard.markers = doc.owned
  THEN ExcludeToken(PAGE)
  ELSE GuardFilter(win.guard)

StopsOnMarker(token) == MarkerStop /\ token = PAGE /\ win.guard.markers = doc.owned

(* metal_document_retain: the image tail of the last owned page, aligned   *)
(* to a block, the lookahead page behind it, and the newest text rows.     *)
TailEnd == IF win.reuse = 1 THEN doc.prefix + (doc.owned - 1) * PageRows
                            ELSE 1 + doc.owned * PageRows
TailStart == TailEnd - (TailRows + (TailEnd % BlockRows))
RetainedPrefix == 1 + (TailEnd - TailStart) + PageRows

(* Defective variant: the text starts one token past the marker.           *)
TextStartLate == win.marker + 1

TextStart ==
  IF win.count - win.marker > TextRows THEN win.count - TextRows ELSE win.marker
RetainedText == win.count - TextStart

RetainIsValid ==
  /\ TailEnd >= TailRows + (TailEnd % BlockRows)
  /\ win.length >= win.prompt + win.saved + win.count
  /\ TailStart > TailEnd - PageRows
  /\ TailEnd + PageRows <= win.prompt

Completes(token) ==
  win.guard.markers = doc.owned /\ (token = EOS \/ StopsOnMarker(token))

(* How one turn of the decode loop ends: the window completes, the token   *)
(* is emitted and fed, or one of the loop's errors abandons the window.    *)
TurnOutcome(token) ==
  CASE Completes(token) ->
         IF doc.look = 0 THEN "ok"
         ELSE IF ~RetainIsValid THEN "tail"
         ELSE IF win.marker = 0 THEN "nopage" ELSE "ok"
    [] ~Completes(token) /\ token = EOS -> "premature"
    [] ~Completes(token) /\ token # EOS ->
         IF win.count = win.maxNew THEN "exhausted"
         ELSE IF win.length = Capacity THEN "capacity" ELSE "running"

(* Defective variant: the lookahead page is counted as transcribed.        *)
CompleteWindowAhead ==
  /\ doc' = [doc EXCEPT !.next = @ + doc.owned + doc.look, !.pending = FALSE,
                        !.finished = doc.look = 0]
  /\ win' = NoWindow
  /\ ret' = [op |-> "window", status |-> "ok",
             markers |-> win.guard.markers, count |-> win.count]
  /\ UNCHANGED <<limits, active>>

CompleteWindow ==
  /\ doc' = [doc EXCEPT !.next = @ + doc.owned, !.pending = FALSE,
                        !.finished = doc.look = 0,
                        !.prefix = IF doc.look = 1 THEN RetainedPrefix ELSE @,
                        !.text = IF doc.look = 1 THEN RetainedText ELSE @]
  /\ win' = NoWindow
  /\ ret' = [op |-> "window", status |-> "ok",
             markers |-> win.guard.markers, count |-> win.count]
  /\ UNCHANGED <<limits, active>>

EmitToken(token) ==
  /\ win' = [win EXCEPT !.count = @ + 1, !.length = @ + 1,
                        !.marker = IF token = PAGE THEN win.count + 1 ELSE @,
                        !.guard = GuardAccept(@, token)]
  /\ UNCHANGED <<limits, active, doc, ret>>

DecodeStep ==
  /\ win.decoding
  /\ \E token \in WindowFilter :
       \/ TurnOutcome(token) = "ok" /\ CompleteWindow
       \/ TurnOutcome(token) = "running" /\ EmitToken(token)
       \/ TurnOutcome(token) \notin {"ok", "running"} /\ WindowFails(TurnOutcome(token))

(* A device fault while selecting or feeding a token.                      *)
DecodeFault == win.decoding /\ WindowFails("fault")

-----------------------------------------------------------------------------
SessionInit ==
  /\ limits \in EngineLimits
  /\ active = FALSE
  /\ doc = NoDocument
  /\ win = NoWindow
  /\ ret = Returned("none", "ok")

SessionNext ==
  \/ \E cap \in PageCaps : DocumentBegin(cap)
  \/ \E first \in FirstPages, owned \in OwnedPages, look \in {0, 1}, r \in Requests :
       GenerateWindow(first, owned, look, r)
  \/ DecodeStep
  \/ DecodeFault
  \/ DocumentEnd
  \/ GeneratePrepared

SessionSpec == SessionInit /\ [][SessionNext]_sessionVars

(* The native call runs to its end once it has started; nothing is assumed *)
(* of the caller.                                                          *)
FairSessionSpec == SessionSpec /\ WF_sessionVars(DecodeStep)

-----------------------------------------------------------------------------
(* Type invariant of the session's state.                                  *)
TypeOK ==
  /\ limits \in [prompt : Nat, gen : Nat]
  /\ active \in BOOLEAN
  /\ doc \in [open : BOOLEAN, next : Nat, cap : Nat, owned : Nat, look : {0, 1},
              pending : BOOLEAN, finished : BOOLEAN, prefix : Nat, text : Nat]
  /\ win \in [decoding : BOOLEAN, views : Nat, tokens : Nat, maxNew : Nat,
              reuse : {0, 1}, prompt : Nat, saved : Nat, queries : Nat,
              length : Nat, count : Nat, marker : Nat, guard : Guards]
  /\ ret \in [op : {"none", "begin", "end", "generate", "window"},
              status : {"ok", "running", "invalid", "memory", "fault", "exhausted",
                        "premature", "capacity", "tail", "nopage"},
              markers : Nat, count : Nat]

(* "Failure ends the session" (include/unlimitedocr.h:195): whatever makes *)
(* a window call fail, the retained state is gone when the call returns,   *)
(* and the engine's flag and the context's pointer never disagree.         *)
FailureEndsSession ==
  /\ active = doc.open
  /\ ret.op = "window" /\ ret.status \notin {"ok", "running"} => ~doc.open

(* Admission is computed from the request's own prompt before the prompt   *)
(* is rewritten around the retained tail.  The rewritten window never      *)
(* needs more rows, queries, page counters or prompt metadata than were    *)
(* admitted.                                                               *)
WindowWithinAdmission ==
  win.decoding =>
    /\ Capacity <= AdmittedTokens(win.tokens, win.maxNew)
    /\ win.queries <= AdmittedQueries(win.tokens)
    /\ PageCapacity <= AdmittedPages(win.views)
    /\ MetadataEntries <= 2 * AdmittedQueries(win.tokens)

(* What a window retains fits the fixed arrays of the continuation state   *)
(* (DOC_ROWS: one marker, 159 tail rows, one page, 128 text rows).         *)
RetainedFits ==
  /\ doc.prefix <= 1 + (TailRows + BlockRows - 1) + PageRows
  /\ doc.text <= TextRows

(* The defensive failures inside the loop cannot happen to an admitted     *)
(* window: the cache never overflows, EOS is never selected before the     *)
(* owned pages, and a completed window always has a reusable tail.         *)
NoInternalFailure ==
  ret.op = "window" => ret.status \notin {"premature", "capacity", "tail", "nopage"}

(* No window asks for more than was admitted, nor leaves more than fits.   *)
WindowFits == WindowWithinAdmission /\ RetainedFits

(* A failure ends the session, and only causes outside the loop make one.  *)
FailuresContained == FailureEndsSession /\ NoInternalFailure

(* A successful window returns exactly its owned pages' markers, within    *)
(* its output budget, and advances the document by those pages.            *)
WindowReturnsOwnedPages ==
  [][win.decoding /\ ret'.status = "ok" =>
       /\ ret'.markers = doc.owned
       /\ ret'.count <= win.maxNew
       /\ doc'.next = doc.next + ret'.markers
       /\ (doc'.finished <=> doc.look = 0)]_sessionVars

(* No page of a window grows beyond the session's cap, whatever the model  *)
(* selects (README.md:108-109).                                            *)
PagesStayCapped == win.decoding => win.guard.length <= doc.cap

(* A decoding window ends: it succeeds, fails or exhausts its budget.      *)
WindowEnds == win.decoding ~> ~win.decoding
=============================================================================
