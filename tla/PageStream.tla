------------------------------ MODULE PageStream ------------------------------
(***************************************************************************)
(* The Python document stream: UnlimitedOCR.stream_pages, generate and     *)
(* close (src/unlimitedocr_c/api.py) over Engine.document and              *)
(* Engine.document_window (src/unlimitedocr_c/ffi.py), composed with the   *)
(* native session of module DocumentSession.                               *)
(*                                                                         *)
(* One thread drives the object; SharedEngine models the others, which the *)
(* instance lock keeps out.  That thread runs the generator, the consumer  *)
(* between two chunks, and the caller's page iterator, so the last two can *)
(* call the object again while a document is open.                         *)
(***************************************************************************)
EXTENDS DocumentSession, Sequences

CONSTANTS
  Instruction,    \* tokens of the standard instruction                  (4)
  Options,        \* window_pages, max_page_tokens, max_output_tokens asked for
  MaxSource,      \* most pages a source iterable holds
  SingleRequests, \* capacities that single-image requests need
  FirstEngine     \* capacities the constructor opens      (4096 and 512)

ASSUME StreamInputs ==
  /\ Instruction \in Nat
  /\ MaxSource \in Nat
  /\ Options \subseteq [window : Nat, cap : Nat, maxOut : Nat]
  /\ SingleRequests \cup {FirstEngine} \subseteq [prompt : Nat \ {0}, gen : Nat \ {0}]

(* The session's operations get their arguments from the stream, not from  *)
(* DocumentSession's sets of inputs.  limits is [prompt |-> 0, gen |-> 0]  *)
(* while the object holds no engine: _engine is None and both              *)
(* _engine_*_capacity are 0.                                               *)
VARIABLES
  pc,         \* where the generator is
  opts,       \* arguments of the current or last stream
  source,     \* pages its iterable holds
  read,       \* pages taken from the iterable
  exhausted,  \* the iterable has raised StopIteration
  pages,      \* the pages buffered for the next window
  firstPage,  \* first_page
  total,      \* total_tokens
  delivered,  \* pages whose text was yielded, oldest first
  outcome,    \* how the last stream ended
  apiActive,  \* UnlimitedOCR._document_active
  ffiActive   \* Engine._document_active

nativeVars == <<limits, active, doc, win, ret>>
loopVars == <<exhausted, pages, firstPage, total>>
flagVars == <<apiActive, ffiActive>>
streamVars == <<pc, opts, source, read, loopVars, delivered, outcome, flagVars>>
vars == <<nativeVars, streamVars>>

NoEngine == [prompt |-> 0, gen |-> 0]
NoLimit == 0             \* max_output_tokens is None

LeastOf(a, b) == IF a <= b THEN a ELSE b

-----------------------------------------------------------------------------
(* Engine selection: _ensure_engine reuses an engine that is large enough, *)
(* otherwise closes it and opens one of the requested capacities, exactly. *)
(* Opening may fail and then leaves no engine.                             *)

EngineFits(need) ==
  /\ limits # NoEngine
  /\ need.prompt <= limits.prompt
  /\ need.gen <= limits.gen

(* uocr_engine_close unmaps the model, which ends any document session.    *)
NoSession ==
  /\ active' = FALSE
  /\ doc' = NoDocument
  /\ ffiActive' = FALSE

EnsureEngine(need) ==
  IF EngineFits(need)
  THEN UNCHANGED <<limits, active, doc, ffiActive>>
  ELSE limits' \in {need, NoEngine} /\ NoSession

(* A document refuses other calls on the object: generate, close and a     *)
(* second stream_pages raise when they find it active, changing nothing.   *)
Refused == apiActive

(* The consumer, or the page iterator it supplied, may call the object.    *)
CallerRuns == pc \in {"idle", "yielded", "pull"}

(* UnlimitedOCR.generate, after preparing its image outside the lock.      *)
Generate(need) ==
  /\ CallerRuns
  /\ ~Refused
  /\ EnsureEngine(need)
  /\ IF limits' = NoEngine
     THEN UNCHANGED ret
     ELSE \E status \in {"ok", "fault"} : ret' = Returned("generate", status)
  /\ UNCHANGED <<win, pc, opts, source, read, loopVars, delivered, outcome, apiActive>>

Close ==
  /\ CallerRuns
  /\ ~Refused
  /\ limits' = NoEngine
  /\ NoSession
  /\ UNCHANGED <<win, ret, pc, opts, source, read, loopVars, delivered, outcome, apiActive>>

-----------------------------------------------------------------------------
(* Opening a stream.                                                       *)

PromptCapacity(o) == 1 + Instruction + (o.window + 1) * PageRows
OutputCapacity(o) ==
  IF o.maxOut = NoLimit THEN o.window * o.cap + SlackTokens
  ELSE LeastOf(o.window * o.cap + SlackTokens, o.maxOut)

OptionsValid(o) ==
  /\ o.window >= 1
  /\ o.cap \in 1..MaxPageCap
  /\ PromptCapacity(o) + OutputCapacity(o) + ExtraRows <= MaxPositions

StreamPages(o, n) ==
  /\ CallerRuns
  /\ ~Refused
  /\ OptionsValid(o)
  /\ EnsureEngine([prompt |-> PromptCapacity(o), gen |-> OutputCapacity(o)])
  /\ opts' = o
  /\ source' = n
  /\ read' = 0
  /\ exhausted' = FALSE
  /\ pages' = <<>>
  /\ firstPage' = 0
  /\ total' = 0
  /\ delivered' = <<>>
  /\ IF limits' = NoEngine
     THEN pc' = "idle" /\ outcome' = "incomplete"
     ELSE pc' = "opening" /\ outcome' = "running"
  /\ UNCHANGED <<win, ret, apiActive>>

(* The finally clauses and context managers, innermost first: the native   *)
(* session ends (again, if a failed window already ended it), then the     *)
(* engine's flag and the object's flag are cleared and the lock released.  *)
EndStream(how) ==
  /\ DocumentEnd
  /\ apiActive' = FALSE
  /\ ffiActive' = FALSE
  /\ pages' = <<>>
  /\ pc' = "idle"
  /\ outcome' = how
  /\ UNCHANGED <<opts, source, read, exhausted, firstPage, total, delivered>>

(* The object's flag is raised before Engine.document begins the session.  *)
OpenDocument ==
  /\ pc = "opening"
  /\ DocumentBegin(opts.cap)
  /\ apiActive' = (ret'.status = "ok")
  /\ ffiActive' = (ret'.status = "ok")
  /\ pc' = IF ret'.status = "ok" THEN "top" ELSE "idle"
  /\ outcome' = IF ret'.status = "ok" THEN "running" ELSE "incomplete"
  /\ UNCHANGED <<opts, source, read, loopVars, delivered>>

-----------------------------------------------------------------------------
(* The window loop.                                                        *)

BudgetLeft == opts.maxOut = NoLimit \/ total < opts.maxOut

LoopTop ==
  /\ pc = "top"
  /\ IF BudgetLeft
     THEN /\ pc' = "pull"
          /\ UNCHANGED <<nativeVars, opts, source, read, loopVars, delivered, outcome, flagVars>>
     ELSE EndStream("incomplete")

(* Defective variant: asks an iterable that has ended again and again.     *)
WantsPageForever == Len(pages) < opts.window + 1

WantsPage == ~exhausted /\ Len(pages) < opts.window + 1

(* next(source): a page, or StopIteration.                                 *)
PullPage ==
  /\ pc = "pull"
  /\ WantsPage
  /\ \/ /\ read < source
        /\ pages' = Append(pages, read)
        /\ read' = read + 1
        /\ UNCHANGED exhausted
     \/ /\ read = source
        /\ exhausted' = TRUE
        /\ UNCHANGED <<pages, read>>
  /\ UNCHANGED <<nativeVars, pc, opts, source, firstPage, total, delivered, outcome, flagVars>>

(* The iterable, loading a page, or preparing the window raises.           *)
SourceFails ==
  /\ pc = "pull"
  /\ WantsPage \/ pages # <<>>
  /\ EndStream("incomplete")

NoPages ==
  /\ pc = "pull"
  /\ ~WantsPage
  /\ pages = <<>>
  /\ EndStream("complete")

Owned == LeastOf(opts.window, Len(pages))
Lookahead == IF Len(pages) > Owned THEN 1 ELSE 0

(* Defective variant: each window may use the whole output limit.          *)
WindowLimitFresh ==
  IF opts.maxOut = NoLimit THEN Owned * opts.cap + SlackTokens
  ELSE LeastOf(Owned * opts.cap + SlackTokens, opts.maxOut)

WindowLimit ==
  IF opts.maxOut = NoLimit THEN Owned * opts.cap + SlackTokens
  ELSE LeastOf(Owned * opts.cap + SlackTokens, opts.maxOut - total)

PreparedWindow ==
  [views |-> Len(pages), instruction |-> Instruction, maxNew |-> WindowLimit, base |-> TRUE]

(* prepare_pages, then Engine.document_window enters the native call.      *)
CallWindow ==
  /\ pc = "pull"
  /\ ~WantsPage
  /\ pages # <<>>
  /\ GenerateWindow(firstPage, Owned, Lookahead, PreparedWindow)
  /\ pc' = "native"
  /\ UNCHANGED <<opts, source, read, loopVars, delivered, outcome, flagVars>>

NativeStep  == pc = "native" /\ DecodeStep /\ UNCHANGED streamVars
NativeFault == pc = "native" /\ DecodeFault /\ UNCHANGED streamVars

(* Defective variants: the page number counts the lookahead page; or the   *)
(* lookahead page is dropped from the buffer.                              *)
FirstPageAhead == firstPage + Len(pages)
PagesDropped == <<>>

FirstPageAfter == firstPage + Owned
PagesAfter == IF Lookahead = 1 THEN <<pages[Len(pages)]>> ELSE <<>>

(* The call returned tokens: account for them, slide the buffer, yield.    *)
Yield ==
  /\ pc = "native"
  /\ ~win.decoding
  /\ ret.status = "ok"
  /\ pc' = "yielded"
  /\ total' = total + ret.count
  /\ firstPage' = FirstPageAfter
  /\ delivered' = delivered \o SubSeq(pages, 1, Owned)
  /\ pages' = PagesAfter
  /\ UNCHANGED <<nativeVars, opts, source, read, exhausted, outcome, flagVars>>

(* The call raised, or decoding its tokens to text did.                    *)
WindowRaises ==
  /\ pc = "native"
  /\ ~win.decoding
  /\ EndStream("incomplete")

(* next(chunks): go on after the last chunk, or return if it was the last. *)
Resume ==
  /\ pc = "yielded"
  /\ IF pages # <<>>
     THEN /\ pc' = "top"
          /\ UNCHANGED <<nativeVars, opts, source, read, loopVars, delivered, outcome, flagVars>>
     ELSE EndStream("complete")

(* chunks.close(), or an exception thrown in at the yield.                 *)
CloseStream == pc = "yielded" /\ EndStream("incomplete")

-----------------------------------------------------------------------------
Init ==
  /\ limits = FirstEngine
  /\ active = FALSE
  /\ doc = NoDocument
  /\ win = NoWindow
  /\ ret = Returned("none", "ok")
  /\ pc = "idle"
  /\ opts = [window |-> 1, cap |-> 1, maxOut |-> NoLimit]
  /\ source = 0
  /\ read = 0
  /\ exhausted = FALSE
  /\ pages = <<>>
  /\ firstPage = 0
  /\ total = 0
  /\ delivered = <<>>
  /\ outcome = "idle"
  /\ apiActive = FALSE
  /\ ffiActive = FALSE

GeneratorStep ==
  \/ OpenDocument
  \/ LoopTop
  \/ PullPage
  \/ NoPages
  \/ CallWindow
  \/ NativeStep
  \/ Yield
  \/ WindowRaises

CallerStep ==
  \/ \E need \in SingleRequests : Generate(need)
  \/ Close
  \/ \E o \in Options, n \in 0..MaxSource : StreamPages(o, n)
  \/ Resume
  \/ CloseStream

Next == GeneratorStep \/ SourceFails \/ NativeFault \/ CallerStep

Spec == Init /\ [][Next]_vars

(* next(chunks) runs the generator until it yields, returns or raises, and *)
(* the caller's iterable answers.  Nothing makes the consumer ask again,   *)
(* and no failure is assumed to come to the generator's help.              *)
FairSpec == Spec /\ WF_vars(GeneratorStep)

-----------------------------------------------------------------------------
(* Type invariant of the stream; TypeOK is the session's.                  *)
StreamTypeOK ==
  /\ TypeOK
  /\ pc \in {"idle", "opening", "top", "pull", "native", "yielded"}
  /\ opts \in [window : Nat, cap : Nat, maxOut : Nat]
  /\ {source, read, firstPage, total} \subseteq Nat
  /\ {exhausted, apiActive, ffiActive} \subseteq BOOLEAN
  /\ pages \in Seq(Nat) /\ delivered \in Seq(Nat)
  /\ outcome \in {"idle", "running", "complete", "incomplete"}

(* The three flags that mark a document nest: the native session is open   *)
(* only under Engine.document, and that only under stream_pages.  When no  *)
(* stream runs all are clear, so later calls are neither refused nor       *)
(* served by an engine that still holds a document.                        *)
FlagsNested ==
  /\ doc.open => ffiActive
  /\ ffiActive => apiActive
  /\ apiActive => pc # "idle"

(* Between native calls the generator and the native session agree on the  *)
(* document: the session is open under the stream's page cap, expects the  *)
(* page after those delivered, and its retained lookahead page is exactly  *)
(* the page the generator still buffers, the contract of                   *)
(* include/unlimitedocr.h:188-189.                                         *)
SessionAgrees ==
  pc \in {"top", "pull", "yielded"} =>
    /\ doc.open /\ ~doc.pending
    /\ doc.cap = opts.cap
    /\ doc.next = firstPage /\ firstPage = Len(delivered)
    /\ doc.prefix # 0 /\ ~doc.finished => pages # <<>>
    /\ pages # <<>> => pages[1] = firstPage
    /\ pc \in {"top", "yielded"} /\ firstPage # 0 => (pages = <<>> <=> doc.finished)

(* The flags and the document: both sides are always at the same place.    *)
StreamAndSessionAgree == FlagsNested /\ SessionAgrees

(* The capacities stream_pages computes for the whole stream admit every   *)
(* window it later prepares: the native side never finds one invalid.      *)
WindowsAdmitted == pc = "native" => ret.status # "invalid"

(* "At most that many pages plus one lookahead are read before yielding"   *)
(* (README.md:106): reading runs at most window + 1 pages ahead.           *)
ReadAhead == read <= Len(delivered) + opts.window + 1

(* "A positive value caps emitted tokens across windows" (README.md:110),  *)
(* the window being decoded included.                                      *)
TotalWithinBudget ==
  opts.maxOut # NoLimit =>
    /\ total <= opts.maxOut
    /\ win.decoding => total + win.count <= opts.maxOut

(* What was computed once for the stream bounds each of its windows.       *)
WithinBounds == WindowsAdmitted /\ ReadAhead /\ TotalWithinBudget

(* The stream implements PageDelivery: in order, each page once, complete  *)
(* only when every page of the source was delivered.                       *)
Delivery ==
  INSTANCE PageDelivery WITH
    MaxChunk <- MaxPositions, source <- source, out <- delivered, state <- outcome

DeliversInOrder == Delivery!DeliverySpec

(* Every next(chunks) comes back: the generator yields, returns or raises. *)
StreamAnswers == pc \notin {"idle", "yielded"} ~> pc \in {"idle", "yielded"}

(* README.md:108-113 says that the page cap forces a page turn or EOS, and *)
(* that a window exhausts a budget when max_output_tokens gives one.  So   *)
(* without max_output_tokens no window would end by exhausting its output. *)
UncappedWindowCompletes == opts.maxOut = NoLimit => ret.status # "exhausted"
=============================================================================
