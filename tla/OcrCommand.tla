----------------------------- MODULE OcrCommand -----------------------------
(***************************************************************************)
(* One call of the convenience functions of src/unlimitedocr_c/ocr.py      *)
(* (generate_prepared, generate, ocr_image, ocr_pages, ocr_pdf), from the  *)
(* pages of a document to a parsed text: over the request of               *)
(* FrontendRequest, the tokenizers of TokenizerCache, which other threads  *)
(* load too, and the parser of OcrParsing.                                 *)
(*                                                                         *)
(* Anything may raise at any step; what the call has opened by then is     *)
(* closed on the way out.                                                  *)
(***************************************************************************)
EXTENDS FrontendRequest, TokenizerCache, OcrParsing

CONSTANTS
  Commands,   \* calls: kind, preparation options, engine given or to open, ...
  Caller      \* the thread that makes the call

ASSUME CallerAssumption == Caller \in Lanes

(* A page is cut in a grid that find_closest_aspect_ratio chooses from; an *)
(* engine that is given has the limits of one of the models.               *)
ASSUME CommandAssumption == \A c \in Commands :
  /\ c.o \in [model : Contents \ {"foreign"}, prompt : Seq({"text", "PAGE", "image"}),
              preset : {"base", "gundam"}, grid : Nat \X Nat, pages : Nat,
              maxLength : Int, maxNew : Int \cup {None}]
  /\ c.o.grid \in Grids(c.o.model) /\ c.maxGen \in Int \cup {None}
  /\ c.owned \in BOOLEAN /\ c.keep \in BOOLEAN
  /\ c.form \in {"image", "pages", "text"}
  /\ c.kind = "pdf" => c.form = "pages"
  /\ c.fileModel \in {"v1", "v2"}
  /\ ~c.owned => \E model \in {"v1", "v2"} :
       /\ c.limits = Limits(model, c.limits.prompt, c.limits.gen)
       /\ c.limits.prompt \in Nat \ {0} /\ c.limits.gen \in Nat \ {0}

VARIABLES
  command,    \* the call
  step,       \* where it is
  request,    \* the prepared request
  engine,     \* the engine used: its limits, open or not, and whose it is
  document,   \* the PDF is open
  directory,  \* page files there, by number: the document of each
  isTemporary, \* the directory is the call's own, or none
  rendered    \* paths that pdf_to_images returns, as their numbers

commandVars == <<command, step, request, engine, document, directory, isTemporary, rendered>>
vars == <<commandVars, tokenizerVars, parseVars>>

(* A directory given by the caller may hold the pages of another document. *)
OldPages(n) == [i \in 1..n |-> "old"]
NoEngine == [is |-> "none"]

Init ==
  /\ command \in Commands
  /\ step = "start"
  /\ request = Refused
  /\ engine = IF command.owned THEN NoEngine ELSE [is |-> "given", limits |-> command.limits]
  /\ document = FALSE /\ isTemporary = FALSE
  /\ directory = IF command.keep THEN OldPages(command.oldPages) ELSE <<>>
  /\ rendered = <<>>
  /\ TokenizerInit
  /\ ParseInit

At(place) == step = place
Become(place) == step' = place
OutOfParser == UNCHANGED parseVars
OutOfTokenizers == UNCHANGED tokenizerVars
Untouched == OutOfParser /\ OutOfTokenizers

-----------------------------------------------------------------------------
(* pdf_to_images                                                           *)

OpenDocument ==
  /\ At("start") /\ command.kind = "pdf"
  /\ isTemporary' = ~command.keep
  /\ document' = TRUE
  /\ Become("raster")
  /\ UNCHANGED <<command, request, engine, directory, rendered>> /\ Untouched

SavePage ==
  /\ At("raster") /\ Len(rendered) < command.o.pages
  /\ LET n == Len(rendered) + 1
     IN  /\ directory' = [i \in DOMAIN directory \cup {n} |->
                            IF i = n THEN "own" ELSE directory[i]]
         /\ rendered' = Append(rendered, n)
  /\ UNCHANGED <<command, step, request, engine, document, isTemporary>> /\ Untouched

CloseDocument ==
  /\ At("raster") /\ Len(rendered) >= command.o.pages
  /\ document' = FALSE
  /\ Become("prepare")
  /\ UNCHANGED <<command, request, engine, directory, isTemporary, rendered>> /\ Untouched

-----------------------------------------------------------------------------
(* Preparing, on the tokenizer of the model.                               *)

Options == IF command.kind = "pdf" THEN [command.o EXCEPT !.pages = Len(rendered)] ELSE command.o

Request ==
  CASE command.form = "image" -> PrepareImage(Options)
    [] command.form = "pages" -> PreparePages(Options)
    [] command.form = "text" -> PrepareText(Options)

(* ocr_image, ocr_pages and ocr_pdf cap what max_length leaves. *)
Final == IF Request.ok /\ command.kind \in {"image", "pages", "pdf"}
         THEN Capped(Request, command.maxGen) ELSE Request

Prepare ==
  /\ \/ At("start") /\ command.kind # "pdf"
     \/ At("prepare")
  /\ BeginLoad(Caller, command.o.model)
  /\ Become("loading")
  /\ UNCHANGED <<command, request, engine, document, directory, isTemporary, rendered>>
  /\ OutOfParser

TakeRequest ==
  /\ At("loading") /\ Is(Caller, "return") /\ Final.ok
  /\ request' = Final
  /\ EndLoad(Caller)
  /\ Become(IF command.owned THEN "open" ELSE "generate")
  /\ UNCHANGED <<command, engine, document, directory, isTemporary, rendered>>
  /\ OutOfParser

-----------------------------------------------------------------------------
(* generate_prepared                                                       *)

(* EngineOptions sized for the request; the model file may be of either.   *)
OpenEngine ==
  /\ At("open")
  /\ engine' = [is |-> "owned", limits |-> OwnedLimits(command.fileModel, request)]
  /\ Become("warmup")
  /\ UNCHANGED <<command, request, document, directory, isTemporary, rendered>> /\ Untouched

(* Engine._warmup on a new engine: a request of its own, which may not fit *)
(* an engine sized for another; that is a warning.                         *)
WarmRequest ==
  PrepareImage([model |-> "v1", prompt |-> <<"image", "text">>, preset |-> "base",
                grid |-> <<1, 1>>, pages |-> 1, maxLength |-> Positions("v1"), maxNew |-> 2])

Warmup ==
  /\ At("warmup")
  /\ \E ran \in {NativeAccepts(WarmRequest, engine.limits), FALSE} :
       engine' = [is |-> "owned", limits |-> engine.limits, warm |-> ran]
  /\ Become("generate")
  /\ UNCHANGED <<command, request, document, directory, isTemporary, rendered>> /\ Untouched

Generate ==
  /\ At("generate")
  /\ FfiAccepts(request) /\ NativeAccepts(request, engine.limits)
  /\ Become("decode")
  /\ UNCHANGED <<command, request, engine, document, directory, isTemporary, rendered>>
  /\ Untouched

(* decode_generated_ids asks for no model. *)
Decode ==
  /\ At("decode")
  /\ BeginLoad(Caller, "any")
  /\ Become("decoding")
  /\ UNCHANGED <<command, request, engine, document, directory, isTemporary, rendered>>
  /\ OutOfParser

Decoded ==
  /\ At("decoding") /\ Is(Caller, "return")
  /\ EndLoad(Caller)
  /\ Become("close")
  /\ UNCHANGED <<command, request, engine, document, directory, isTemporary, rendered>>
  /\ OutOfParser

CloseEngine ==
  /\ At("close")
  /\ engine' = IF command.owned THEN NoEngine ELSE engine
  /\ Become("leave")
  /\ UNCHANGED <<command, request, document, directory, isTemporary, rendered>> /\ Untouched

(* The end of the with statement of ocr_pdf. *)
Leave ==
  /\ At("leave")
  /\ isTemporary' = FALSE
  /\ directory' = IF isTemporary THEN <<>> ELSE directory
  /\ Become("returned")
  /\ UNCHANGED <<command, request, engine, document, rendered>> /\ Untouched

-----------------------------------------------------------------------------
(* Failing.                                                                *)

(* The checks that are not made of state may fail anywhere else too. *)
Fail ==
  /\ step \notin {"close", "leave", "unwind", "returned", "raised", "warmup"}
  /\ IF At("loading") \/ At("decoding")
     THEN (Is(Caller, "raised") \/ Is(Caller, "return")) /\ EndLoad(Caller)
     ELSE OutOfTokenizers
  /\ Become("unwind")
  /\ UNCHANGED <<command, request, engine, document, directory, isTemporary, rendered>>
  /\ OutOfParser

\* mutant: an owned engine is closed after the decoding, not in a finally clause
UnwindForgets ==
  /\ At("unwind")
  /\ document' = FALSE
  /\ isTemporary' = FALSE
  /\ directory' = IF isTemporary THEN <<>> ELSE directory
  /\ Become("raised")
  /\ UNCHANGED <<command, request, engine, rendered>> /\ Untouched

(* The finally clauses of generate_prepared and pdf_to_images, then the    *)
(* with statement of ocr_pdf.                                              *)
Unwind ==
  /\ At("unwind")
  /\ engine' = IF command.owned THEN NoEngine ELSE engine
  /\ document' = FALSE
  /\ isTemporary' = FALSE
  /\ directory' = IF isTemporary THEN <<>> ELSE directory
  /\ Become("raised")
  /\ UNCHANGED <<command, request, rendered>> /\ Untouched

-----------------------------------------------------------------------------
(* While the call lasts another thread loads a tokenizer of that path, or  *)
(* the file is replaced.                                                   *)
Others ==
  /\ command.concurrent /\ step \notin {"returned", "raised"}
  /\ \/ \E l \in Lanes \ {Caller} :
          (\E want \in Contents \cup {"any"} : want # "foreign" /\ BeginLoad(l, want)) \/ EndLoad(l)
     \/ Replace
  /\ UNCHANGED commandVars /\ OutOfParser

Loading ==
  /\ \E l \in Lanes : LoadStep(l)
  /\ UNCHANGED commandVars /\ OutOfParser

(* The text of a call that returned is parsed. *)
ParseOutput ==
  /\ At("returned") /\ command.parses
  /\ ParseNext
  /\ UNCHANGED commandVars /\ OutOfTokenizers

Next ==
  \/ OpenDocument \/ SavePage \/ CloseDocument \/ Prepare \/ TakeRequest
  \/ OpenEngine \/ Warmup \/ Generate \/ Decode \/ Decoded \/ CloseEngine \/ Leave
  \/ Fail \/ Unwind
  \/ Loading \/ Others \/ ParseOutput

Spec == Init /\ [][Next]_vars

-----------------------------------------------------------------------------
(* Properties.                                                             *)

(* Whatever fails where, a call that ended holds no engine of its own, no  *)
(* open document, no directory and no load, and the engine it was given is *)
(* as it was; and what it read of a PDF is every page of that document in  *)
(* order, also where a directory that is kept has pages of another one     *)
(* (ocr.py: generate_prepared, pdf_to_images, ocr_pdf).                    *)
CallsLeaveNothing ==
  /\ step \in {"returned", "raised"} =>
       /\ engine = IF command.owned THEN NoEngine
                   ELSE [is |-> "given", limits |-> command.limits]
       /\ ~document /\ ~isTemporary /\ load[Caller] = Idle
       /\ ~command.keep => directory = <<>>
  /\ command.kind = "pdf" /\ request.ok =>
       /\ rendered = [i \in 1..command.o.pages |-> i]
       /\ Len(request.views) = command.o.pages
       /\ command.keep => \A i \in DOMAIN rendered : directory[rendered[i]] = "own"

(* The limits of an engine for the request's model.                        *)
Fits(r, limits) ==
  /\ r.tokens <= limits.prompt /\ r.maxNew <= limits.gen
  /\ r.tokens + r.maxNew <= limits.positions

(* The frontend, the ctypes layer and the library agree on what a request  *)
(* is: what is prepared passes the checks of ctypes, and the library       *)
(* refuses it for its size alone, on an engine opened for it only when it  *)
(* runs past the positions of the model; a request of v1 is none of v2     *)
(* (frontend.py: prepare_*; ffi.py: _validate_public_view_contract;        *)
(* uocr_request_validation.c).                                             *)
RequestsFit ==
  request.ok =>
    /\ FfiAccepts(request)
    /\ LET own == OwnedLimits(command.o.model, request)
           used == IF engine.is = "none" THEN own ELSE engine.limits
       IN  /\ NativeAccepts(request, own)
                 <=> request.tokens + request.maxNew <= own.positions
           /\ used.separated = (command.o.model = "v2")
                 => (NativeAccepts(request, used) <=> Fits(request, used))
           /\ NativeAccepts(request, OwnedLimits("v2", request)) => command.o.model = "v2"
=============================================================================
