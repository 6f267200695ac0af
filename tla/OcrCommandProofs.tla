-------------------------- MODULE OcrCommandProofs --------------------------
(***************************************************************************)
(* Theorems of OcrCommand: what a call leaves behind, which tokenizer a    *)
(* load returns, that the requests the frontend prepares pass the          *)
(* validations of both sides, and that the output is parsed by the format, *)
(* for any calls, threads, files and texts.                                *)
(***************************************************************************)
EXTENDS OcrCommand, TLAPS, WellFoundedInduction, FiniteSetTheorems, SequenceTheorems

Wants == Contents \cup {"any"}
Calls == {Idle, [at |-> "raised"]}
         \cup [at : {"stat"}, want : Wants, since : Nat]
         \cup [at : {"lookup", "read", "validate", "json", "store", "return"}, want : Wants,
               since : Nat, id : Nat, hit : BOOLEAN, tokenizer : Nat, key : Nat]

(* A file was looked at in a call when it came after the call's beginning. *)
CallHolds(c) ==
  /\ c.at = "stat" => 1 <= c.since /\ c.since <= File
  /\ c.at \in {"lookup", "read", "validate", "json", "store", "return"} =>
       1 <= c.since /\ c.since <= c.id /\ c.id <= File
  /\ c.at \in {"validate", "json", "store", "return"} =>
       c.id <= c.tokenizer /\ c.tokenizer <= File
  /\ c.at \in {"json", "store", "return"} =>
       files[c.tokenizer] # "foreign" /\ c.want \in {"any", files[c.tokenizer]}

(* A cached tokenizer is not older than the identity it is known by.       *)
TokenizersHold ==
  /\ files \in Seq(Contents) /\ Len(files) >= 1
  /\ cache \in [id : Nat, tokenizer : Nat]
  /\ cache.id > 0 => /\ cache.id <= cache.tokenizer /\ cache.tokenizer <= File
                     /\ files[cache.tokenizer] # "foreign"
  /\ load \in [Lanes -> Calls]
  /\ \A l \in Lanes : CallHolds(load[l])

GivenEngine == [is |-> "given", limits |-> command.limits]

(* Where a call may hold an engine, a document, a directory or a load.     *)
ResourcesHold ==
  /\ command \in Commands
  /\ step \in {"start", "raster", "prepare", "loading", "open", "warmup", "generate", "decode",
               "decoding", "close", "leave", "returned", "unwind", "raised"}
  /\ ~command.owned => engine = GivenEngine /\ step \notin {"open", "warmup"}
  /\ command.owned /\ step \in {"start", "raster", "prepare", "loading", "open", "leave",
                                "returned", "raised"} => engine = NoEngine
  /\ document \in BOOLEAN /\ isTemporary \in BOOLEAN
  /\ step \notin {"raster", "unwind"} => ~document
  /\ step \notin {"loading", "decoding"} => load[Caller] = Idle
  /\ isTemporary => ~command.keep
  /\ ~command.keep /\ ~isTemporary => directory = <<>>
  /\ step = "raster" => isTemporary = ~command.keep
  /\ step \in {"returned", "raised"} => ~isTemporary

(* The pages rendered are the first ones, and all of them when prepared.   *)
PagesHold ==
  /\ rendered \in Seq(Nat) /\ Len(rendered) <= command.o.pages
  /\ \A i \in 1..Len(rendered) : rendered[i] = i
  /\ command.keep => \A i \in 1..Len(rendered) : i \in DOMAIN directory /\ directory[i] = "own"
  /\ command.kind = "pdf" /\ step \in {"prepare", "loading"} => Len(rendered) = command.o.pages
  /\ command.kind = "pdf" /\ request.ok =>
       Len(rendered) = command.o.pages /\ Len(request.views) = command.o.pages

IInv == TokenizersHold /\ ResourcesHold /\ PagesHold

-----------------------------------------------------------------------------
(* The tokenizers.                                                         *)

(* At first nothing is cached and nobody loads.                            *)
LEMMA TokenizersBegin == TokenizerInit => TokenizersHold
<1> SUFFICES ASSUME TokenizerInit PROVE TokenizersHold OBVIOUS
<1>1. PICK c \in Contents : files = <<c>>
  BY DEF TokenizerInit
<1>2. files \in Seq(Contents) /\ Len(files) = 1
  BY <1>1
<1> QED BY <1>2 DEF TokenizerInit, TokenizersHold, CallHolds, Calls, Idle

(* A step that leaves the files and the cache keeps them when the lane's   *)
(* new call is one that holds.                                             *)
LEMMA OneCall ==
  ASSUME TokenizersHold, NEW l \in Lanes, NEW c \in Calls, Go(l, c), CallHolds(c),
         UNCHANGED <<files, cache>>
  PROVE  TokenizersHold'
<1>1. load' = [load EXCEPT ![l] = c] /\ load' \in [Lanes -> Calls]
  BY DEF Go, TokenizersHold
<1>2. ASSUME NEW k \in Lanes PROVE CallHolds(load[k])'
  BY <1>1 DEF TokenizersHold, CallHolds, File
<1> QED BY <1>1, <1>2 DEF TokenizersHold, File

(* A load under way is a record of its stage.                              *)
LEMMA CallShape ==
  ASSUME TokenizersHold, NEW l \in Lanes
  PROVE  /\ Is(l, "stat") => load[l] \in [at : {"stat"}, want : Wants, since : Nat]
         /\ load[l].at \in {"lookup", "read", "validate", "json", "store", "return"} =>
              load[l] \in [at : {"lookup", "read", "validate", "json", "store", "return"},
                           want : Wants, since : Nat, id : Nat, hit : BOOLEAN,
                           tokenizer : Nat, key : Nat]
BY DEF TokenizersHold, Calls, Idle, Is

(* A load begins no later than now.                                        *)
LEMMA BeginLoadKeeps ==
  ASSUME TokenizersHold, NEW l \in Lanes, NEW want \in Wants, BeginLoad(l, want)
  PROVE  TokenizersHold'
<1> DEFINE c == [at |-> "stat", want |-> want, since |-> File]
<1>1. c \in Calls /\ CallHolds(c)
  BY DEF Calls, CallHolds, TokenizersHold, File
<1> QED BY <1>1, OneCall DEF BeginLoad

(* An identity is that of the file at the path.                            *)
LEMMA StatKeeps ==
  ASSUME TokenizersHold, NEW l \in Lanes, Stat(l) PROVE TokenizersHold'
<1> DEFINE c == [at |-> "lookup", want |-> load[l].want, since |-> load[l].since,
                 id |-> File, hit |-> FALSE, tokenizer |-> 0, key |-> 0]
<1>1. load[l].want \in Wants /\ load[l].since \in Nat /\ load[l].since >= 1 /\ File \in Nat
      /\ load[l].since <= File
  BY CallShape DEF Stat, Is, TokenizersHold, CallHolds, File
<1>2. c \in Calls /\ CallHolds(c)
  BY <1>1 DEF Calls, CallHolds
<1> QED BY <1>2, OneCall DEF Stat

(* A hit is as old as its identity, or younger.                            *)
LEMMA LookupKeeps ==
  ASSUME TokenizersHold, NEW l \in Lanes, Lookup(l) PROVE TokenizersHold'
<1> DEFINE hit == cache.id = load[l].id
           c == [load[l] EXCEPT !.hit = hit,
                                !.tokenizer = IF hit THEN cache.tokenizer ELSE 0,
                                !.at = IF ~hit THEN "read"
                                       ELSE IF load[l].want = "any" THEN "return" ELSE "validate"]
<1>1. CallHolds(load[l]) /\ load[l].at = "lookup"
  BY DEF Lookup, Is, TokenizersHold
<1>2. cache.id \in Nat /\ cache.tokenizer \in Nat
  BY DEF TokenizersHold
<1>3. c \in Calls
  <2>1. load[l] \in [at : {"lookup", "read", "validate", "json", "store", "return"}, want : Wants,
                     since : Nat, id : Nat, hit : BOOLEAN, tokenizer : Nat, key : Nat]
    BY <1>1, CallShape
  <2>2. c \in [at : {"lookup", "read", "validate", "json", "store", "return"}, want : Wants,
               since : Nat, id : Nat, hit : BOOLEAN, tokenizer : Nat, key : Nat]
    BY <1>2, <2>1
  <2> QED BY <2>2 DEF Calls
<1>4. CASE hit
  <2>1. c.at \in {"return", "validate"} /\ c.tokenizer = cache.tokenizer /\ c.id = load[l].id
        /\ c.since = load[l].since /\ c.want = load[l].want
        /\ (c.at = "return" => c.want = "any")
    BY <1>1, <1>4, CallShape
  <2>2. CallHolds(c)
    BY <1>1, <1>2, <1>4, <2>1, CallShape DEF CallHolds, TokenizersHold
  <2> QED BY <1>3, <2>2, OneCall DEF Lookup
<1>5. CASE ~hit
  <2>1. c.at = "read" /\ c.id = load[l].id /\ c.since = load[l].since
    BY <1>1, <1>5, CallShape
  <2>2. CallHolds(c)
    BY <1>1, <2>1 DEF CallHolds
  <2> QED BY <1>3, <2>2, OneCall DEF Lookup
<1> QED BY <1>4, <1>5

(* What is read is the file at the path now.                               *)
LEMMA ReadKeeps ==
  ASSUME TokenizersHold, NEW l \in Lanes, Read(l) PROVE TokenizersHold'
<1> DEFINE c == [load[l] EXCEPT !.tokenizer = File, !.at = "validate"]
<1>1. CallHolds(load[l]) /\ load[l].at = "read" /\ File \in Nat
  BY DEF Read, Is, TokenizersHold, File
<1>2. c \in Calls
  BY <1>1, CallShape DEF Calls
<1>3. c.at = "validate" /\ c.tokenizer = File /\ c.id = load[l].id /\ c.since = load[l].since
  BY <1>1, CallShape
<1>4. CallHolds(c)
  BY <1>1, <1>3, CallShape DEF CallHolds
<1> QED BY <1>2, <1>4, OneCall DEF Read

(* A load fails.                                                           *)
LEMMA RaiseKeeps ==
  ASSUME TokenizersHold, NEW l \in Lanes, Raise(l) PROVE TokenizersHold'
<1>1. [at |-> "raised"] \in Calls /\ CallHolds([at |-> "raised"])
  BY DEF Calls, CallHolds
<1> QED BY <1>1, OneCall DEF Raise

(* Past this check a tokenizer is of the model asked for.                  *)
LEMMA ValidateKeeps ==
  ASSUME TokenizersHold, NEW l \in Lanes, Validate(l) PROVE TokenizersHold'
<1> DEFINE c(place) == [load[l] EXCEPT !.key = File, !.at = place]
<1>1. CallHolds(load[l]) /\ load[l].at = "validate" /\ File \in Nat
  BY DEF Validate, Is, TokenizersHold, File
<1>2. CASE Model(l) = "foreign" \/ load[l].want \notin {"any", Model(l)}
  BY <1>2, RaiseKeeps DEF Validate
<1>3. CASE ~(Model(l) = "foreign" \/ load[l].want \notin {"any", Model(l)})
  <2>1. PICK place \in {"json", "store", "return"} : Go(l, c(place)) /\ UNCHANGED <<files, cache>>
    BY <1>3 DEF Validate, Checked
  <2>2. c(place) \in Calls /\ CallHolds(c(place))
    BY <1>1, <1>3, CallShape DEF Calls, CallHolds, Model
  <2> QED BY <2>1, <2>2, OneCall
<1> QED BY <1>2, <1>3

(* The file's own check adds nothing to that.                              *)
LEMMA CheckFileKeeps ==
  ASSUME TokenizersHold, NEW l \in Lanes, CheckFile(l) PROVE TokenizersHold'
<1> DEFINE c(place) == [load[l] EXCEPT !.at = place]
<1>1. CallHolds(load[l]) /\ load[l].at = "json"
  BY DEF CheckFile, Is, TokenizersHold
<1>2. CASE files[File] # Model(l)
  BY <1>2, RaiseKeeps DEF CheckFile
<1>3. CASE files[File] = Model(l)
  <2>1. PICK place \in {"store", "return"} : Go(l, c(place)) /\ UNCHANGED <<files, cache>>
    BY <1>3 DEF CheckFile, Checked
  <2>2. c(place) \in Calls /\ CallHolds(c(place))
    BY <1>1, CallShape DEF Calls, CallHolds
  <2> QED BY <2>1, <2>2, OneCall
<1> QED BY <1>2, <1>3

(* What is stored is no older than the identity it is stored for.          *)
LEMMA StoreKeeps ==
  ASSUME TokenizersHold, NEW l \in Lanes, Store(l) PROVE TokenizersHold'
<1> DEFINE c == [load[l] EXCEPT !.at = "return"]
<1>1. CallHolds(load[l]) /\ load[l].at = "store"
  BY DEF Store, Is, TokenizersHold
<1>2. c \in Calls /\ CallHolds(c) /\ load[l].id \in Nat /\ load[l].tokenizer \in Nat
  BY <1>1, CallShape DEF Calls, CallHolds
<1>3. /\ cache' = [id |-> load[l].id, tokenizer |-> load[l].tokenizer]
      /\ load' = [load EXCEPT ![l] = c] /\ files' = files
  BY DEF Store, Go
<1>4. /\ cache'.id <= cache'.tokenizer /\ cache'.tokenizer <= File
      /\ files[cache'.tokenizer] # "foreign"
  BY <1>1, <1>3 DEF CallHolds
<1>5. \A k \in Lanes : CallHolds(load'[k])
  BY <1>2, <1>3 DEF TokenizersHold
<1>6. load' \in [Lanes -> Calls] /\ cache' \in [id : Nat, tokenizer : Nat]
  BY <1>2, <1>3 DEF TokenizersHold
<1> QED BY <1>3, <1>4, <1>5, <1>6 DEF TokenizersHold, File, CallHolds

(* A load ends.                                                            *)
LEMMA EndLoadKeeps ==
  ASSUME TokenizersHold, NEW l \in Lanes, EndLoad(l) PROVE TokenizersHold'
<1>1. Idle \in Calls /\ CallHolds(Idle)
  BY DEF Calls, CallHolds, Idle
<1> QED BY <1>1, OneCall DEF EndLoad

(* What was at the path stays what it was when another file follows.       *)
LEMMA ReplaceKeeps == ASSUME TokenizersHold, Replace PROVE TokenizersHold'
<1>1. PICK c \in Contents : files' = Append(files, c)
  BY DEF Replace
<1>2. /\ files' \in Seq(Contents) /\ Len(files') = Len(files) + 1
      /\ \A i \in 1..Len(files) : files'[i] = files[i]
  BY <1>1 DEF TokenizersHold
<1>3. cache' = cache /\ load' = load
  BY DEF Replace
<1>4. cache.id > 0 => cache.tokenizer \in 1..Len(files)
  BY DEF TokenizersHold, File
<1>5. ASSUME NEW l \in Lanes PROVE CallHolds(load[l])'
  <2>1. load[l].at \in {"json", "store", "return"} => load[l].tokenizer \in 1..Len(files)
    BY CallShape DEF TokenizersHold, CallHolds, File
  <2>2. /\ load[l].at = "stat" => load[l].since \in Nat
        /\ load[l].at \in {"lookup", "read", "validate", "json", "store", "return"} =>
             load[l].id \in Nat /\ load[l].tokenizer \in Nat
    BY CallShape DEF Is
  <2> QED BY <1>2, <1>3, <2>1, <2>2 DEF TokenizersHold, CallHolds, File
<1> QED BY <1>2, <1>3, <1>4, <1>5 DEF TokenizersHold, File

-----------------------------------------------------------------------------
(* The call.                                                               *)

(* A call begins with nothing of its own.                                  *)
LEMMA Begins == Init => IInv
<1> SUFFICES ASSUME Init PROVE IInv OBVIOUS
<1>1. TokenizersHold
  BY TokenizersBegin DEF Init
<1>2. load[Caller] = Idle /\ command \in Commands /\ command.o.pages \in Nat
  BY CallerAssumption, CommandAssumption DEF Init, TokenizerInit
<1>3. ResourcesHold
  BY <1>2, CommandAssumption DEF Init, ResourcesHold, GivenEngine, NoEngine
<1>4. PagesHold
  BY <1>2 DEF Init, PagesHold, Refused
<1> QED BY <1>1, <1>3, <1>4 DEF IInv

(* What the tokenizers see of a step of the call or of another thread.     *)
LEMMA TokenizersKept == ASSUME IInv, [Next]_vars PROVE TokenizersHold'
<1> USE DEF IInv
<1>1. ASSUME UNCHANGED tokenizerVars PROVE TokenizersHold'
  BY <1>1 DEF tokenizerVars, TokenizersHold, CallHolds, File
<1>2. ASSUME NEW l \in Lanes, LoadStep(l) PROVE TokenizersHold'
  BY <1>2, StatKeeps, LookupKeeps, ReadKeeps, ValidateKeeps, CheckFileKeeps, StoreKeeps
     DEF LoadStep
<1>3. "any" \in Wants /\ command.o.model \in Wants
  BY CommandAssumption DEF Wants, ResourcesHold
<1>4. CASE Prepare \/ Decode
  BY <1>3, <1>4, BeginLoadKeeps, CallerAssumption DEF Prepare, Decode
<1>5. CASE TakeRequest \/ Decoded
  BY <1>5, EndLoadKeeps, CallerAssumption DEF TakeRequest, Decoded
<1>6. CASE Fail
  BY <1>1, <1>6, EndLoadKeeps, CallerAssumption DEF Fail, OutOfTokenizers
<1>7. CASE Others
  BY <1>7, BeginLoadKeeps, EndLoadKeeps, ReplaceKeeps DEF Others, Wants
<1>8. CASE Loading
  BY <1>2, <1>8 DEF Loading
<1>9. CASE \/ OpenDocument \/ SavePage \/ CloseDocument \/ OpenEngine \/ Warmup \/ Generate
           \/ CloseEngine \/ Leave \/ Unwind \/ ParseOutput \/ UNCHANGED vars
  BY <1>1, <1>9 DEF OpenDocument, SavePage, CloseDocument, OpenEngine, Warmup, Generate,
     CloseEngine, Leave, Unwind, ParseOutput, Untouched, OutOfTokenizers, vars
<1> QED BY <1>4, <1>5, <1>6, <1>7, <1>8, <1>9 DEF Next

(* Nobody loads in the caller's place.                                     *)
LEMMA CallerRests ==
  ASSUME IInv, Loading \/ Others \/ ParseOutput \/ UNCHANGED vars, load[Caller] = Idle
  PROVE  load'[Caller] = Idle
<1> USE CallerAssumption
<1>1. load \in [Lanes -> Calls]
  BY DEF IInv, TokenizersHold
<1>2. CASE Loading
  <2>1. PICK l \in Lanes : LoadStep(l)
    BY <1>2 DEF Loading
  <2>2. l # Caller
    BY <2>1 DEF LoadStep, Stat, Lookup, Read, Validate, CheckFile, Store, Is, Idle
  <2> QED BY <1>1, <2>1, <2>2 DEF LoadStep, Stat, Lookup, Read, Validate, CheckFile, Store, Go,
           Raise
<1>3. CASE Others
  BY <1>1, <1>3 DEF Others, BeginLoad, EndLoad, Replace, Go
<1>4. CASE ParseOutput \/ UNCHANGED vars
  BY <1>4 DEF ParseOutput, OutOfTokenizers, tokenizerVars, vars
<1> QED BY <1>2, <1>3, <1>4

(* Every step keeps what a call may hold.                                  *)
LEMMA ResourcesKept == ASSUME IInv, [Next]_vars PROVE ResourcesHold'
<1> USE CallerAssumption
    DEF IInv, ResourcesHold, At, Become, GivenEngine, Untouched, OutOfTokenizers, tokenizerVars
<1>0. load \in [Lanes -> Calls] /\ command.owned \in BOOLEAN /\ command.keep \in BOOLEAN
  BY CommandAssumption DEF TokenizersHold
<1>1. CASE OpenDocument
  BY <1>0, <1>1 DEF OpenDocument
<1>2. CASE SavePage
  BY <1>0, <1>2 DEF SavePage
<1>3. CASE CloseDocument
  BY <1>0, <1>3 DEF CloseDocument
<1>4. CASE Prepare
  BY <1>0, <1>4 DEF Prepare
<1>5. CASE TakeRequest
  BY <1>0, <1>5 DEF TakeRequest, EndLoad, Go
<1>6. CASE OpenEngine
  BY <1>0, <1>6 DEF OpenEngine
<1>7. CASE Warmup
  BY <1>0, <1>7 DEF Warmup
<1>8. CASE Generate
  BY <1>0, <1>8 DEF Generate
<1>9. CASE Decode
  BY <1>0, <1>9 DEF Decode
<1>10. CASE Decoded
  BY <1>0, <1>10 DEF Decoded, EndLoad, Go
<1>11. CASE CloseEngine
  BY <1>0, <1>11 DEF CloseEngine
<1>12. CASE Leave
  BY <1>0, <1>12 DEF Leave
<1>13. CASE Fail
  BY <1>0, <1>13 DEF Fail, EndLoad, Go
<1>14. CASE Unwind
  BY <1>0, <1>14 DEF Unwind
<1>15. CASE Loading \/ Others \/ ParseOutput \/ UNCHANGED vars
  BY <1>15, CallerRests DEF Loading, Others, ParseOutput, vars, commandVars
<1> QED BY <1>1, <1>2, <1>3, <1>4, <1>5, <1>6, <1>7, <1>8, <1>9, <1>10, <1>11, <1>12, <1>13,
           <1>14, <1>15 DEF Next

(* A request of a PDF has a view of each page that was rendered.           *)
LEMMA ViewsOfPdf ==
  ASSUME IInv, command.kind = "pdf", Final.ok PROVE Len(Final.views) = Len(rendered)
<1>1. command.form = "pages" /\ "pages" \in DOMAIN command.o
  BY CommandAssumption DEF IInv, ResourcesHold
<1>2. Options = [command.o EXCEPT !.pages = Len(rendered)] /\ Options.pages = Len(rendered)
  BY <1>1 DEF Options
<1>3. Len(rendered) \in Nat
  BY DEF IInv, PagesHold
<1>4. Request = PreparePages(Options)
  BY <1>1 DEF Request
<1> DEFINE all == [i \in 1..Options.pages |-> "global"]
           Whole(tokens, new, runs) ==
             [ok |-> TRUE, runs |-> runs, views |-> all, grid |-> <<1, 1>>,
              mode |-> "multi-page-base", tokens |-> tokens, maxNew |-> new]
<1>5. Len(all) = Len(rendered)
  BY <1>2, <1>3
<1>6. Request # Refused => \E tokens, new, runs : Request = Whole(tokens, new, runs)
  BY <1>4 DEF PreparePages, Prepared
<1>7. Request # Refused
  BY DEF Final, Refused
<1>8. PICK tokens, new, runs : Request = Whole(tokens, new, runs)
  BY <1>6, <1>7
<1>9. \/ Final = Request \/ Final = Refused
      \/ \E n : Final = [Request EXCEPT !.maxNew = n]
  <2> DEFINE most == command.maxGen
  <2>1. Final = Request \/ Final = Capped(Request, most)
    BY DEF Final
  <2>2. \/ Capped(Request, most) = Request \/ Capped(Request, most) = Refused
        \/ Capped(Request, most) = [Request EXCEPT !.maxNew = AtMost(@, most)]
    BY DEF Capped
  <2> QED BY <2>1, <2>2
<1>10. Final # Refused
  BY DEF Refused
<1>11. ASSUME Final = Request PROVE Final.views = all
  BY <1>8, <1>11
<1>12. ASSUME NEW n, Final = [Request EXCEPT !.maxNew = n] PROVE Final.views = all
  BY <1>8, <1>12
<1>13. Final.views = all
  BY <1>8, <1>9, <1>10, <1>11, <1>12
<1> QED BY <1>5, <1>13

(* Every step keeps the pages in order.                                    *)
LEMMA PagesKept == ASSUME IInv, [Next]_vars PROVE PagesHold'
<1> USE DEF IInv, PagesHold, ResourcesHold, At, Become
<1>0. command.o.pages \in Nat /\ command.keep \in BOOLEAN
  BY CommandAssumption
<1>1. CASE OpenDocument
  BY <1>0, <1>1 DEF OpenDocument
<1>2. CASE SavePage
  <2>1. PICK n \in Nat : n = Len(rendered) + 1
    BY <1>0
  <2>2. /\ rendered' = Append(rendered, n) /\ n <= command.o.pages
        /\ directory' = [i \in DOMAIN directory \cup {n} |-> IF i = n THEN "own" ELSE directory[i]]
    BY <1>0, <1>2, <2>1 DEF SavePage
  <2>3. /\ rendered' \in Seq(Nat) /\ Len(rendered') = n
        /\ \A i \in 1..n : rendered'[i] = i
    BY <2>1, <2>2
  <2> QED BY <1>0, <1>2, <2>1, <2>2, <2>3 DEF SavePage
<1>3. CASE CloseDocument
  BY <1>0, <1>3 DEF CloseDocument
<1>4. CASE Prepare
  BY <1>0, <1>4 DEF Prepare
<1>5. CASE TakeRequest
  BY <1>0, <1>5, ViewsOfPdf DEF TakeRequest
<1>6. CASE OpenEngine \/ Warmup \/ Generate \/ Decode \/ Decoded \/ CloseEngine \/ Fail
  BY <1>0, <1>6 DEF OpenEngine, Warmup, Generate, Decode, Decoded, CloseEngine, Fail
<1>7. CASE Leave \/ Unwind
  BY <1>0, <1>7 DEF Leave, Unwind
<1>8. CASE Loading \/ Others \/ ParseOutput \/ UNCHANGED vars
  BY <1>0, <1>8 DEF Loading, Others, ParseOutput, vars, commandVars
<1> QED BY <1>1, <1>2, <1>3, <1>4, <1>5, <1>6, <1>7, <1>8 DEF Next

-----------------------------------------------------------------------------
(* The invariant holds for every call, whatever other threads do.          *)
THEOREM CommandInvariant == Spec => []IInv
<1>1. IInv /\ [Next]_vars => IInv'
  BY TokenizersKept, ResourcesKept, PagesKept DEF IInv
<1> QED BY Begins, <1>1, PTL DEF Spec

(* generate_prepared, pdf_to_images, ocr_pdf: whatever fails where, a call *)
(* that ended holds nothing of its own, and read every page in order.      *)
THEOREM NothingIsLeft == Spec => []CallsLeaveNothing
<1>1. ASSUME IInv PROVE CallsLeaveNothing
  <2>1. step \in {"returned", "raised"} =>
          /\ engine = IF command.owned THEN NoEngine
                      ELSE [is |-> "given", limits |-> command.limits]
          /\ ~document /\ ~isTemporary /\ load[Caller] = Idle
          /\ ~command.keep => directory = <<>>
    BY <1>1, CommandAssumption DEF IInv, ResourcesHold, GivenEngine
  <2>2. ASSUME command.kind = "pdf", request.ok
        PROVE  /\ rendered = [i \in 1..command.o.pages |-> i]
               /\ Len(request.views) = command.o.pages
               /\ command.keep => \A i \in DOMAIN rendered : directory[rendered[i]] = "own"
    <3>1. /\ rendered \in Seq(Nat) /\ Len(rendered) = command.o.pages
          /\ Len(request.views) = command.o.pages
          /\ \A i \in 1..Len(rendered) : rendered[i] = i
          /\ command.keep => \A i \in 1..Len(rendered) : directory[i] = "own"
      BY <1>1, <2>2 DEF IInv, PagesHold
    <3> QED BY <3>1
  <2> QED BY <2>1, <2>2 DEF CallsLeaveNothing
<1> QED BY CommandInvariant, <1>1, PTL

(* load_tokenizer: what it returns was at the path during the call and is  *)
(* of the model asked for, for any number of threads and replacements.     *)
THEOREM TokenizersAreCurrent == Spec => []TokenizerIsCurrent
<1>1. ASSUME IInv, NEW l \in Lanes, Is(l, "return")
      PROVE  /\ load[l].since <= load[l].tokenizer /\ load[l].tokenizer <= File
             /\ Model(l) # "foreign" /\ load[l].want \in {"any", Model(l)}
  <2>1. CallHolds(load[l]) /\ load[l].at = "return" /\ File \in Nat
    BY <1>1 DEF IInv, TokenizersHold, Is, File
  <2>2. load[l].since \in Nat /\ load[l].id \in Nat /\ load[l].tokenizer \in Nat
    BY <1>1, <2>1, CallShape DEF IInv
  <2> QED BY <2>1, <2>2 DEF CallHolds, Model
<1>2. IInv => TokenizerIsCurrent
  BY <1>1 DEF TokenizerIsCurrent
<1> QED BY CommandInvariant, <1>2, PTL

-----------------------------------------------------------------------------
(* Sums and counts.                                                        *)

(* A set of numbers has a least one.                                       *)
LEMMA LeastNat ==
  ASSUME NEW S \in SUBSET Nat, S # {}
  PROVE  \E n \in S : \A m \in S : n <= m
<1>1. PICK n \in S : \A m \in S : ~(<<m, n>> \in OpToRel(<, Nat))
  BY NatLessThanWellFounded, WFMin
<1>2. OpToRel(<, Nat) = {p \in Nat \X Nat : p[1] < p[2]}
  BY Zenon DEF OpToRel
<1>3. \A m \in S : <<m, n>> \notin {p \in Nat \X Nat : p[1] < p[2]}
  BY <1>1, <1>2, Zenon
<1>4. ASSUME NEW m \in S
      PROVE  n <= m
  <2>1. m \in Nat /\ n \in Nat
    BY <1>1
  <2>2. ~(m < n)
    BY <1>3, <2>1
  <2> QED
    BY <2>1, <2>2
<1> QED
  BY <1>1, <1>4

(* The partial sums of a sequence of n numbers.                            *)
SumsOf(s, n, f) == f[0] = 0 /\ \A i \in 1..n : f[i] = f[i - 1] + s[i]

(* A sum is the last of the partial sums.                                  *)
LEMMA TotalIs ==
  ASSUME NEW s, NEW n \in Nat, Len(s) = n, NEW f, f = [i \in 0..n |-> f[i]], SumsOf(s, n, f)
  PROVE  Total(s) = f[n]
<1> DEFINE Turn(g, i) == IF i = 0 THEN 0 ELSE g[i - 1] + s[i]
           IsRun(g) == g = [i \in 0..n |-> Turn(g, i)]
           run == CHOOSE g : IsRun(g)
<1>1. Total(s) = run[n]
  BY DEF Total
<1>2. IsRun(f)
  <2>1. \A i \in 0..n : Turn(f, i) = f[i]
    <3>1. TAKE i \in 0..n
    <3>2. CASE i = 0
      BY <3>2 DEF SumsOf
    <3>3. CASE i # 0
      <4>1. i \in 1..n
        BY <3>3
      <4> QED BY <3>3, <4>1 DEF SumsOf
    <3> QED BY <3>2, <3>3
  <2> HIDE DEF Turn
  <2> QED BY <2>1
<1> HIDE DEF Turn
<1>3. IsRun(run)
  <2> HIDE DEF IsRun
  <2> QED BY <1>2
<1> HIDE DEF run
<1>4. \A i \in 0..n : run[i] = Turn(run, i)
  BY <1>3
<1>5. ~ \E i \in 0..n : run[i] # f[i]
  <2> SUFFICES ASSUME NEW j \in 0..n, run[j] # f[j] PROVE FALSE
    OBVIOUS
  <2> DEFINE bad == {i \in 0..n : run[i] # f[i]}
  <2>1. bad \in SUBSET Nat /\ bad # {}
    OBVIOUS
  <2>2. PICK i \in bad : \A m \in bad : i <= m
    <3> HIDE DEF bad
    <3> QED BY <2>1, LeastNat
  <2>3. i \in 0..n /\ run[i] # f[i]
    OBVIOUS
  <2>4. i # 0
    BY <1>4, <2>3 DEF Turn, SumsOf
  <2>5. i \in 1..n /\ i - 1 \in 0..n /\ ~(i <= i - 1)
    BY <2>3, <2>4
  <2>6. run[i - 1] = f[i - 1]
    BY <2>2, <2>5
  <2>7. run[i] = run[i - 1] + s[i]
    BY <1>4, <2>3, <2>4 DEF Turn
  <2>8. f[i] = f[i - 1] + s[i]
    BY <2>5 DEF SumsOf
  <2> QED BY <2>3, <2>6, <2>7, <2>8
<1> QED BY <1>1, <1>5

(* Numbers have partial sums.                                              *)
LEMMA SumsExist ==
  ASSUME NEW n \in Nat, NEW s \in [1..n -> Nat]
  PROVE  \E f \in [0..n -> Nat] : SumsOf(s, n, f)
<1> DEFINE Sums(k) == \E f \in [0..k -> Nat] : SumsOf(s, k, f)
           bad == {k \in 0..n : ~Sums(k)}
<1>1. Sums(0)
  <2>1. [i \in 0..0 |-> 0] \in [0..0 -> Nat] /\ SumsOf(s, 0, [i \in 0..0 |-> 0])
    BY DEF SumsOf
  <2> QED BY <2>1
<1>2. ASSUME NEW k \in 1..n, Sums(k - 1) PROVE Sums(k)
  <2>1. PICK f \in [0..(k - 1) -> Nat] : SumsOf(s, k - 1, f)
    BY <1>2
  <2> DEFINE g == [i \in 0..k |-> IF i = k THEN f[k - 1] + s[k] ELSE f[i]]
  <2>2. f[k - 1] \in Nat /\ s[k] \in Nat
    OBVIOUS
  <2>3. g \in [0..k -> Nat]
    <3>1. ASSUME NEW i \in 0..k, i # k PROVE f[i] \in Nat
      BY <3>1
    <3> QED BY <2>2, <3>1
  <2>4. g[0] = 0
    BY <2>1 DEF SumsOf
  <2>5. ASSUME NEW i \in 1..k PROVE g[i] = g[i - 1] + s[i]
    <3>1. g[i - 1] = f[i - 1]
      OBVIOUS
    <3>2. CASE i = k
      BY <3>1, <3>2
    <3>3. CASE i # k
      <4>1. i \in 1..(k - 1)
        BY <3>3
      <4>2. g[i] = f[i] /\ f[i] = f[i - 1] + s[i]
        BY <2>1, <3>3, <4>1 DEF SumsOf
      <4> QED BY <3>1, <4>2
    <3> QED BY <3>2, <3>3
  <2> HIDE DEF g
  <2> QED BY <2>3, <2>4, <2>5 DEF SumsOf
<1> HIDE DEF Sums
<1>3. bad = {}
  <2> SUFFICES ASSUME bad # {} PROVE FALSE
    OBVIOUS
  <2>1. bad \in SUBSET Nat
    OBVIOUS
  <2>2. PICK k \in bad : \A m \in bad : k <= m
    <3> HIDE DEF bad
    <3> QED BY <2>1, LeastNat
  <2>3. k \in 0..n /\ ~Sums(k)
    OBVIOUS
  <2>4. k \in 1..n /\ k - 1 \in 0..n /\ ~(k <= k - 1)
    BY <1>1, <2>3
  <2>5. Sums(k - 1)
    BY <2>2, <2>4
  <2> QED BY <1>2, <2>3, <2>4, <2>5
<1>4. Sums(n)
  BY <1>3
<1> QED BY <1>4 DEF Sums

(* A sum of numbers is one, and no less than the first of them.            *)
LEMMA TotalType ==
  ASSUME NEW n \in Nat, NEW s \in [1..n -> Nat], Len(s) = n
  PROVE  /\ Total(s) \in Nat
         /\ n # 0 => Total(s) >= s[1]
<1>1. PICK f \in [0..n -> Nat] : SumsOf(s, n, f)
  BY SumsExist
<1>2. Total(s) = f[n]
  BY <1>1, TotalIs
<1>3. ASSUME n # 0 PROVE f[n] >= s[1]
  <2> DEFINE bad == {k \in 1..n : ~(f[k] >= s[1])}
  <2> SUFFICES ASSUME bad # {} PROVE FALSE
    BY <1>3
  <2>1. bad \in SUBSET Nat
    OBVIOUS
  <2>2. PICK k \in bad : \A m \in bad : k <= m
    <3> HIDE DEF bad
    <3> QED BY <2>1, LeastNat
  <2>3. k \in 1..n /\ ~(f[k] >= s[1]) /\ s[1] \in Nat /\ s[k] \in Nat /\ f[k - 1] \in Nat
    BY <1>3
  <2>4. f[k] = f[k - 1] + s[k]
    BY <1>1, <2>3 DEF SumsOf
  <2>5. k # 1
    <3>1. f[0] = 0
      BY <1>1 DEF SumsOf
    <3> QED BY <2>3, <2>4, <3>1
  <2>6. k - 1 \in 1..n /\ ~(k <= k - 1)
    BY <2>3, <2>5
  <2>7. f[k - 1] >= s[1]
    BY <2>2, <2>6
  <2> QED BY <2>3, <2>4, <2>7
<1> QED BY <1>1, <1>2, <1>3

(* A set of numbers up to n is finite.                                     *)
LEMMA NumbersFinite ==
  ASSUME NEW n \in Nat, NEW S \in SUBSET (1..n)
  PROVE  IsFiniteSet(S) /\ Cardinality(S) \in Nat /\ Cardinality(S) <= n
<1>1. IsFiniteSet(1..n) /\ Cardinality(1..n) = n
  BY FS_Interval
<1>2. IsFiniteSet(S) /\ Cardinality(S) <= Cardinality(1..n)
  BY <1>1, FS_Subset
<1>3. Cardinality(S) \in Nat
  BY <1>2, FS_CardinalityType
<1> QED BY <1>1, <1>2, <1>3

(* A sum in which some numbers are v and the others 0.                     *)
LEMMA TotalOfEqual ==
  ASSUME NEW n \in Nat, NEW s, Len(s) = n, NEW v \in Nat, NEW S \in SUBSET (1..n),
         \A i \in 1..n : s[i] = IF i \in S THEN v ELSE 0
  PROVE  /\ IsFiniteSet(S) /\ Cardinality(S) \in Nat
         /\ Total(s) = v * Cardinality(S)
<1> DEFINE Upto(k) == S \cap 1..k
           f == [k \in 0..n |-> v * Cardinality(Upto(k))]
<1>0. IsFiniteSet(S) /\ Cardinality(S) \in Nat
  BY NumbersFinite
<1>1. \A k \in 0..n : IsFiniteSet(Upto(k)) /\ Cardinality(Upto(k)) \in Nat
  BY <1>0, FS_Intersection, FS_CardinalityType
<1>2. f[0] = 0
  <2>1. Upto(0) = {}
    OBVIOUS
  <2>2. Cardinality(Upto(0)) = 0
    BY <2>1, FS_EmptySet
  <2> HIDE DEF Upto
  <2> QED BY <2>2
<1>3. ASSUME NEW i \in 1..n PROVE f[i] = f[i - 1] + s[i]
  <2>1. i - 1 \in 0..n /\ i \in 0..n
    OBVIOUS
  <2>2. PICK c \in Nat, d \in Nat : c = Cardinality(Upto(i - 1)) /\ d = Cardinality(Upto(i))
    BY <1>1, <2>1
  <2>3. f[i] = v * d /\ f[i - 1] = v * c
    BY <2>1, <2>2
  <2>4. CASE i \in S
    <3>1. Upto(i) = Upto(i - 1) \cup {i} /\ i \notin Upto(i - 1)
      BY <2>4
    <3>2. d = c + 1
      <4> HIDE DEF Upto
      <4> QED BY <1>1, <2>1, <2>2, <3>1, FS_AddElement
    <3>3. v * (c + 1) = v * c + v
      OBVIOUS
    <3> QED BY <2>3, <2>4, <3>2, <3>3
  <2>5. CASE i \notin S
    <3>1. Upto(i) = Upto(i - 1)
      BY <2>5
    <3>2. d = c
      BY <2>2, <3>1
    <3>3. v * c \in Nat
      OBVIOUS
    <3> QED BY <2>3, <2>5, <3>2, <3>3
  <2> QED BY <2>4, <2>5
<1>4. Upto(n) = S
  OBVIOUS
<1>5. f[n] = v * Cardinality(S)
  <2>1. f[n] = v * Cardinality(Upto(n))
    OBVIOUS
  <2> HIDE DEF f, Upto
  <2> QED BY <1>4, <2>1
<1>6. f = [k \in 0..n |-> f[k]]
  OBVIOUS
<1> HIDE DEF f, Upto
<1>7. SumsOf(s, n, f)
  BY <1>2, <1>3 DEF SumsOf
<1>8. Total(s) = f[n]
  BY <1>6, <1>7, TotalIs
<1> QED BY <1>0, <1>5, <1>8

(* Shifting a set by one keeps its size.                                   *)
Shift(S) == {i + 1 : i \in S}

LEMMA ShiftCounts ==
  ASSUME NEW n \in Nat, NEW S \in SUBSET (1..n)
  PROVE  Cardinality(Shift(S)) = Cardinality(S)
<1> DEFINE f == [i \in S |-> i + 1]
<1>1. f \in Bijection(S, Shift(S))
  <2>1. f \in [S -> Shift(S)]
    BY DEF Shift
  <2>2. \A i, j \in S : f[i] = f[j] => i = j
    OBVIOUS
  <2>3. \A t \in Shift(S) : \E i \in S : f[i] = t
    BY DEF Shift
  <2> HIDE DEF f
  <2>4. f \in Injection(S, Shift(S))
    BY <2>1, <2>2, Zenon DEF Injection, IsInjective
  <2>5. f \in Surjection(S, Shift(S))
    BY <2>1, <2>3, Zenon DEF Surjection
  <2> QED BY <2>4, <2>5, Zenon DEF Bijection
<1>2. IsFiniteSet(S)
  BY NumbersFinite
<1>3. ExistsBijection(S, Shift(S))
  BY <1>1 DEF ExistsBijection
<1> QED BY <1>2, <1>3, FS_Bijection

-----------------------------------------------------------------------------
(* The runs of a prompt.                                                   *)

(* The words of a prompt, and where one of them stands.                    *)
Words == {"text", "PAGE", "image"}
Places(p, x) == {i \in 1..Len(p) : p[i] = x}

(* The run of the i-th word of p when an image stands for v tokens.        *)
RunOf(model, p, v, i) ==
  CASE p[i] = "image" -> [kind |-> "image", n |-> v]
    [] p[i] = "PAGE" /\ model = "v2" -> [kind |-> "PAGE", n |-> 1]
    [] OTHER -> [kind |-> "text", n |-> TextTokens]

(* The runs of a prompt, when its images stand for v tokens each.          *)
RunsHold(model, p, v, runs) ==
  /\ DOMAIN runs = 1..Len(p) + 1 /\ Len(runs) = Len(p) + 1
  /\ runs[1] = [kind |-> "BOS", n |-> 1]
  /\ \A i \in 1..Len(p) : runs[i + 1] = RunOf(model, p, v, i)

(* How many words there are.                                               *)
LEMMA CountIs ==
  ASSUME NEW p \in Seq(Words), NEW x
  PROVE  /\ Places(p, x) \in SUBSET (1..Len(p)) /\ IsFiniteSet(Places(p, x))
         /\ Count(p, x) = Cardinality(Places(p, x)) /\ Count(p, x) \in Nat
<1>1. DOMAIN p = 1..Len(p) /\ Len(p) \in Nat
  OBVIOUS
<1>2. Places(p, x) \in SUBSET (1..Len(p))
  BY DEF Places
<1>3. Count(p, x) = Cardinality(Places(p, x))
  BY <1>1 DEF Count, Places
<1> QED BY <1>1, <1>2, <1>3, NumbersFinite

(* The number of an image among those of its prompt.                       *)
LEMMA NumberOfImage ==
  ASSUME NEW p \in Seq(Words), NEW i \in 1..Len(p), p[i] = "image"
  PROVE  Count(SubSeq(p, 1, i), "image") \in 1..Count(p, "image")
<1>1. PICK n \in Nat : n = Len(p)
  OBVIOUS
<1>2. PICK q : q = SubSeq(p, 1, i)
  OBVIOUS
<1>3. q \in Seq(Words) /\ Len(q) = i /\ \A k \in 1..i : q[k] = p[k]
  <2>1. i \in Nat /\ i <= Len(p) /\ i >= 1
    BY <1>1
  <2>2. \A k \in 1..i : p[k] \in Words
    BY <1>1, <2>1
  <2> QED BY <1>2, <2>1, <2>2
<1>4. Places(q, "image") \in SUBSET Places(p, "image") /\ i \in Places(q, "image")
  BY <1>1, <1>3 DEF Places
<1>5. /\ Count(q, "image") = Cardinality(Places(q, "image")) /\ IsFiniteSet(Places(q, "image"))
      /\ Count(q, "image") \in Nat
  BY <1>3, CountIs
<1>6. /\ Count(p, "image") = Cardinality(Places(p, "image")) /\ IsFiniteSet(Places(p, "image"))
      /\ Count(p, "image") \in Nat
  BY CountIs
<1>7. Count(q, "image") <= Count(p, "image")
  BY <1>4, <1>5, <1>6, FS_Subset
<1>8. Count(q, "image") # 0
  BY <1>4, <1>5, FS_EmptySet
<1> QED BY <1>2, <1>5, <1>6, <1>7, <1>8

(* The runs that are built are those.                                      *)
LEMMA RunsAre ==
  ASSUME NEW model, NEW p \in Seq(Words), NEW v, NEW counts,
         \A k \in 1..Count(p, "image") : counts[k] = v
  PROVE  RunsHold(model, p, v, Runs(model, p, counts))
<1> DEFINE bos == <<[kind |-> "BOS", n |-> 1]>>
           rest == [i \in 1..Len(p) |-> Run(model, p, counts, i)]
<1>1. Len(p) \in Nat
  OBVIOUS
<1>2. \A i \in 1..Len(p) : rest[i] = RunOf(model, p, v, i)
  <2>1. TAKE i \in 1..Len(p)
  <2>2. rest[i] = Run(model, p, counts, i)
    OBVIOUS
  <2>3. CASE p[i] = "image"
    <3>1. counts[Count(SubSeq(p, 1, i), "image")] = v
      BY <2>3, NumberOfImage
    <3> HIDE DEF rest
    <3> QED BY <2>2, <2>3, <3>1 DEF Run, RunOf
  <2>4. CASE p[i] # "image"
    <3> HIDE DEF rest
    <3> QED BY <2>2, <2>4 DEF Run, RunOf
  <2> QED BY <2>3, <2>4
<1>3. bos \in Seq({bos[1]}) /\ Len(bos) = 1 /\ bos[1] = [kind |-> "BOS", n |-> 1]
  OBVIOUS
<1>4. PICK T : T = {bos[1]} \cup {rest[i] : i \in 1..Len(p)}
  OBVIOUS
<1>5. rest \in Seq(T) /\ Len(rest) = Len(p)
  <2>1. \A i \in 1..Len(p) : rest[i] \in T
    BY <1>4
  <2>2. rest \in [1..Len(p) -> T]
    BY <2>1
  <2> HIDE DEF rest
  <2> QED BY <1>1, <2>2
<1>6. bos \in Seq(T)
  BY <1>4
<1>7. Runs(model, p, counts) = bos \o rest
  BY DEF Runs
<1> HIDE DEF bos, rest
<1>8. /\ DOMAIN (bos \o rest) = 1..Len(p) + 1 /\ Len(bos \o rest) = Len(p) + 1
      /\ (bos \o rest)[1] = bos[1]
      /\ \A i \in 1..Len(p) : (bos \o rest)[i + 1] = rest[i]
  <2>1. PICK n \in Nat : n = Len(p)
    BY <1>1
  <2>2. Len(bos \o rest) = Len(bos) + Len(rest)
    BY <1>5, <1>6, ConcatProperties
  <2>3. \A k \in 1..Len(bos) + Len(rest) :
          (bos \o rest)[k] = IF k <= Len(bos) THEN bos[k] ELSE rest[k - Len(bos)]
    BY <1>5, <1>6, ConcatProperties
  <2>6. DOMAIN (bos \o rest) = 1..Len(bos \o rest)
    <3>1. PICK s \in Seq(T) : s = bos \o rest
      BY <1>5, <1>6, ConcatProperties
    <3>2. DOMAIN s = 1..Len(s)
      OBVIOUS
    <3> QED BY <3>1, <3>2
  <2>7. Len(bos \o rest) = Len(p) + 1
    BY <1>3, <1>5, <2>1, <2>2
  <2>4. (bos \o rest)[1] = bos[1]
    BY <1>3, <1>5, <2>1, <2>3
  <2>5. ASSUME NEW i \in 1..n PROVE (bos \o rest)[i + 1] = rest[i]
    <3>1. i + 1 \in 1..1 + n /\ ~(i + 1 <= 1) /\ (i + 1) - 1 = i
      OBVIOUS
    <3> QED BY <1>3, <1>5, <2>1, <2>3, <3>1
  <2> QED BY <2>1, <2>4, <2>5, <2>6, <2>7
<1> QED BY <1>2, <1>3, <1>7, <1>8 DEF RunsHold

(* A run stands for some tokens, and is of a kind that its word says.      *)
LEMMA RunTypes ==
  ASSUME NEW model, NEW p \in Seq(Words), NEW v \in Nat, NEW runs, RunsHold(model, p, v, runs),
         NEW j \in 1..Len(p) + 1
  PROVE  /\ runs[j].n \in Nat
         /\ j = 1 => runs[j].kind = "BOS" /\ runs[j].n = 1
         /\ j # 1 => /\ j - 1 \in 1..Len(p)
                     /\ runs[j].kind = "image" <=> p[j - 1] = "image"
                     /\ runs[j].kind = "image" => runs[j].n = v
                     /\ runs[j].kind = "PAGE" <=> p[j - 1] = "PAGE" /\ model = "v2"
<1>1. CASE j = 1
  BY <1>1 DEF RunsHold
<1>2. CASE j # 1
  <2>1. PICK n \in Nat : n = Len(p)
    OBVIOUS
  <2>2. PICK i \in 1..n : j = i + 1 /\ i = j - 1
    BY <1>2, <2>1
  <2>3. runs[j] = RunOf(model, p, v, i)
    BY <2>1, <2>2 DEF RunsHold
  <2>4. TextTokens \in Nat
    BY TextAssumption
  <2>5. CASE p[i] = "image"
    BY <1>2, <2>1, <2>2, <2>3, <2>5 DEF RunOf
  <2>6. CASE p[i] = "PAGE" /\ model = "v2"
    BY <1>2, <2>1, <2>2, <2>3, <2>6 DEF RunOf
  <2>7. CASE p[i] # "image" /\ ~(p[i] = "PAGE" /\ model = "v2")
    BY <1>2, <2>1, <2>2, <2>3, <2>4, <2>7 DEF RunOf
  <2> QED BY <2>5, <2>6, <2>7
<1> QED BY <1>1, <1>2

(* The tokens of a request, its placeholders, and where its images are.    *)
RunsCount(model, p, v, r) ==
  /\ TokenCount(r.runs) \in Nat \ {0}
  /\ r.runs[1].kind = "BOS"
  /\ Placeholders(r) = v * Count(p, "image")
  /\ v # 0 => ImageRuns(r) = Shift(Places(p, "image"))
  /\ {i \in DOMAIN r.runs : r.runs[i].kind = "PAGE"}
       = IF model = "v2" THEN Shift(Places(p, "PAGE")) ELSE {}

(* Its sums and places follow from its runs.                               *)
LEMMA RunsCounted ==
  ASSUME NEW model, NEW p \in Seq(Words), NEW v \in Nat, NEW r, RunsHold(model, p, v, r.runs)
  PROVE  RunsCount(model, p, v, r)
<1>0. PICK runs : runs = r.runs
  OBVIOUS
<1>1. PICK n \in Nat : n = Len(p)
  OBVIOUS
<1>2. /\ RunsHold(model, p, v, runs) /\ DOMAIN runs = 1..n + 1 /\ Len(runs) = n + 1
      /\ runs[1] = [kind |-> "BOS", n |-> 1]
  BY <1>0, <1>1 DEF RunsHold
<1>3. \A j \in 1..n + 1 :
        /\ runs[j].n \in Nat
        /\ j = 1 => runs[j].kind = "BOS" /\ runs[j].n = 1
        /\ j # 1 => /\ j - 1 \in 1..n
                    /\ runs[j].kind = "image" <=> p[j - 1] = "image"
                    /\ runs[j].kind = "image" => runs[j].n = v
                    /\ runs[j].kind = "PAGE" <=> p[j - 1] = "PAGE" /\ model = "v2"
  BY <1>1, <1>2, RunTypes
<1>4. TokenCount(runs) \in Nat \ {0}
  <2> DEFINE s == [i \in 1..Len(runs) |-> runs[i].n]
  <2>1. s \in [1..n + 1 -> Nat] /\ s[1] = 1
    BY <1>2, <1>3
  <2>2. Len(s) = n + 1
    <3> HIDE DEF s
    <3> QED BY <2>1
  <2>3. TokenCount(runs) = Total(s)
    BY DEF TokenCount
  <2> HIDE DEF s
  <2>4. Total(s) \in Nat /\ Total(s) >= s[1]
    BY <2>1, <2>2, TotalType
  <2> QED BY <2>1, <2>3, <2>4
<1>5. Shift(Places(p, "image")) = {j \in 1..n + 1 : runs[j].kind = "image"}
  <2>1. ASSUME NEW i \in Places(p, "image")
        PROVE  i + 1 \in 1..n + 1 /\ runs[i + 1].kind = "image"
    <3>1. i \in 1..n /\ p[i] = "image" /\ i + 1 \in 1..n + 1 /\ i + 1 # 1 /\ (i + 1) - 1 = i
      BY <1>1 DEF Places
    <3> QED BY <1>3, <3>1
  <2>2. ASSUME NEW j \in 1..n + 1, runs[j].kind = "image"
        PROVE  j - 1 \in Places(p, "image") /\ j = (j - 1) + 1
    <3>1. j # 1
      BY <1>3, <2>2
    <3>2. j - 1 \in 1..n /\ p[j - 1] = "image"
      BY <1>3, <2>2, <3>1
    <3> QED BY <1>1, <3>2 DEF Places
  <2> QED BY <2>1, <2>2 DEF Shift
<1>6. Placeholders(r) = v * Count(p, "image")
  <2> DEFINE s == [i \in 1..Len(runs) |-> IF runs[i].kind = "image" THEN runs[i].n ELSE 0]
             S == Shift(Places(p, "image"))
  <2>1. Placeholders(r) = Total(s)
    BY <1>0 DEF Placeholders
  <2>2. s \in [1..n + 1 -> Nat]
    BY <1>2, <1>3
  <2>3. Len(s) = n + 1
    <3> HIDE DEF s
    <3> QED BY <2>2
  <2>4. S \in SUBSET (1..n + 1)
    BY <1>5
  <2>5. ASSUME NEW i \in 1..n + 1 PROVE s[i] = IF i \in S THEN v ELSE 0
    <3>1. s[i] = IF runs[i].kind = "image" THEN runs[i].n ELSE 0
      BY <1>2
    <3>2. i \in S <=> runs[i].kind = "image"
      BY <1>5
    <3>3. runs[i].kind = "image" => runs[i].n = v
      <4>1. i = 1 => runs[i].kind # "image"
        BY <1>3
      <4> QED BY <1>3, <4>1
    <3> HIDE DEF s, S
    <3> QED BY <3>1, <3>2, <3>3
  <2> HIDE DEF s, S
  <2>6. Total(s) = v * Cardinality(S)
    <3>1. n + 1 \in Nat
      OBVIOUS
    <3> QED BY <2>3, <2>4, <2>5, <3>1, TotalOfEqual
  <2>7. Cardinality(S) = Count(p, "image")
    BY <1>1, CountIs, ShiftCounts DEF S
  <2> QED BY <2>1, <2>6, <2>7
<1>7. ASSUME v # 0 PROVE ImageRuns(r) = Shift(Places(p, "image"))
  <2>1. \A j \in 1..n + 1 : runs[j].kind = "image" => runs[j].n > 0
    <3>1. TAKE j \in 1..n + 1
    <3>2. j = 1 => runs[j].kind # "image"
      BY <1>3
    <3> QED BY <1>3, <1>7, <3>2
  <2>2. ImageRuns(r) = {j \in 1..n + 1 : runs[j].kind = "image" /\ runs[j].n > 0}
    BY <1>0, <1>2 DEF ImageRuns
  <2>3. ImageRuns(r) = {j \in 1..n + 1 : runs[j].kind = "image"}
    BY <2>1, <2>2
  <2> QED BY <1>5, <2>3
<1>8. {j \in 1..n + 1 : runs[j].kind = "PAGE"} = IF model = "v2" THEN Shift(Places(p, "PAGE")) ELSE {}
  <2>1. CASE model # "v2"
    <3>1. \A j \in 1..n + 1 : runs[j].kind # "PAGE"
      <4>1. TAKE j \in 1..n + 1
      <4>2. j = 1 => runs[j].kind # "PAGE"
        BY <1>3
      <4> QED BY <1>3, <2>1, <4>2
    <3> QED BY <2>1, <3>1
  <2>2. CASE model = "v2"
    <3>1. ASSUME NEW i \in Places(p, "PAGE")
          PROVE  i + 1 \in 1..n + 1 /\ runs[i + 1].kind = "PAGE"
      <4>1. i \in 1..n /\ p[i] = "PAGE" /\ i + 1 \in 1..n + 1 /\ i + 1 # 1 /\ (i + 1) - 1 = i
        BY <1>1 DEF Places
      <4> QED BY <1>3, <2>2, <4>1
    <3>2. ASSUME NEW j \in 1..n + 1, runs[j].kind = "PAGE"
          PROVE  j - 1 \in Places(p, "PAGE") /\ j = (j - 1) + 1
      <4>1. j # 1
        BY <1>3, <3>2
      <4>2. j - 1 \in 1..n /\ p[j - 1] = "PAGE"
        BY <1>3, <3>2, <4>1
      <4> QED BY <1>1, <4>2 DEF Places
    <3> QED BY <2>2, <3>1, <3>2 DEF Shift
  <2> QED BY <2>1, <2>2
<1> QED BY <1>0, <1>2, <1>4, <1>6, <1>7, <1>8 DEF RunsCount

-----------------------------------------------------------------------------
(* The views of a request.                                                 *)

AllOf(n) == [i \in 1..n |-> "global"]

(* Views that are all global.                                              *)
LEMMA WholeViews ==
  ASSUME NEW n \in Nat
  PROVE  /\ Len(AllOf(n)) = n /\ AllGlobal(AllOf(n)) /\ (n # 0 <=> AllOf(n) # <<>>)
         /\ Count(AllOf(n), "local") = 0 /\ Count(AllOf(n), "global") = n
         /\ AllOf(1) = <<"global">> /\ AllOf(0) = <<>>
<1>1. DOMAIN AllOf(n) = 1..n /\ Len(AllOf(n)) = n /\ \A i \in 1..n : AllOf(n)[i] = "global"
  BY DEF AllOf
<1>2. AllGlobal(AllOf(n)) /\ (n # 0 <=> AllOf(n) # <<>>)
  BY <1>1 DEF AllGlobal
<1>3. {i \in DOMAIN AllOf(n) : AllOf(n)[i] = "local"} = {}
  BY <1>1
<1>4. {i \in DOMAIN AllOf(n) : AllOf(n)[i] = "global"} = 1..n
  BY <1>1
<1>5. Cardinality({}) = 0 /\ Cardinality(1..n) = n
  BY FS_EmptySet, FS_Interval
<1>6. AllOf(1) = <<"global">> /\ AllOf(0) = <<>>
  BY DEF AllOf
<1> QED BY <1>1, <1>2, <1>3, <1>4, <1>5, <1>6 DEF Count

(* The views of a page that is cut, the global one behind the crops.       *)
LEMMA CropViews ==
  ASSUME NEW grid, grid # <<1, 1>>, NEW n \in Nat, n = grid[1] * grid[2]
  PROVE  /\ Len(Views(grid)) = n + 1 /\ LocalsThenGlobal(Views(grid))
         /\ Count(Views(grid), "local") = n /\ Count(Views(grid), "global") = 1
<1> DEFINE locals == [i \in 1..n |-> "local"]
           last == <<"global">>
           views == locals \o last
<1>1. Views(grid) = views
  BY DEF Views
<1>2. locals \in Seq({"local", "global"}) /\ Len(locals) = n /\ \A i \in 1..n : locals[i] = "local"
  OBVIOUS
<1>3. last \in Seq({"local", "global"}) /\ Len(last) = 1 /\ last[1] = "global"
  OBVIOUS
<1> HIDE DEF locals, last
<1>4. views \in Seq({"local", "global"}) /\ Len(views) = Len(locals) + Len(last)
  BY <1>2, <1>3, ConcatProperties
<1>5. \A i \in 1..Len(locals) + Len(last) :
        views[i] = IF i <= Len(locals) THEN locals[i] ELSE last[i - Len(locals)]
  BY <1>2, <1>3, ConcatProperties
<1> HIDE DEF views
<1>6. Len(views) = n + 1 /\ DOMAIN views = 1..n + 1
  BY <1>2, <1>3, <1>4
<1>7. (\A i \in 1..n : views[i] = "local") /\ views[n + 1] = "global"
  BY <1>2, <1>3, <1>5
<1>8. LocalsThenGlobal(views)
  <2>1. Last(views) = "global"
    BY <1>6, <1>7 DEF Last
  <2> QED BY <1>6, <1>7, <2>1 DEF LocalsThenGlobal
<1>9. {i \in DOMAIN views : views[i] = "local"} = 1..n
  BY <1>6, <1>7
<1>10. {i \in DOMAIN views : views[i] = "global"} = {n + 1}
  BY <1>6, <1>7
<1>11. Cardinality(1..n) = n /\ Cardinality({n + 1}) = 1
  <2>1. Cardinality(1..n) = n
    BY FS_Interval
  <2>2. Cardinality({n + 1}) = 1
    BY FS_Singleton
  <2> QED BY <2>1, <2>2
<1> QED BY <1>1, <1>6, <1>8, <1>9, <1>10, <1>11 DEF Count

(* A grid is the whole page, or cuts it in two or more.                    *)
LEMMA GridIs ==
  ASSUME NEW model, NEW grid \in Grids(model)
  PROVE  /\ grid = <<grid[1], grid[2]>>
         /\ grid[1] \in Nat \ {0} /\ grid[2] \in Nat \ {0} /\ grid[1] * grid[2] \in Nat \ {0}
         /\ grid # <<1, 1>> => grid[1] * grid[2] >= 2
         /\ grid[1] * grid[2] <= 32 /\ (model = "v2" => grid[1] * grid[2] <= 16)
<1>1. PICK most \in {16, 32} : /\ most = IF model = "v2" THEN 16 ELSE 32
                               /\ \/ grid = <<1, 1>>
                                  \/ grid \in {g \in (1..most) \X (1..most) : g[1] * g[2] \in 2..most}
  BY DEF Grids
<1>2. CASE grid = <<1, 1>>
  BY <1>2
<1>3. CASE grid # <<1, 1>>
  <2>1. grid \in (1..most) \X (1..most) /\ grid[1] * grid[2] \in 2..most
    BY <1>1, <1>3
  <2>2. grid = <<grid[1], grid[2]>> /\ grid[1] \in 1..most /\ grid[2] \in 1..most
    BY <2>1
  <2>3. PICK n : n = grid[1] * grid[2]
    OBVIOUS
  <2>4. n \in 2..most
    BY <2>1, <2>3
  <2> QED BY <1>1, <1>3, <2>2, <2>3, <2>4
<1> QED BY <1>2, <1>3

-----------------------------------------------------------------------------
(* Pages and their images.                                                 *)

(* When there are as many pages, images and pages followed by an image,    *)
(* each page is followed by an image and each image follows a page.        *)
LEMMA SpansMatch ==
  ASSUME NEW p \in Seq(Words), NEW k,
         Count(p, "PAGE") = k, Count(p, "image") = k, PageThenImage(p) = k
  PROVE  /\ \A i \in Places(p, "PAGE") : i + 1 \in Places(p, "image")
         /\ \A i \in Places(p, "image") : i - 1 \in Places(p, "PAGE")
<1> DEFINE P == Places(p, "PAGE")
           I == Places(p, "image")
           both == {i \in 1..Len(p) - 1 : p[i] = "PAGE" /\ p[i + 1] = "image"}
<1>1. PICK n \in Nat : n = Len(p)
  OBVIOUS
<1>2. /\ P \in SUBSET (1..n) /\ I \in SUBSET (1..n) /\ both \in SUBSET (1..n)
      /\ both \in SUBSET P /\ Shift(both) \in SUBSET I
  BY <1>1 DEF Places, Shift
<1>3. IsFiniteSet(P) /\ IsFiniteSet(I) /\ Cardinality(P) = k /\ Cardinality(I) = k
  BY CountIs
<1>4. Cardinality(both) = k
  BY DEF PageThenImage
<1> HIDE DEF P, I, both
<1>5. P = both
  BY <1>2, <1>3, <1>4, FS_Subset
<1>6. Cardinality(Shift(both)) = k
  BY <1>2, <1>4, ShiftCounts
<1>7. I = Shift(both)
  BY <1>2, <1>3, <1>6, FS_Subset
<1>8. \A i \in P : i + 1 \in I
  BY <1>5, <1>7 DEF Shift
<1>9. \A i \in I : i - 1 \in P
  <2>1. TAKE i \in I
  <2>2. PICK j \in both : i = j + 1
    BY <1>7 DEF Shift
  <2>3. j \in Nat
    BY <1>2
  <2> QED BY <1>5, <2>2, <2>3
<1> QED BY <1>8, <1>9 DEF P, I

-----------------------------------------------------------------------------
(* The requests that are prepared.                                         *)

(* What makes a request one of a model, at both gates, but for its size.   *)
RequestMade(model, r) ==
  /\ r.tokens \in Nat \ {0} /\ r.maxNew \in Nat /\ r.runs[1].kind = "BOS"
  /\ FfiAccepts(r)
  /\ model = "v2" => V2PagesAccepted(r)
  /\ model # "v2" => Cardinality(ImageRuns(r)) <= 1 /\ ~V2PagesAccepted(r)
  /\ Placeholders(r) = ExpectedVisual(r)
  /\ Placeholders(r) = 0 => r.views = <<>>

(* A prompt whose images stand for v tokens each, and its views: v is what *)
(* the views need, and v2 has a page for each image.                       *)
Matches(model, p, v, r) ==
  LET images == Count(p, "image")
      locals == Count(r.views, "local")
      globals == Count(r.views, "global")
  IN  /\ images # 0 => v # 0
      /\ images = 0 => r.views = <<>>
      /\ v * images = ExpectedVisual(r)
      /\ model # "v2" => images <= 1
      /\ model = "v2" =>
           /\ images # 0 /\ images = Count(p, "PAGE") /\ images = PageThenImage(p)
           /\ images = globals /\ locals <= 16 /\ (locals > 0 => globals = 1)
           /\ locals = 0 => v = GlobalTokens

(* Such a request is one of its model.                                     *)
LEMMA MatchesMade ==
  ASSUME NEW model, NEW p \in Seq(Words), NEW v \in Nat, NEW r, RunsHold(model, p, v, r.runs),
         r.tokens = TokenCount(r.runs), r.maxNew \in Nat,
         FfiAccepts(r), Matches(model, p, v, r)
  PROVE  RequestMade(model, r)
<1> DEFINE images == Count(p, "image")
           pageRuns == {i \in DOMAIN r.runs : r.runs[i].kind = "PAGE"}
<1>1. RunsCount(model, p, v, r)
  BY RunsCounted
<1>2. /\ images \in Nat /\ images = Cardinality(Places(p, "image"))
      /\ Places(p, "image") \in SUBSET (1..Len(p)) /\ Len(p) \in Nat
      /\ Count(p, "PAGE") = Cardinality(Places(p, "PAGE"))
      /\ Places(p, "PAGE") \in SUBSET (1..Len(p))
  BY CountIs
<1>3. Placeholders(r) = v * images
  BY <1>1 DEF RunsCount
<1>4. v * images = 0 => images = 0
  BY <1>2 DEF Matches
<1>5. \A i \in ImageRuns(r) : r.runs[i].n = v /\ v > 0
  <2>1. PICK runs : runs = r.runs
    OBVIOUS
  <2>2. TAKE i \in ImageRuns(r)
  <2>3. i \in DOMAIN runs /\ runs[i].kind = "image" /\ runs[i].n > 0
    BY <2>1 DEF ImageRuns
  <2>4. RunsHold(model, p, v, runs) /\ i \in 1..Len(p) + 1
    BY <2>1, <2>3 DEF RunsHold
  <2>5. i # 1
    <3>1. runs[1].kind = "BOS"
      BY <2>4 DEF RunsHold
    <3> QED BY <2>3, <3>1
  <2>6. runs[i].n = v
    BY <2>3, <2>4, <2>5, RunTypes
  <2> QED BY <2>1, <2>3, <2>6
<1>6. v = 0 => ImageRuns(r) = {}
  BY <1>5
<1>7. model # "v2" => Cardinality(ImageRuns(r)) <= 1
  <2>1. ASSUME model # "v2", v # 0 PROVE Cardinality(ImageRuns(r)) <= 1
    <3>1. Cardinality(Shift(Places(p, "image"))) = images
      BY <1>2, ShiftCounts
    <3>2. ImageRuns(r) = Shift(Places(p, "image"))
      BY <1>1, <2>1 DEF RunsCount
    <3>3. images <= 1
      BY <2>1 DEF Matches
    <3> QED BY <3>1, <3>2, <3>3
  <2>2. ASSUME v = 0 PROVE Cardinality(ImageRuns(r)) <= 1
    <3>1. ImageRuns(r) = {}
      BY <1>6, <2>2
    <3>2. Cardinality({}) = 0
      BY FS_EmptySet
    <3> QED BY <3>1, <3>2
  <2> QED BY <2>1, <2>2
<1>8. model # "v2" => ~V2PagesAccepted(r)
  <2> SUFFICES ASSUME model # "v2", V2PagesAccepted(r) PROVE FALSE
    OBVIOUS
  <2>1. pageRuns = {}
    BY <1>1 DEF RunsCount
  <2>2. Cardinality(pageRuns) = 0
    BY <2>1, FS_EmptySet
  <2>3. Cardinality(pageRuns) = Count(r.views, "global") /\ Count(r.views, "global") > 0
    BY DEF V2PagesAccepted
  <2> QED BY <2>2, <2>3
<1>9. ASSUME model = "v2" PROVE V2PagesAccepted(r)
  <2>1. v # 0 /\ images # 0
    BY <1>9 DEF Matches
  <2>2. ImageRuns(r) = Shift(Places(p, "image")) /\ pageRuns = Shift(Places(p, "PAGE"))
    BY <1>1, <1>9, <2>1 DEF RunsCount
  <2>3. /\ \A i \in Places(p, "PAGE") : i + 1 \in Places(p, "image")
        /\ \A i \in Places(p, "image") : i - 1 \in Places(p, "PAGE")
    BY <1>9, SpansMatch DEF Matches
  <2>4. \A i \in pageRuns : i + 1 \in ImageRuns(r)
    <3>1. TAKE i \in pageRuns
    <3>2. PICK k \in Places(p, "PAGE") : i = k + 1
      BY <2>2 DEF Shift
    <3>3. k + 1 \in Places(p, "image")
      BY <2>3
    <3> QED BY <2>2, <3>2, <3>3 DEF Shift
  <2>5. \A i \in ImageRuns(r) : i - 1 \in pageRuns
    <3>1. TAKE i \in ImageRuns(r)
    <3>2. PICK k \in Places(p, "image") : i = k + 1
      BY <2>2 DEF Shift
    <3>3. k - 1 \in Places(p, "PAGE") /\ k \in Nat
      BY <1>2, <2>3
    <3>4. i - 1 = (k - 1) + 1
      BY <3>2, <3>3
    <3> QED BY <2>2, <3>3, <3>4 DEF Shift
  <2>7. Cardinality(pageRuns) = images
    BY <1>2, <1>9, <2>2, ShiftCounts DEF Matches
  <2>8. /\ Count(r.views, "global") = images /\ Count(r.views, "local") <= 16
        /\ Count(r.views, "local") > 0 => Count(r.views, "global") = 1
        /\ Count(r.views, "local") = 0 => v = GlobalTokens
    BY <1>9 DEF Matches
  <2>9. Count(r.views, "global") > 0
    BY <1>2, <2>1, <2>8
  <2> HIDE DEF pageRuns
  <2>10. \A i \in ImageRuns(r) :
           i - 1 \in pageRuns /\ (Count(r.views, "local") = 0 => r.runs[i].n = GlobalTokens)
    BY <1>5, <2>5, <2>8
  <2>11. Cardinality(pageRuns) = Count(r.views, "global")
    BY <2>7, <2>8
  <2> QED BY <2>4, <2>8, <2>9, <2>10, <2>11, Zenon DEF V2PagesAccepted, pageRuns
<1>10. Placeholders(r) = ExpectedVisual(r)
  BY <1>3 DEF Matches
<1>11. Placeholders(r) = 0 => r.views = <<>>
  BY <1>3, <1>4 DEF Matches
<1>12. r.tokens \in Nat \ {0} /\ r.runs[1].kind = "BOS"
  BY <1>1 DEF RunsCount
<1> QED BY <1>7, <1>8, <1>9, <1>10, <1>11, <1>12 DEF RequestMade

(* The options of a call, as far as a request depends on them.             *)
OptionsHold(o) ==
  /\ o.prompt \in Seq(Words) /\ o.preset \in {"base", "gundam"} /\ o.grid \in Grids(o.model)
  /\ o.pages \in Nat /\ o.maxLength \in Int /\ o.maxNew \in Int \cup {None}

(* A request prepared from these, whatever its budget.                     *)
IsWhole(r, runs, views, grid, mode) ==
  r \in [ok : {TRUE}, runs : {runs}, views : {views}, grid : {grid}, mode : {mode},
         tokens : {TokenCount(runs)}, maxNew : Nat]

(* A budget is a number of tokens.                                         *)
LEMMA PreparedWhole ==
  ASSUME NEW o, OptionsHold(o), ~(o.maxNew # None /\ o.maxNew < 0),
         NEW runs, TokenCount(runs) \in Nat, NEW views, NEW grid, NEW mode
  PROVE  IsWhole(Prepared(o, runs, views, grid, mode), runs, views, grid, mode)
<1>1. PICK n \in Nat : n = TokenCount(runs)
  OBVIOUS
<1>2. MaxNewTokens(o.maxLength, n, o.maxNew) \in Nat
  BY DEF OptionsHold, MaxNewTokens
<1> QED BY <1>1, <1>2 DEF Prepared, IsWhole

(* Capping a budget leaves the rest alone.                                 *)
LEMMA CappedWhole ==
  ASSUME NEW r, NEW runs, NEW views, NEW grid, NEW mode, IsWhole(r, runs, views, grid, mode),
         NEW most \in Int \cup {None}, Capped(r, most).ok
  PROVE  IsWhole(Capped(r, most), runs, views, grid, mode)
<1>1. CASE most = None
  BY <1>1 DEF Capped
<1>2. CASE most # None
  <2>1. ~(most < 0)
    BY <1>2 DEF Capped, Refused
  <2>2. Capped(r, most) = [r EXCEPT !.maxNew = AtMost(r.maxNew, most)]
    BY <1>2, <2>1 DEF Capped
  <2>3. r.maxNew \in Nat
    BY DEF IsWhole
  <2>4. PICK least \in Nat : least = AtMost(r.maxNew, most)
    BY <2>1, <2>3 DEF AtMost
  <2> QED BY <2>2, <2>4 DEF IsWhole
<1> QED BY <1>1, <1>2

(* Its parts.                                                              *)
LEMMA WholeParts ==
  ASSUME NEW r, NEW runs, NEW views, NEW grid, NEW mode, IsWhole(r, runs, views, grid, mode)
  PROVE  /\ r.runs = runs /\ r.views = views /\ r.grid = grid /\ r.mode = mode
         /\ r.tokens = TokenCount(runs) /\ r.maxNew \in Nat
BY DEF IsWhole

(* What prepare_image makes of its options, and when.                      *)
ImageGrid(o) == IF o.preset = "gundam" THEN o.grid ELSE <<1, 1>>
ImageRunsOf(o) == Runs(o.model, o.prompt, <<CropTokens(ImageGrid(o))>>)

(* The request that prepare_image makes.                                   *)
LEMMA ImageWhole ==
  ASSUME NEW o, OptionsHold(o), PrepareImage(o).ok
  PROVE  /\ Count(o.prompt, "image") = 1
         /\ o.model = "v2" => Count(o.prompt, "PAGE") = 1 /\ PageThenImage(o.prompt) # 0
         /\ ImageGrid(o) \in Grids(o.model) /\ CropTokens(ImageGrid(o)) \in Nat \ {0}
         /\ o.preset # "gundam" => ImageGrid(o) = <<1, 1>>
         /\ RunsHold(o.model, o.prompt, CropTokens(ImageGrid(o)), ImageRunsOf(o))
         /\ IsWhole(PrepareImage(o), ImageRunsOf(o), Views(ImageGrid(o)), ImageGrid(o), o.preset)
<1> DEFINE refused == \/ o.model = "v2" /\ (Count(o.prompt, "PAGE") # 1 \/ PageThenImage(o.prompt) = 0)
                      \/ Count(o.prompt, "image") # 1
                      \/ o.maxNew # None /\ o.maxNew < 0
           grid == ImageGrid(o)
           v == CropTokens(grid)
<1>1. PrepareImage(o) = IF refused THEN Refused
                        ELSE Prepared(o, ImageRunsOf(o), Views(grid), grid, o.preset)
  BY DEF PrepareImage, ImageGrid, ImageRunsOf
<1>2. ~refused
  <2> HIDE DEF refused, grid
  <2> QED BY <1>1 DEF Refused
<1>3. /\ Count(o.prompt, "image") = 1 /\ ~(o.maxNew # None /\ o.maxNew < 0)
      /\ o.model = "v2" => Count(o.prompt, "PAGE") = 1 /\ PageThenImage(o.prompt) # 0
  BY <1>2
<1>4. PrepareImage(o) = Prepared(o, ImageRunsOf(o), Views(grid), grid, o.preset)
  BY <1>1, <1>2
<1> HIDE DEF refused
<1>5. grid \in Grids(o.model) /\ (o.preset # "gundam" => grid = <<1, 1>>)
  BY DEF OptionsHold, ImageGrid, Grids
<1> HIDE DEF grid
<1>6. v \in Nat \ {0}
  <2>1. grid[1] \in Nat /\ grid[2] \in Nat
    BY <1>5, GridIs
  <2>2. PICK a \in Nat, b \in Nat : a = LocalQueries * grid[1] + 1 /\ b = LocalQueries * grid[2]
    BY <2>1 DEF LocalQueries
  <2>3. a * b \in Nat
    OBVIOUS
  <2>4. v = GlobalTokens \/ v = a * b + GlobalTokens
    BY <2>2 DEF CropTokens
  <2> QED BY <2>3, <2>4 DEF GlobalTokens
<1> HIDE DEF v
<1>7. RunsHold(o.model, o.prompt, v, ImageRunsOf(o))
  <2>1. \A k \in 1..Count(o.prompt, "image") : <<v>>[k] = v
    BY <1>3
  <2>2. ImageRunsOf(o) = Runs(o.model, o.prompt, <<v>>)
    BY DEF ImageRunsOf, v, grid
  <2> QED BY <2>1, <2>2, RunsAre DEF OptionsHold
<1>8. TokenCount(ImageRunsOf(o)) \in Nat
  <2>1. PICK r : r = [runs |-> ImageRunsOf(o)]
    OBVIOUS
  <2>2. RunsHold(o.model, o.prompt, v, r.runs) /\ r.runs = ImageRunsOf(o)
    BY <1>7, <2>1
  <2>3. RunsCount(o.model, o.prompt, v, r)
    BY <1>6, <2>2, RunsCounted DEF OptionsHold
  <2> QED BY <2>2, <2>3 DEF RunsCount
<1>9. IsWhole(PrepareImage(o), ImageRunsOf(o), Views(grid), grid, o.preset)
  BY <1>3, <1>4, <1>8, PreparedWhole
<1> QED BY <1>3, <1>5, <1>6, <1>7, <1>9 DEF v, grid

(* What native validation expects of views that are all global.            *)
LEMMA WholeExpected ==
  ASSUME NEW r, NEW n \in Nat, r.views = AllOf(n), r.grid = <<1, 1>>
  PROVE  ExpectedVisual(r) = n * GlobalTokens
<1>1. Count(r.views, "local") = 0 /\ Count(r.views, "global") = n
  BY WholeViews
<1>2. r.grid \in (0..1) \X (0..1)
  OBVIOUS
<1> QED BY <1>1, <1>2 DEF ExpectedVisual

(* And of the crops of a page.                                             *)
LEMMA CropExpected ==
  ASSUME NEW model, NEW r, r.grid \in Grids(model), r.grid # <<1, 1>>, r.views = Views(r.grid)
  PROVE  ExpectedVisual(r) = CropTokens(r.grid)
<1>1. PICK n \in Nat : n = r.grid[1] * r.grid[2] /\ n >= 2
  BY GridIs
<1>2. /\ Count(r.views, "local") = n /\ Count(r.views, "global") = 1 /\ LocalsThenGlobal(r.views)
  BY <1>1, CropViews
<1>3. ExpectedVisual(r)
        = (LocalQueries * r.grid[1] + 1) * (LocalQueries * r.grid[2]) + GlobalTokens
  <2>1. n # 0 /\ n > 1
    BY <1>1
  <2> QED BY <1>1, <1>2, <2>1, Zenon DEF ExpectedVisual
<1> QED BY <1>3 DEF CropTokens

(* No more pages than there are are followed by an image.                  *)
LEMMA SpansBelow ==
  ASSUME NEW p \in Seq(Words)
  PROVE  PageThenImage(p) \in Nat /\ PageThenImage(p) <= Count(p, "PAGE")
<1> DEFINE both == {i \in 1..Len(p) - 1 : p[i] = "PAGE" /\ p[i + 1] = "image"}
<1>1. both \in SUBSET Places(p, "PAGE")
  BY DEF Places
<1>2. PageThenImage(p) = Cardinality(both)
  BY DEF PageThenImage
<1> HIDE DEF both
<1>3. IsFiniteSet(both) /\ Cardinality(both) <= Cardinality(Places(p, "PAGE"))
  BY <1>1, CountIs, FS_Subset
<1> QED BY <1>2, <1>3, CountIs, FS_CardinalityType

(* A request that prepare_image prepares, capped or not, is one of its     *)
(* model.                                                                  *)
LEMMA ImageMade ==
  ASSUME NEW o, OptionsHold(o), PrepareImage(o).ok,
         NEW r, IsWhole(r, ImageRunsOf(o), Views(ImageGrid(o)), ImageGrid(o), o.preset)
  PROVE  RequestMade(o.model, r)
<1> DEFINE grid == ImageGrid(o)
           v == CropTokens(grid)
           p == o.prompt
<1>1. /\ Count(p, "image") = 1 /\ (o.model = "v2" => Count(p, "PAGE") = 1 /\ PageThenImage(p) # 0)
      /\ grid \in Grids(o.model) /\ v \in Nat \ {0} /\ (o.preset # "gundam" => grid = <<1, 1>>)
      /\ RunsHold(o.model, p, v, ImageRunsOf(o))
  BY ImageWhole
<1>2. /\ r.runs = ImageRunsOf(o) /\ r.views = Views(grid) /\ r.grid = grid /\ r.mode = o.preset
      /\ r.tokens = TokenCount(r.runs) /\ r.maxNew \in Nat
  BY WholeParts
<1>3. p \in Seq(Words) /\ o.preset \in {"base", "gundam"}
  BY DEF OptionsHold
<1>4. o.model = "v2" => PageThenImage(p) = 1
  BY <1>1, <1>3, SpansBelow
<1> HIDE DEF grid, v, p
<1>5. CASE grid = <<1, 1>>
  <2>1. r.views = AllOf(1) /\ r.views = <<"global">>
    BY <1>2, <1>5, WholeViews DEF Views
  <2>2. v = GlobalTokens
    BY <1>5 DEF CropTokens, v
  <2>3. ExpectedVisual(r) = 1 * GlobalTokens
    BY <1>2, <1>5, <2>1, WholeExpected
  <2>4. FfiAccepts(r)
    <3>1. r.grid[1] * r.grid[2] = 1
      BY <1>2, <1>5
    <3> QED BY <1>2, <1>3, <1>5, <2>1, <3>1 DEF FfiAccepts
  <2>5. Count(r.views, "local") = 0 /\ Count(r.views, "global") = 1
    BY <2>1, WholeViews
  <2>6. Matches(o.model, p, v, r)
    BY <1>1, <1>4, <2>2, <2>3, <2>5 DEF Matches, GlobalTokens
  <2> QED BY <1>1, <1>2, <1>3, <2>4, <2>6, MatchesMade
<1>6. CASE grid # <<1, 1>>
  <2>1. PICK n \in Nat : /\ n = grid[1] * grid[2] /\ n >= 2 /\ n <= 32
                         /\ (o.model = "v2" => n <= 16)
    BY <1>1, <1>6, GridIs
  <2>2. /\ Len(r.views) = n + 1 /\ LocalsThenGlobal(r.views)
        /\ Count(r.views, "local") = n /\ Count(r.views, "global") = 1
    BY <1>2, <1>6, <2>1, CropViews
  <2>3. o.preset = "gundam"
    BY <1>1, <1>3, <1>6
  <2>4. FfiAccepts(r)
    BY <1>2, <2>1, <2>2, <2>3 DEF FfiAccepts
  <2>5. ExpectedVisual(r) = v
    BY <1>1, <1>2, <1>6, CropExpected DEF v
  <2>6. v * 1 = v
    BY <1>1
  <2>7. Matches(o.model, p, v, r)
    BY <1>1, <1>4, <2>1, <2>2, <2>5, <2>6 DEF Matches
  <2> QED BY <1>1, <1>2, <1>3, <2>4, <2>7, MatchesMade
<1> QED BY <1>5, <1>6

(* What prepare_pages makes of its options, and when.                      *)
PagesRunsOf(o) == Runs(o.model, o.prompt, PagesCounts(o))
PagesTokens(o) == IF o.model = "v2" THEN GlobalTokens ELSE GlobalTokens * o.pages

(* The request that prepare_pages makes.                                   *)
LEMMA PagesWhole ==
  ASSUME NEW o, OptionsHold(o), PreparePages(o).ok
  PROVE  /\ o.pages # 0
         /\ o.model = "v2" => /\ Count(o.prompt, "PAGE") = o.pages
                              /\ PageThenImage(o.prompt) = o.pages
                              /\ Count(o.prompt, "image") = o.pages
         /\ o.model # "v2" => Count(o.prompt, "image") = 1
         /\ PagesTokens(o) \in Nat \ {0}
         /\ RunsHold(o.model, o.prompt, PagesTokens(o), PagesRunsOf(o))
         /\ IsWhole(PreparePages(o), PagesRunsOf(o), AllOf(o.pages), <<1, 1>>, "multi-page-base")
<1> DEFINE refused ==
             \/ o.pages = 0
             \/ o.model = "v2" /\ ~(Count(o.prompt, "PAGE") = o.pages /\ PageThenImage(o.prompt) = o.pages)
             \/ Count(o.prompt, "image") # Len(PagesCounts(o))
             \/ o.maxNew # None /\ o.maxNew < 0
           whole == Prepared(o, PagesRunsOf(o), AllOf(o.pages), <<1, 1>>, "multi-page-base")
<1>1. PreparePages(o) = IF refused THEN Refused ELSE whole
  BY DEF PreparePages, PagesRunsOf, AllOf
<1>2. ~refused
  <2> HIDE DEF refused, whole
  <2> QED BY <1>1 DEF Refused
<1>3. /\ o.pages # 0 /\ ~(o.maxNew # None /\ o.maxNew < 0)
      /\ o.model = "v2" => Count(o.prompt, "PAGE") = o.pages /\ PageThenImage(o.prompt) = o.pages
      /\ Count(o.prompt, "image") = Len(PagesCounts(o))
  BY <1>2
<1>4. PreparePages(o) = whole
  BY <1>1, <1>2
<1> HIDE DEF refused
<1>5. o.pages \in Nat /\ o.prompt \in Seq(Words)
  BY DEF OptionsHold
<1>6. Len(PagesCounts(o)) = (IF o.model = "v2" THEN o.pages ELSE 1)
  BY <1>5 DEF PagesCounts
<1>7. PagesTokens(o) \in Nat \ {0}
  BY <1>3, <1>5 DEF PagesTokens, GlobalTokens
<1>8. \A k \in 1..Count(o.prompt, "image") : PagesCounts(o)[k] = PagesTokens(o)
  <2>1. CASE o.model = "v2"
    BY <1>3, <1>5, <1>6, <2>1 DEF PagesCounts, PagesTokens
  <2>2. CASE o.model # "v2"
    BY <1>3, <1>6, <2>2 DEF PagesCounts, PagesTokens
  <2> QED BY <2>1, <2>2
<1>9. RunsHold(o.model, o.prompt, PagesTokens(o), PagesRunsOf(o))
  BY <1>5, <1>8, RunsAre DEF PagesRunsOf
<1>10. TokenCount(PagesRunsOf(o)) \in Nat
  <2>1. PICK r : r = [runs |-> PagesRunsOf(o)]
    OBVIOUS
  <2>2. RunsHold(o.model, o.prompt, PagesTokens(o), r.runs) /\ r.runs = PagesRunsOf(o)
    BY <1>9, <2>1
  <2>3. RunsCount(o.model, o.prompt, PagesTokens(o), r)
    BY <1>5, <1>7, <2>2, RunsCounted
  <2> QED BY <2>2, <2>3 DEF RunsCount
<1>11. IsWhole(PreparePages(o), PagesRunsOf(o), AllOf(o.pages), <<1, 1>>, "multi-page-base")
  BY <1>3, <1>4, <1>10, PreparedWhole
<1> QED BY <1>3, <1>6, <1>7, <1>9, <1>11

(* Such a request is one of its model.                                     *)
LEMMA PagesMade ==
  ASSUME NEW o, OptionsHold(o), PreparePages(o).ok,
         NEW r, IsWhole(r, PagesRunsOf(o), AllOf(o.pages), <<1, 1>>, "multi-page-base")
  PROVE  RequestMade(o.model, r)
<1> DEFINE v == PagesTokens(o)
           p == o.prompt
<1>1. PICK n \in Nat \ {0} : n = o.pages
  BY PagesWhole DEF OptionsHold
<1>2. /\ o.model = "v2" => Count(p, "PAGE") = n /\ PageThenImage(p) = n /\ Count(p, "image") = n
      /\ o.model # "v2" => Count(p, "image") = 1
      /\ v \in Nat \ {0} /\ RunsHold(o.model, p, v, PagesRunsOf(o)) /\ p \in Seq(Words)
  BY <1>1, PagesWhole DEF OptionsHold
<1>3. /\ r.runs = PagesRunsOf(o) /\ r.views = AllOf(n) /\ r.grid = <<1, 1>>
      /\ r.mode = "multi-page-base" /\ r.tokens = TokenCount(r.runs) /\ r.maxNew \in Nat
  BY <1>1, WholeParts
<1>4. FfiAccepts(r)
  BY <1>3, WholeViews DEF FfiAccepts
<1>5. ExpectedVisual(r) = n * GlobalTokens
  BY <1>3, WholeExpected
<1>6. Count(r.views, "local") = 0 /\ Count(r.views, "global") = n
  BY <1>3, WholeViews
<1>7. v = IF o.model = "v2" THEN GlobalTokens ELSE GlobalTokens * n
  BY <1>1 DEF PagesTokens
<1> HIDE DEF v, p
<1>8. v * Count(p, "image") = ExpectedVisual(r)
  BY <1>2, <1>5, <1>7 DEF GlobalTokens
<1>9. Matches(o.model, p, v, r)
  <2>1. CASE o.model = "v2"
    BY <1>2, <1>6, <1>7, <1>8, <2>1 DEF Matches
  <2>2. CASE o.model # "v2"
    BY <1>2, <1>8, <2>2 DEF Matches
  <2> QED BY <2>1, <2>2
<1> QED BY <1>2, <1>3, <1>4, <1>9, MatchesMade

(* What prepare_text makes of its options: v1 alone, without an image.     *)
TextRunsOf(o) == Runs(o.model, o.prompt, <<>>)

(* The request that prepare_text makes.                                    *)
LEMMA TextWhole ==
  ASSUME NEW o, OptionsHold(o), PrepareText(o).ok
  PROVE  /\ o.model # "v2" /\ Count(o.prompt, "image") = 0
         /\ RunsHold(o.model, o.prompt, 0, TextRunsOf(o))
         /\ IsWhole(PrepareText(o), TextRunsOf(o), <<>>, <<1, 1>>, "text-only")
<1>1. /\ o.model # "v2" /\ Count(o.prompt, "image") = 0 /\ ~(o.maxNew # None /\ o.maxNew < 0)
      /\ PrepareText(o) = Prepared(o, TextRunsOf(o), <<>>, <<1, 1>>, "text-only")
  BY DEF PrepareText, Refused, TextRunsOf
<1>2. RunsHold(o.model, o.prompt, 0, TextRunsOf(o))
  BY <1>1, RunsAre DEF OptionsHold, TextRunsOf
<1>3. TokenCount(TextRunsOf(o)) \in Nat
  <2>1. PICK r : r = [runs |-> TextRunsOf(o)]
    OBVIOUS
  <2>2. RunsHold(o.model, o.prompt, 0, r.runs) /\ r.runs = TextRunsOf(o)
    BY <1>2, <2>1
  <2>3. RunsCount(o.model, o.prompt, 0, r)
    BY <2>2, RunsCounted DEF OptionsHold
  <2> QED BY <2>2, <2>3 DEF RunsCount
<1>4. IsWhole(PrepareText(o), TextRunsOf(o), <<>>, <<1, 1>>, "text-only")
  BY <1>1, <1>3, PreparedWhole
<1> QED BY <1>1, <1>2, <1>4

(* Such a request is one of its model.                                     *)
LEMMA TextMade ==
  ASSUME NEW o, OptionsHold(o), PrepareText(o).ok,
         NEW r, IsWhole(r, TextRunsOf(o), <<>>, <<1, 1>>, "text-only")
  PROVE  RequestMade(o.model, r)
<1>1. /\ o.model # "v2" /\ Count(o.prompt, "image") = 0 /\ o.prompt \in Seq(Words)
      /\ RunsHold(o.model, o.prompt, 0, TextRunsOf(o))
  BY TextWhole DEF OptionsHold
<1>2. /\ r.runs = TextRunsOf(o) /\ r.views = <<>> /\ r.grid = <<1, 1>> /\ r.mode = "text-only"
      /\ r.tokens = TokenCount(r.runs) /\ r.maxNew \in Nat
  BY WholeParts
<1>3. r.views = AllOf(0)
  BY <1>2, WholeViews
<1>4. ExpectedVisual(r) = 0 * GlobalTokens
  BY <1>2, <1>3, WholeExpected
<1>5. FfiAccepts(r)
  BY <1>2 DEF FfiAccepts
<1>6. Matches(o.model, o.prompt, 0, r)
  BY <1>1, <1>2, <1>4 DEF Matches, GlobalTokens
<1> QED BY <1>1, <1>2, <1>5, <1>6, MatchesMade

-----------------------------------------------------------------------------
(* The request of a call, and the engine it is served by.                  *)

(* What a call's options are when the request is prepared.                 *)
LEMMA OptionsAre ==
  ASSUME IInv
  PROVE  OptionsHold(Options) /\ Options.model = command.o.model
<1>1. /\ command.o \in [model : Contents \ {"foreign"}, prompt : Seq(Words),
                        preset : {"base", "gundam"}, grid : Nat \X Nat, pages : Nat,
                        maxLength : Int, maxNew : Int \cup {None}]
      /\ command.o.grid \in Grids(command.o.model)
  BY CommandAssumption DEF IInv, ResourcesHold, Words
<1>2. Len(rendered) \in Nat
  BY DEF IInv, PagesHold
<1>3. PICK o : o = command.o
  OBVIOUS
<1>4. Options = o \/ Options = [o EXCEPT !.pages = Len(rendered)]
  BY <1>3 DEF Options
<1>5. /\ Options.model = o.model /\ Options.prompt = o.prompt /\ Options.preset = o.preset
      /\ Options.grid = o.grid /\ Options.pages \in Nat /\ Options.maxLength = o.maxLength
      /\ Options.maxNew = o.maxNew
  BY <1>1, <1>2, <1>3, <1>4
<1> QED BY <1>1, <1>3, <1>5 DEF OptionsHold

(* A request that is taken is one of the model asked for.                  *)
LEMMA FinalMade ==
  ASSUME IInv, Final.ok PROVE RequestMade(command.o.model, Final)
<1>1. command.form \in {"image", "pages", "text"} /\ command.maxGen \in Int \cup {None}
  BY CommandAssumption DEF IInv, ResourcesHold
<1>2. PICK o : o = Options /\ OptionsHold(o) /\ o.model = command.o.model
  BY OptionsAre
<1>3. Request.ok /\ (Final = Request \/ Final = Capped(Request, command.maxGen))
  BY DEF Final
<1>4. CASE command.form = "image"
  <2>1. Request = PrepareImage(o)
    BY <1>2, <1>4 DEF Request
  <2>2. IsWhole(Request, ImageRunsOf(o), Views(ImageGrid(o)), ImageGrid(o), o.preset)
    BY <1>2, <1>3, <2>1, ImageWhole
  <2>3. IsWhole(Final, ImageRunsOf(o), Views(ImageGrid(o)), ImageGrid(o), o.preset)
    BY <1>1, <1>3, <2>2, CappedWhole
  <2> QED BY <1>2, <1>3, <2>1, <2>3, ImageMade
<1>5. CASE command.form = "pages"
  <2>1. Request = PreparePages(o)
    BY <1>2, <1>5 DEF Request
  <2>2. IsWhole(Request, PagesRunsOf(o), AllOf(o.pages), <<1, 1>>, "multi-page-base")
    BY <1>2, <1>3, <2>1, PagesWhole
  <2>3. IsWhole(Final, PagesRunsOf(o), AllOf(o.pages), <<1, 1>>, "multi-page-base")
    BY <1>1, <1>3, <2>2, CappedWhole
  <2> QED BY <1>2, <1>3, <2>1, <2>3, PagesMade
<1>6. CASE command.form = "text"
  <2>1. Request = PrepareText(o)
    BY <1>2, <1>6 DEF Request
  <2>2. IsWhole(Request, TextRunsOf(o), <<>>, <<1, 1>>, "text-only")
    BY <1>2, <1>3, <2>1, TextWhole
  <2>3. IsWhole(Final, TextRunsOf(o), <<>>, <<1, 1>>, "text-only")
    BY <1>1, <1>3, <2>2, CappedWhole
  <2> QED BY <1>2, <1>3, <2>1, <2>3, TextMade
<1> QED BY <1>1, <1>4, <1>5, <1>6

(* The request is one of its model, and an engine of the call's own was    *)
(* opened for it.                                                          *)
RequestHolds == request.ok => RequestMade(command.o.model, request)
EngineHolds ==
  command.owned =>
    \/ engine = NoEngine /\ step # "warmup"
    \/ engine.is = "owned" /\ engine.limits = OwnedLimits(command.fileModel, request)

(* At the start nothing is prepared or opened.                             *)
LEMMA RequestBegins == Init => RequestHolds /\ EngineHolds
BY DEF Init, RequestHolds, EngineHolds, Refused

(* A request is set once, to one that the frontend took.                   *)
LEMMA RequestKept == ASSUME IInv, RequestHolds, [Next]_vars PROVE RequestHolds'
<1>1. CASE TakeRequest
  <2>1. request' = Final /\ Final.ok /\ command' = command
    BY <1>1 DEF TakeRequest
  <2>2. RequestMade(command.o.model, Final)
    BY <2>1, FinalMade
  <2>3. RequestMade(command.o.model, request')
    BY <2>1, <2>2
  <2> QED BY <2>1, <2>3 DEF RequestHolds
<1>2. ASSUME ~TakeRequest PROVE UNCHANGED <<request, command>>
  <2>1. CASE OpenDocument \/ SavePage \/ CloseDocument \/ Prepare
    BY <2>1 DEF OpenDocument, SavePage, CloseDocument, Prepare
  <2>2. CASE OpenEngine \/ Warmup \/ Generate \/ Decode \/ Decoded \/ CloseEngine \/ Leave
    BY <2>2 DEF OpenEngine, Warmup, Generate, Decode, Decoded, CloseEngine, Leave
  <2>3. CASE Fail \/ Unwind \/ Loading \/ Others \/ ParseOutput \/ UNCHANGED vars
    BY <2>3 DEF Fail, Unwind, Loading, Others, ParseOutput, vars, commandVars
  <2> QED BY <1>2, <2>1, <2>2, <2>3 DEF Next
<1>3. ASSUME ~TakeRequest PROVE RequestHolds'
  BY <1>2, <1>3 DEF RequestHolds
<1> QED BY <1>1, <1>3

(* An engine of the call is opened once, with the limits of the request.   *)
LEMMA EngineKept == ASSUME IInv, EngineHolds, [Next]_vars PROVE EngineHolds'
<1> USE DEF EngineHolds, At, Become
<1>1. CASE OpenDocument \/ SavePage \/ CloseDocument \/ Prepare
  BY <1>1 DEF OpenDocument, SavePage, CloseDocument, Prepare
<1>2. CASE TakeRequest
  <2>1. command.owned => engine = NoEngine
    BY <1>2 DEF TakeRequest, IInv, ResourcesHold
  <2>2. engine' = engine /\ command' = command /\ step' # "warmup"
    BY <1>2 DEF TakeRequest
  <2> QED BY <2>1, <2>2
<1>3. CASE OpenEngine
  BY <1>3 DEF OpenEngine
<1>4. CASE Warmup
  <2>1. /\ engine'.is = "owned" /\ engine'.limits = engine.limits
        /\ command' = command /\ request' = request /\ step = "warmup"
    BY <1>4 DEF Warmup
  <2> QED BY <2>1
<1>5. CASE Generate \/ Decode \/ Decoded
  BY <1>5 DEF Generate, Decode, Decoded
<1>6. CASE CloseEngine \/ Leave \/ Unwind
  BY <1>6 DEF CloseEngine, Leave, Unwind
<1>7. CASE Fail
  BY <1>7 DEF Fail
<1>8. CASE Loading \/ Others \/ ParseOutput \/ UNCHANGED vars
  BY <1>8 DEF Loading, Others, ParseOutput, vars, commandVars
<1> QED BY <1>1, <1>2, <1>3, <1>4, <1>5, <1>6, <1>7, <1>8 DEF Next

(* Limits as an engine has them.                                           *)
LimitsHold(limits) ==
  /\ limits.prompt \in Nat \ {0} /\ limits.gen \in Nat \ {0}
  /\ limits.positions \in Nat /\ limits.ring \in Nat /\ limits.separated \in BOOLEAN

(* On an engine of its model a request is refused for its size alone.      *)
LEMMA SizeDecides ==
  ASSUME NEW model, NEW r, RequestMade(model, r),
         NEW limits, LimitsHold(limits), limits.separated = (model = "v2")
  PROVE  NativeAccepts(r, limits) <=> Fits(r, limits)
<1>1. PICK tokens \in Nat \ {0}, new \in Nat : tokens = r.tokens /\ new = r.maxNew
  BY DEF RequestMade
<1>2. /\ limits.prompt \in Nat \ {0} /\ limits.gen \in Nat \ {0}
      /\ limits.positions \in Nat /\ limits.ring \in Nat
  BY DEF LimitsHold
<1>3. FitsPositions(r, limits) <=> tokens + new <= limits.positions
  BY <1>1, <1>2 DEF FitsPositions
<1>4. tokens <= limits.prompt => FitsCache(r, limits)
  BY <1>1, <1>2 DEF FitsCache, AtMost
<1>5. /\ ~limits.separated => Cardinality(ImageRuns(r)) <= 1
      /\ limits.separated => V2PagesAccepted(r)
  BY DEF RequestMade
<1>6. /\ r.runs[1].kind = "BOS" /\ Placeholders(r) = ExpectedVisual(r)
      /\ Placeholders(r) = 0 => r.views = <<>>
  BY DEF RequestMade
<1>7. Fits(r, limits) <=> tokens <= limits.prompt /\ new <= limits.gen
                          /\ tokens + new <= limits.positions
  BY <1>1 DEF Fits
<1>8. NativeAccepts(r, limits) <=>
        tokens <= limits.prompt /\ new <= limits.gen /\ FitsPositions(r, limits)
        /\ FitsCache(r, limits)
  BY <1>1, <1>2, <1>5, <1>6 DEF NativeAccepts
<1> QED BY <1>3, <1>4, <1>7, <1>8

(* An engine opened for a request is large enough for it.                  *)
LEMMA OwnedIs ==
  ASSUME NEW model, NEW r, r.tokens \in Nat \ {0}, r.maxNew \in Nat, NEW file
  PROVE  /\ LimitsHold(OwnedLimits(file, r)) /\ OwnedLimits(file, r).separated = (file = "v2")
         /\ Fits(r, OwnedLimits(file, r))
              <=> r.tokens + r.maxNew <= OwnedLimits(file, r).positions
BY DEF OwnedLimits, Limits, LimitsHold, Fits, Positions, RingWindow, DefaultGenTokens

(* The engine that serves a call has limits.                               *)
LEMMA UsedHolds ==
  ASSUME IInv, EngineHolds, RequestHolds, request.ok, engine.is # "none"
  PROVE  LimitsHold(engine.limits)
<1>1. request.tokens \in Nat \ {0} /\ request.maxNew \in Nat
  BY DEF RequestHolds, RequestMade
<1>2. CASE command.owned
  <2>1. engine.limits = OwnedLimits(command.fileModel, request)
    BY <1>2 DEF EngineHolds, NoEngine
  <2> QED BY <1>1, <2>1, OwnedIs
<1>3. CASE ~command.owned
  <2>1. engine.limits = command.limits
    BY <1>3 DEF IInv, ResourcesHold, GivenEngine
  <2>2. PICK file \in {"v1", "v2"} :
          /\ command.limits = Limits(file, command.limits.prompt, command.limits.gen)
          /\ command.limits.prompt \in Nat \ {0} /\ command.limits.gen \in Nat \ {0}
    BY <1>3, CommandAssumption DEF IInv, ResourcesHold
  <2>3. PICK a, b : a = command.limits.prompt /\ b = command.limits.gen
    OBVIOUS
  <2>4. LimitsHold(Limits(file, a, b))
    BY <2>2, <2>3 DEF Limits, LimitsHold, Positions, RingWindow
  <2> QED BY <2>1, <2>2, <2>3, <2>4
<1> QED BY <1>2, <1>3

(* prepare_*, _validate_public_view_contract, uocr_validate_prepared_      *)
(* request: for every prompt, crop grid, number of pages and budget, what  *)
(* the frontend prepares passes both gates but for its size, and a request *)
(* of v1 is none of v2.                                                    *)
THEOREM RequestsPassTheGates == Spec => []RequestsFit
<1>1. ASSUME IInv, RequestHolds, EngineHolds PROVE RequestsFit
  <2> SUFFICES ASSUME request.ok
               PROVE  LET own == OwnedLimits(command.o.model, request)
                          used == IF engine.is = "none" THEN own ELSE engine.limits
                      IN  /\ FfiAccepts(request)
                          /\ NativeAccepts(request, own)
                               <=> request.tokens + request.maxNew <= own.positions
                          /\ used.separated = (command.o.model = "v2")
                               => (NativeAccepts(request, used) <=> Fits(request, used))
                          /\ NativeAccepts(request, OwnedLimits("v2", request))
                               => command.o.model = "v2"
    BY DEF RequestsFit
  <2> DEFINE model == command.o.model
             own == OwnedLimits(model, request)
             used == IF engine.is = "none" THEN own ELSE engine.limits
  <2>1. RequestMade(model, request)
    BY <1>1 DEF RequestHolds
  <2>2. request.tokens \in Nat \ {0} /\ request.maxNew \in Nat /\ FfiAccepts(request)
    BY <2>1 DEF RequestMade
  <2>3. /\ LimitsHold(own) /\ own.separated = (model = "v2")
        /\ Fits(request, own) <=> request.tokens + request.maxNew <= own.positions
    BY <2>2, OwnedIs
  <2>4. LimitsHold(used)
    BY <1>1, <2>3, UsedHolds
  <2> HIDE DEF own, used, model
  <2>5. NativeAccepts(request, own) <=> Fits(request, own)
    BY <2>1, <2>3, SizeDecides
  <2>6. used.separated = (model = "v2") => (NativeAccepts(request, used) <=> Fits(request, used))
    BY <2>1, <2>4, SizeDecides
  <2>7. NativeAccepts(request, OwnedLimits("v2", request)) => model = "v2"
    <3>1. OwnedLimits("v2", request).separated
      BY <2>2, OwnedIs
    <3>2. model # "v2" => ~V2PagesAccepted(request)
      BY <2>1 DEF RequestMade
    <3> QED BY <3>1, <3>2 DEF NativeAccepts
  <2> QED BY <2>2, <2>3, <2>5, <2>6, <2>7 DEF own, used, model
<1>2. IInv /\ RequestHolds /\ EngineHolds /\ [Next]_vars => (RequestHolds /\ EngineHolds)'
  BY RequestKept, EngineKept
<1>3. Init => RequestHolds /\ EngineHolds
  BY RequestBegins
<1> QED BY CommandInvariant, <1>1, <1>2, <1>3, PTL DEF Spec

-----------------------------------------------------------------------------
(* The parser of the output: where its scans end.                          *)

(* The least of some numbers is one of them.                               *)
LEMMA LeastIs ==
  ASSUME NEW S \in SUBSET Nat, S # {}
  PROVE  Least(S) \in S /\ \A m \in S : Least(S) <= m
BY LeastNat DEF Least

(* Where each scan ends.                                                   *)
LEMMA SkipSpaceIs ==
  ASSUME NEW t \in Seq(Symbols), NEW s \in Nat \ {0}
  PROVE  /\ SkipSpace(t, s) \in 1..End(t) /\ (s <= End(t) => s <= SkipSpace(t, s))
         /\ \A i \in s..SkipSpace(t, s) - 1 : t[i] = "sp"
         /\ SkipSpace(t, s) < End(t) => t[SkipSpace(t, s)] # "sp"
<1> DEFINE S == {i \in s..Len(t) : t[i] # "sp"} \cup {End(t)}
<1>1. Len(t) \in Nat /\ End(t) = Len(t) + 1
  BY DEF End
<1>2. S \in SUBSET Nat /\ S # {}
  BY <1>1
<1>3. SkipSpace(t, s) = Least(S)
  BY DEF SkipSpace
<1>4. SkipSpace(t, s) \in S /\ \A m \in S : SkipSpace(t, s) <= m
  <2> HIDE DEF S
  <2> QED BY <1>2, <1>3, LeastIs
<1> QED BY <1>1, <1>4

(* ContentEnd: the next control, or the end.                               *)
LEMMA ContentEndIs ==
  ASSUME NEW t \in Seq(Symbols), NEW s \in Nat \ {0}
  PROVE  /\ ContentEnd(t, s) \in 1..End(t) /\ (s <= End(t) => s <= ContentEnd(t, s))
         /\ \A i \in s..ContentEnd(t, s) - 1 : t[i] \notin Controls
         /\ ContentEnd(t, s) < End(t) => t[ContentEnd(t, s)] \in Controls
<1> DEFINE S == {i \in s..Len(t) : t[i] \in Controls} \cup {End(t)}
<1>1. Len(t) \in Nat /\ End(t) = Len(t) + 1
  BY DEF End
<1>2. S \in SUBSET Nat /\ S # {}
  BY <1>1
<1>3. ContentEnd(t, s) = Least(S)
  BY DEF ContentEnd
<1>4. ContentEnd(t, s) \in S /\ \A m \in S : ContentEnd(t, s) <= m
  <2> HIDE DEF S
  <2> QED BY <1>2, <1>3, LeastIs
<1> QED BY <1>1, <1>4

(* Closing: the next marker, or the end.                                   *)
LEMMA ClosingIs ==
  ASSUME NEW t \in Seq(Symbols), NEW s \in Nat \ {0}, NEW marker
  PROVE  /\ Closing(t, s, marker) \in 1..End(t) /\ (s <= End(t) => s <= Closing(t, s, marker))
         /\ \A i \in s..Closing(t, s, marker) - 1 : t[i] # marker
         /\ Closing(t, s, marker) < End(t) => t[Closing(t, s, marker)] = marker
<1> DEFINE S == {i \in s..Len(t) : t[i] = marker} \cup {End(t)}
<1>1. Len(t) \in Nat /\ End(t) = Len(t) + 1
  BY DEF End
<1>2. S \in SUBSET Nat /\ S # {}
  BY <1>1
<1>3. Closing(t, s, marker) = Least(S)
  BY DEF Closing
<1>4. Closing(t, s, marker) \in S /\ \A m \in S : Closing(t, s, marker) <= m
  <2> HIDE DEF S
  <2> QED BY <1>2, <1>3, LeastIs
<1> QED BY <1>1, <1>4

(* A scan ends where nothing before stops it and something does there.     *)
LEMMA ClosingAt ==
  ASSUME NEW t \in Seq(Symbols), NEW s \in Nat \ {0}, NEW marker, NEW p \in s..End(t),
         \A i \in s..p - 1 : t[i] # marker, p < End(t) => t[p] = marker
  PROVE  Closing(t, s, marker) = p
<1>1. End(t) \in Nat
  BY DEF End
<1>2. PICK c \in 1..End(t) :
        /\ c = Closing(t, s, marker) /\ (s <= End(t) => s <= c)
        /\ \A i \in s..c - 1 : t[i] # marker
        /\ c < End(t) => t[c] = marker
  BY ClosingIs
<1> QED BY <1>1, <1>2

(* The same for the next control.                                          *)
LEMMA NextControlAt ==
  ASSUME NEW t \in Seq(Symbols), NEW i \in Nat, NEW p \in i + 1..End(t),
         \A j \in i + 1..p - 1 : t[j] \notin Controls, p < End(t) => t[p] \in Controls
  PROVE  NextControl(t, i) = p
<1>1. End(t) \in Nat /\ i + 1 \in Nat \ {0}
  BY DEF End
<1>2. PICK c \in 1..End(t) :
        /\ c = ContentEnd(t, i + 1) /\ (i + 1 <= End(t) => i + 1 <= c)
        /\ \A j \in i + 1..c - 1 : t[j] \notin Controls
        /\ c < End(t) => t[c] \in Controls
  BY <1>1, ContentEndIs
<1> QED BY <1>1, <1>2 DEF NextControl

-----------------------------------------------------------------------------
(* Places in their order.                                                  *)

(* A place behind the others comes last.                                   *)
LEMMA InOrderAppend ==
  ASSUME NEW n \in Nat, NEW S \in SUBSET (1..n), NEW m \in Nat, n < m
  PROVE  /\ Cardinality(S) \in Nat
         /\ InOrder(S \cup {m}) = [k \in 1..Cardinality(S) + 1 |->
                                     IF k <= Cardinality(S) THEN InOrder(S)[k] ELSE m]
         /\ DOMAIN InOrder(S) = 1..Cardinality(S)
<1> DEFINE N == Cardinality(S)
           T == S \cup {m}
           Upto(U, i) == {j \in U : j <= i}
<1>1. IsFiniteSet(S) /\ N \in Nat
  BY NumbersFinite
<1>2. m \notin S
  OBVIOUS
<1>3. IsFiniteSet(T) /\ Cardinality(T) = N + 1
  BY <1>1, <1>2, FS_AddElement
<1>4. ASSUME NEW i \in S
      PROVE  Upto(T, i) = Upto(S, i) /\ Cardinality(Upto(S, i)) \in Nat /\ Cardinality(Upto(S, i)) <= N
  <2>1. Upto(T, i) = Upto(S, i)
    OBVIOUS
  <2>2. Upto(S, i) \in SUBSET S
    OBVIOUS
  <2> HIDE DEF Upto
  <2>3. IsFiniteSet(Upto(S, i)) /\ Cardinality(Upto(S, i)) <= N
    BY <1>1, <2>2, FS_Subset
  <2>4. Cardinality(Upto(S, i)) \in Nat
    BY <2>3, FS_CardinalityType
  <2> QED BY <2>1, <2>3, <2>4
<1>5. Upto(T, m) = T
  <2>1. \A j \in T : j <= m
    OBVIOUS
  <2> HIDE DEF T
  <2> QED BY <2>1
<1>6. ASSUME NEW k \in 1..N
      PROVE  (CHOOSE i \in T : Cardinality(Upto(T, i)) = k) = (CHOOSE i \in S : Cardinality(Upto(S, i)) = k)
  <2>1. \A i : (i \in T /\ Cardinality(Upto(T, i)) = k) <=> (i \in S /\ Cardinality(Upto(S, i)) = k)
    <3>1. TAKE i
    <3> HIDE DEF Upto
    <3>2. CASE i \in S
      BY <1>4, <3>2
    <3>3. CASE i = m
      BY <1>1, <1>2, <1>3, <1>5, <3>3
    <3>4. CASE i \notin T
      BY <3>4
    <3> QED BY <3>2, <3>3, <3>4
  <2> HIDE DEF Upto, T
  <2> QED BY <2>1
<1>7. (CHOOSE i \in T : Cardinality(Upto(T, i)) = N + 1) = m
  <2>1. \A i \in T : Cardinality(Upto(T, i)) = N + 1 <=> i = m
    <3>1. TAKE i \in T
    <3> HIDE DEF Upto
    <3>2. CASE i \in S
      BY <1>1, <1>2, <1>4, <3>2
    <3>3. CASE i = m
      BY <1>3, <1>5, <3>3
    <3> QED BY <3>2, <3>3
  <2>2. m \in T
    OBVIOUS
  <2> HIDE DEF Upto, T
  <2> QED BY <2>1, <2>2
<1>8. InOrder(T) = [k \in 1..N + 1 |-> CHOOSE i \in T : Cardinality(Upto(T, i)) = k]
  BY <1>3 DEF InOrder
<1>9. InOrder(S) = [k \in 1..N |-> CHOOSE i \in S : Cardinality(Upto(S, i)) = k]
  BY DEF InOrder
<1> HIDE DEF Upto, T, N
<1>10. ASSUME NEW k \in 1..N + 1
       PROVE  (CHOOSE i \in T : Cardinality(Upto(T, i)) = k) = IF k <= N THEN InOrder(S)[k] ELSE m
  <2>1. CASE k <= N
    <3>1. k \in 1..N
      BY <1>1, <2>1
    <3> QED BY <1>6, <1>9, <2>1, <3>1
  <2>2. CASE ~(k <= N)
    <3>1. k = N + 1
      BY <1>1, <2>2
    <3> QED BY <1>7, <2>2, <3>1
  <2> QED BY <2>1, <2>2
<1>11. InOrder(T) = [k \in 1..N + 1 |-> IF k <= N THEN InOrder(S)[k] ELSE m]
  BY <1>8, <1>10
<1> QED BY <1>1, <1>9, <1>11 DEF N, T

(* Appending to a sequence given by its places.                            *)
LEMMA AppendIs ==
  ASSUME NEW n \in Nat, NEW f, f = [k \in 1..n |-> f[k]], NEW x
  PROVE  /\ Append(f, x) = [k \in 1..n + 1 |-> IF k <= n THEN f[k] ELSE x]
         /\ Len(f) = n
<1>1. PICK S : S = {f[k] : k \in 1..n} \cup {x}
  OBVIOUS
<1>2. \A k \in 1..n : f[k] \in S
  BY <1>1
<1>3. f \in [1..n -> S]
  BY <1>2
<1>4. f \in Seq(S) /\ Len(f) = n
  BY <1>3
<1>5. x \in S
  BY <1>1
<1> QED BY <1>4, <1>5

(* One more mark behind the others is one more block.                      *)
LEMMA BlocksAppend ==
  ASSUME NEW t, NEW marker, NEW n \in Nat, NEW S \in SUBSET (1..n), NEW m \in Nat, n < m
  PROVE  BlocksAt(t, S \cup {m}, marker) = Append(BlocksAt(t, S, marker), BlockAt(t, m, marker))
<1>1. PICK N \in Nat : N = Cardinality(S)
  BY InOrderAppend
<1>2. PICK s, u : s = InOrder(S) /\ u = InOrder(S \cup {m})
  OBVIOUS
<1>3. u = [k \in 1..N + 1 |-> IF k <= N THEN s[k] ELSE m] /\ DOMAIN s = 1..N
  BY <1>1, <1>2, InOrderAppend
<1>4. PICK f : f = [k \in 1..N |-> BlockAt(t, s[k], marker)]
  OBVIOUS
<1>5. BlocksAt(t, S, marker) = f
  BY <1>2, <1>3, <1>4 DEF BlocksAt
<1>6. Append(f, BlockAt(t, m, marker)) = [k \in 1..N + 1 |-> IF k <= N THEN f[k] ELSE BlockAt(t, m, marker)]
  BY <1>4, AppendIs
<1>7. BlocksAt(t, S \cup {m}, marker) = [k \in 1..N + 1 |-> BlockAt(t, u[k], marker)]
  BY <1>2, <1>3 DEF BlocksAt
<1>8. \A k \in 1..N + 1 : BlockAt(t, u[k], marker) = IF k <= N THEN f[k] ELSE BlockAt(t, m, marker)
  BY <1>3, <1>4
<1> QED BY <1>5, <1>6, <1>7, <1>8

(* One more page mark behind the others is one more page.                  *)
LEMMA PagesAppend ==
  ASSUME NEW t, NEW n \in Nat, NEW S \in SUBSET (1..n), NEW m \in Nat, n < m
  PROVE  PagesAt(t, S \cup {m}) = Append(PagesAt(t, S), V2Blocks(t, m))
<1>1. PICK N \in Nat : N = Cardinality(S)
  BY InOrderAppend
<1>2. PICK s, u : s = InOrder(S) /\ u = InOrder(S \cup {m})
  OBVIOUS
<1>3. u = [k \in 1..N + 1 |-> IF k <= N THEN s[k] ELSE m] /\ DOMAIN s = 1..N
  BY <1>1, <1>2, InOrderAppend
<1>4. PICK f : f = [k \in 1..N |-> V2Blocks(t, s[k])]
  OBVIOUS
<1>5. PagesAt(t, S) = f
  BY <1>2, <1>3, <1>4 DEF PagesAt
<1>6. Append(f, V2Blocks(t, m)) = [k \in 1..N + 1 |-> IF k <= N THEN f[k] ELSE V2Blocks(t, m)]
  BY <1>4, AppendIs
<1>7. PagesAt(t, S \cup {m}) = [k \in 1..N + 1 |-> V2Blocks(t, u[k])]
  BY <1>2, <1>3 DEF PagesAt
<1>8. \A k \in 1..N + 1 : V2Blocks(t, u[k]) = IF k <= N THEN f[k] ELSE V2Blocks(t, m)
  BY <1>3, <1>4
<1> QED BY <1>5, <1>6, <1>7, <1>8

(* No places, no blocks.                                                   *)
LEMMA NoBlocks ==
  ASSUME NEW t, NEW marker
  PROVE  BlocksAt(t, {}, marker) = <<>> /\ PagesAt(t, {}) = <<>>
<1>1. Cardinality({}) = 0
  BY FS_EmptySet
<1>2. DOMAIN InOrder({}) = {}
  BY <1>1 DEF InOrder
<1> QED BY <1>2 DEF BlocksAt, PagesAt

-----------------------------------------------------------------------------
(* What has been read, in the order of the text.                           *)

(* A place after everything that was read: behind a mark and white space,  *)
(* or at the control after a block.                                        *)
Behind(t, p, symbol) == \E j \in 1..p - 1 : t[j] = symbol /\ SkipSpace(t, j + 1) = p
AtNext(t, p, symbol) == \E j \in 1..p - 1 : t[j] = symbol /\ NextControl(t, j) = p

(* What v2 has read up to p is in the format, but for the white space      *)
(* behind the last mark.                                                   *)
GoodV2(t, p, m) ==
  /\ \A i \in Marks(t, "PAGE") : i < p => OnlySpaceAfter(t, i) \/ SkipSpace(t, i + 1) = p
  /\ \A i \in Marks(t, "MERGE") : i < p =>
       /\ Follows(t, i, "FORK")
       /\ \/ m /\ SkipSpace(t, i + 1) = p
          \/ OnlySpaceAfter(t, i) /\ NextControl(t, i) \in Marks(t, "BLOCK")
  /\ \A i \in Marks(t, "BLOCK") : i < p =>
       LET close == Closing(t, i + 1, "FORK")
       IN  close < p /\ HeaderHolds(t, Written(t, i + 1, close), FALSE)
  /\ \A i \in Marks(t, "FORK") \cup Marks(t, "level") : i < p => Inside(t, i, "BLOCK", "FORK")
  /\ \A i \in 1..p - 1 : t[i] \notin {"level0", "CHILD", "det", "/det", "ref", "/ref"}

(* Where v2 stands.                                                        *)
ArrivedV2(t, p, nothing, m) ==
  \/ ~m /\ ~nothing /\ AtNext(t, p, "FORK")
  \/ m /\ ~nothing /\ Behind(t, p, "MERGE")
  \/ ~m /\ nothing /\ Behind(t, p, "PAGE")

(* What v2 has given: the pages before the last mark, and its blocks.      *)
GivenV2(t, p, pgs, bls) ==
  \E q \in Marks(t, "PAGE") :
    /\ q < p /\ \A i \in Marks(t, "PAGE") : i < p => i <= q
    /\ pgs = PagesAt(t, {i \in Marks(t, "PAGE") : i < q})
    /\ bls = BlocksAt(t, {i \in Marks(t, "BLOCK") : q < i /\ i < p}, "FORK")

ReadV2(t, p, pgs, bls, m) ==
  /\ p \in 1..End(t) /\ First(t) = "PAGE" /\ m \in BOOLEAN
  /\ GoodV2(t, p, m) /\ ArrivedV2(t, p, bls = <<>>, m) /\ GivenV2(t, p, pgs, bls)

GoodV1(t, p) ==
  /\ \A i \in Marks(t, "det") : i < p =>
       LET close == Closing(t, i + 1, "/det")
           header == Written(t, i + 1, close)
       IN  /\ close < p
           /\ IF AfterLabel(t, i) THEN Metadata(t, header, TRUE) ELSE HeaderHolds(t, header, TRUE)
  /\ \A i \in Marks(t, "ref") : i < p =>
       LET close == Closing(t, i + 1, "/ref")
       IN  /\ close < p /\ IsLabel(t, Written(t, i + 1, close))
           /\ SkipSpace(t, close + 1) \in Marks(t, "det")
  /\ \A i \in Marks(t, "/det") \cup Marks(t, "level") : i < p => Inside(t, i, "det", "/det")
  /\ \A i \in Marks(t, "/ref") : i < p => Inside(t, i, "ref", "/ref") /\ SkipSpace(t, i + 1) <= p
  /\ \A i \in 1..p - 1 : t[i] \notin {"level0", "CHILD", "PAGE", "MERGE", "BLOCK", "FORK"}

ReadV1(t, p, bls) ==
  /\ p \in 1..End(t) /\ First(t) \in {"det", "ref"}
  /\ p < End(t) => t[p] \in Controls
  /\ GoodV1(t, p) /\ ~AfterLabel(t, p)
  /\ bls = BlocksAt(t, {i \in Marks(t, "det") : i < p}, "/det")

ParseInv ==
  /\ verdict \in {"none", "start", "v1", "v2", "document", "error"}
  /\ verdict # "none" => text \in Texts
  /\ verdict \in {"none", "start"} => pages = <<>> /\ blocks = <<>> /\ merging = FALSE
  /\ verdict = "v1" => ReadV1(text, at, blocks) /\ merging = FALSE
  /\ verdict = "v2" => ReadV2(text, at, pages, blocks, merging)
  /\ ParseMatchesFormat

-----------------------------------------------------------------------------
(* Marks and what follows them.                                            *)

(* White space up to a control is all there is up to the next control.     *)
LEMMA SpaceThenControl ==
  ASSUME NEW t \in Seq(Symbols), NEW i \in Nat, NEW p \in 1..End(t), i < p,
         SkipSpace(t, i + 1) = p, p < End(t) => t[p] \in Controls
  PROVE  NextControl(t, i) = p /\ OnlySpaceAfter(t, i)
<1>1. End(t) \in Nat /\ i + 1 \in Nat \ {0}
  BY DEF End
<1>2. \A j \in i + 1..p - 1 : t[j] = "sp"
  BY <1>1, SkipSpaceIs
<1>3. \A j \in i + 1..p - 1 : t[j] \notin Controls
  BY <1>2 DEF Controls
<1>4. p \in i + 1..End(t)
  BY <1>1
<1>5. NextControl(t, i) = p
  BY <1>3, <1>4, NextControlAt
<1> QED BY <1>5 DEF OnlySpaceAfter

(* The next control is one, and there is none before it.                   *)
LEMMA NextControlIs ==
  ASSUME NEW t \in Seq(Symbols), NEW i \in Nat, i < End(t)
  PROVE  /\ NextControl(t, i) \in i + 1..End(t)
         /\ \A j \in i + 1..NextControl(t, i) - 1 : t[j] \notin Controls
         /\ NextControl(t, i) < End(t) => t[NextControl(t, i)] \in Controls
<1>1. End(t) \in Nat /\ i + 1 \in Nat \ {0} /\ i + 1 <= End(t)
  BY DEF End
<1>2. PICK c \in 1..End(t) :
        /\ c = ContentEnd(t, i + 1) /\ (i + 1 <= End(t) => i + 1 <= c)
        /\ \A j \in i + 1..c - 1 : t[j] \notin Controls
        /\ c < End(t) => t[c] \in Controls
  BY <1>1, ContentEndIs
<1> QED BY <1>1, <1>2 DEF NextControl

(* One control comes right before a place.                                 *)
LEMMA SameMark ==
  ASSUME NEW t \in Seq(Symbols), NEW p \in 1..End(t), NEW i \in 1..p - 1, NEW j \in 1..p - 1,
         t[i] \in Controls, t[j] \in Controls, NextControl(t, i) = p, NextControl(t, j) = p
  PROVE  i = j
<1>1. End(t) \in Nat /\ i \in Nat /\ j \in Nat /\ i < End(t) /\ j < End(t)
  BY DEF End
<1>2. /\ \A k \in i + 1..p - 1 : t[k] \notin Controls
      /\ \A k \in j + 1..p - 1 : t[k] \notin Controls
  BY <1>1, NextControlIs
<1> QED BY <1>1, <1>2

(* A header that holds has neither marks nor other text in it.             *)
LEMMA HeaderIs ==
  ASSUME NEW t \in Seq(Symbols), NEW s \in Nat \ {0}, NEW e \in Nat, NEW b,
         \/ HeaderHolds(t, Written(t, s, e), b)
         \/ Metadata(t, Written(t, s, e), b)
         \/ IsLabel(t, Written(t, s, e))
  PROVE  \A i \in s..e - 1 : t[i] \in {"sp", "label", "box", "level"}
<1>1. \A i \in s..e - 1 : t[i] = "sp" \/ i \in Written(t, s, e)
  BY DEF Written
<1>2. \A i \in Written(t, s, e) : t[i] \in {"label", "box", "level"}
  <2>1. CASE HeaderHolds(t, Written(t, s, e), b)
    BY <2>1 DEF HeaderHolds, Metadata
  <2>2. CASE Metadata(t, Written(t, s, e), b)
    BY <2>2 DEF Metadata
  <2>3. CASE IsLabel(t, Written(t, s, e))
    BY <2>3 DEF IsLabel
  <2> QED BY <2>1, <2>2, <2>3
<1> QED BY <1>1, <1>2

(* A mark and the white space behind it.                                   *)
LEMMA MarkIs ==
  ASSUME NEW t \in Seq(Symbols), NEW i \in 1..Len(t)
  PROVE  /\ SkipSpace(t, i + 1) \in i + 1..End(t)
         /\ \A j \in i + 1..SkipSpace(t, i + 1) - 1 : t[j] = "sp"
<1>1. Len(t) \in Nat /\ End(t) = Len(t) + 1 /\ i + 1 \in Nat \ {0} /\ i + 1 <= End(t)
  BY DEF End
<1> QED BY <1>1, SkipSpaceIs

(* The first symbol and the white space before it.                         *)
LEMMA FirstIs ==
  ASSUME NEW t \in Seq(Symbols), NEW x \in Controls, First(t) = x
  PROVE  /\ SkipSpace(t, 1) \in 1..Len(t) /\ t[SkipSpace(t, 1)] = x
         /\ \A i \in 1..SkipSpace(t, 1) - 1 : t[i] = "sp"
<1>1. Len(t) \in Nat /\ End(t) = Len(t) + 1
  BY DEF End
<1>2. x # "none"
  BY DEF Controls
<1>3. SkipSpace(t, 1) < End(t) /\ t[SkipSpace(t, 1)] = x
  BY <1>2 DEF First
<1>4. SkipSpace(t, 1) \in 1..End(t) /\ \A i \in 1..SkipSpace(t, 1) - 1 : t[i] = "sp"
  BY SkipSpaceIs
<1> QED BY <1>1, <1>3, <1>4

-----------------------------------------------------------------------------
(* Reading v2.                                                             *)

(* The first mark begins the first page.                                   *)
LEMMA V2Begins ==
  ASSUME NEW t \in Seq(Symbols), First(t) = "PAGE"
  PROVE  ReadV2(t, SkipSpace(t, SkipSpace(t, 1) + 1), <<>>, <<>>, FALSE)
<1>1. PICK f : f = SkipSpace(t, 1)
  OBVIOUS
<1>2. f \in 1..Len(t) /\ t[f] = "PAGE" /\ \A i \in 1..f - 1 : t[i] = "sp"
  BY <1>1, FirstIs DEF Controls
<1>3. PICK p : p = SkipSpace(t, f + 1)
  OBVIOUS
<1>4. p \in f + 1..End(t) /\ \A i \in f + 1..p - 1 : t[i] = "sp"
  BY <1>2, <1>3, MarkIs
<1>5. Len(t) \in Nat /\ End(t) = Len(t) + 1
  BY DEF End
<1>6. \A i \in 1..p - 1 : i = f \/ t[i] = "sp"
  BY <1>2, <1>4, <1>5
<1>7. p \in 1..End(t) /\ f \in 1..p - 1
  BY <1>2, <1>4, <1>5
<1>8. GoodV2(t, p, FALSE)
  <2>1. \A i \in Marks(t, "PAGE") : i < p => OnlySpaceAfter(t, i) \/ SkipSpace(t, i + 1) = p
    BY <1>3, <1>5, <1>6, <1>7 DEF Marks
  <2>2. \A x \in {"MERGE", "BLOCK", "FORK", "level"} : \A i \in Marks(t, x) : ~(i < p)
    BY <1>2, <1>5, <1>6, <1>7 DEF Marks
  <2>3. \A i \in 1..p - 1 : t[i] \notin {"level0", "CHILD", "det", "/det", "ref", "/ref"}
    BY <1>2, <1>6
  <2> QED BY <2>1, <2>2, <2>3 DEF GoodV2
<1>9. ArrivedV2(t, p, TRUE, FALSE)
  BY <1>2, <1>3, <1>7 DEF ArrivedV2, Behind
<1>10. GivenV2(t, p, <<>>, <<>>)
  <2>1. f \in Marks(t, "PAGE") /\ f < p /\ \A i \in Marks(t, "PAGE") : i < p => i <= f
    BY <1>2, <1>5, <1>6, <1>7 DEF Marks
  <2>2. {i \in Marks(t, "PAGE") : i < f} = {}
    BY <1>2, <1>5 DEF Marks
  <2>3. {i \in Marks(t, "BLOCK") : f < i /\ i < p} = {}
    BY <1>2, <1>5, <1>6, <1>7 DEF Marks
  <2> QED BY <2>1, <2>2, <2>3, NoBlocks DEF GivenV2
<1> QED BY <1>1, <1>3, <1>7, <1>8, <1>9, <1>10 DEF ReadV2

(* What was read before a control or the end is settled.                   *)
LEMMA V2Settled ==
  ASSUME NEW t \in Seq(Symbols), NEW p \in 1..End(t), NEW m, GoodV2(t, p, m),
         p < End(t) => t[p] \in Controls, m => p \in Marks(t, "BLOCK")
  PROVE  /\ \A i \in Marks(t, "PAGE") : i < p => OnlySpaceAfter(t, i)
         /\ \A i \in Marks(t, "MERGE") : i < p =>
              /\ OnlySpaceAfter(t, i) /\ NextControl(t, i) \in Marks(t, "BLOCK")
              /\ Follows(t, i, "FORK")
<1>1. Len(t) \in Nat /\ End(t) = Len(t) + 1
  BY DEF End
<1>2. ASSUME NEW i \in 1..Len(t), i < p, SkipSpace(t, i + 1) = p
      PROVE  NextControl(t, i) = p /\ OnlySpaceAfter(t, i)
  <2>1. p \in 1..End(t) /\ i \in Nat
    BY <1>1
  <2> QED BY <1>2, <2>1, SpaceThenControl
<1>3. ASSUME NEW i \in Marks(t, "PAGE"), i < p PROVE OnlySpaceAfter(t, i)
  <2>1. i \in 1..Len(t) /\ (OnlySpaceAfter(t, i) \/ SkipSpace(t, i + 1) = p)
    BY <1>3 DEF GoodV2, Marks
  <2> QED BY <1>2, <1>3, <2>1
<1>4. ASSUME NEW i \in Marks(t, "MERGE"), i < p
      PROVE  /\ OnlySpaceAfter(t, i) /\ NextControl(t, i) \in Marks(t, "BLOCK")
             /\ Follows(t, i, "FORK")
  <2>1. /\ i \in 1..Len(t) /\ Follows(t, i, "FORK")
        /\ \/ m /\ SkipSpace(t, i + 1) = p
           \/ OnlySpaceAfter(t, i) /\ NextControl(t, i) \in Marks(t, "BLOCK")
    BY <1>4 DEF GoodV2, Marks
  <2>2. CASE m /\ SkipSpace(t, i + 1) = p
    <3>1. NextControl(t, i) = p /\ OnlySpaceAfter(t, i)
      BY <1>2, <1>4, <2>1, <2>2
    <3>2. p \in Marks(t, "BLOCK")
      BY <2>2
    <3> QED BY <2>1, <3>1, <3>2
  <2> QED BY <2>1, <2>2
<1> QED BY <1>3, <1>4

(* The mark before a control.                                              *)
LEMMA V2Before ==
  ASSUME NEW t \in Seq(Symbols), NEW p \in 1..Len(t), t[p] \in Controls,
         NEW m \in BOOLEAN, NEW nothing \in BOOLEAN, ArrivedV2(t, p, nothing, m)
  PROVE  /\ Follows(t, p, "FORK") <=> ~m /\ ~nothing
         /\ Follows(t, p, "MERGE") <=> m
<1>1. Len(t) \in Nat /\ End(t) = Len(t) + 1 /\ p \in 1..End(t)
  BY DEF End
<1>2. PICK x \in {"FORK", "MERGE", "PAGE"} :
        /\ AtNext(t, p, x) \/ Behind(t, p, x)
        /\ x = "FORK" <=> ~m /\ ~nothing
        /\ x = "MERGE" <=> m
  <2>1. CASE ~m /\ ~nothing /\ AtNext(t, p, "FORK")
    BY <2>1
  <2>2. CASE m /\ ~nothing /\ Behind(t, p, "MERGE")
    BY <2>2
  <2>3. CASE ~m /\ nothing /\ Behind(t, p, "PAGE")
    BY <2>3
  <2> QED BY <2>1, <2>2, <2>3 DEF ArrivedV2
<1>3. PICK j \in 1..p - 1 : t[j] = x /\ NextControl(t, j) = p
  <2>1. CASE AtNext(t, p, x)
    BY <2>1 DEF AtNext
  <2>2. CASE Behind(t, p, x)
    <3>1. PICK j \in 1..p - 1 : t[j] = x /\ SkipSpace(t, j + 1) = p
      BY <2>2 DEF Behind
    <3>2. j \in Nat /\ j < p
      BY <1>1
    <3>3. NextControl(t, j) = p
      BY <1>1, <3>1, <3>2, SpaceThenControl
    <3> QED BY <3>1, <3>3
  <2> QED BY <1>2, <2>1, <2>2
<1>4. ASSUME NEW y \in {"FORK", "MERGE"}
      PROVE  Follows(t, p, y) <=> x = y
  <2>1. ASSUME Follows(t, p, y) PROVE x = y
    <3>1. PICK i \in 1..p - 1 : t[i] = y /\ NextControl(t, i) = p
      BY <2>1 DEF Follows
    <3>2. t[i] \in Controls /\ t[j] \in Controls
      BY <1>3, <3>1 DEF Controls
    <3>3. i = j
      BY <1>1, <1>3, <3>1, <3>2, SameMark
    <3> QED BY <1>3, <3>1, <3>3
  <2>2. ASSUME x = y PROVE Follows(t, p, y)
    BY <1>3, <2>2 DEF Follows
  <2> QED BY <2>1, <2>2
<1> QED BY <1>2, <1>4

(* The pages that a mark or the end completes.                             *)
LEMMA V2Completes ==
  ASSUME NEW t \in Seq(Symbols), NEW p \in 1..End(t), NEW pgs, NEW bls, GivenV2(t, p, pgs, bls),
         p < End(t) => t[p] = "PAGE"
  PROVE  Append(pgs, bls) = PagesAt(t, {i \in Marks(t, "PAGE") : i < p})
<1>1. Len(t) \in Nat /\ End(t) = Len(t) + 1
  BY DEF End
<1>2. PICK q \in Marks(t, "PAGE") :
        /\ q < p /\ \A i \in Marks(t, "PAGE") : i < p => i <= q
        /\ pgs = PagesAt(t, {i \in Marks(t, "PAGE") : i < q})
        /\ bls = BlocksAt(t, {i \in Marks(t, "BLOCK") : q < i /\ i < p}, "FORK")
  BY DEF GivenV2
<1>3. q \in 1..Len(t)
  BY DEF Marks
<1>4. q + 1 \in Nat \ {0} /\ p \in q + 1..End(t)
  BY <1>1, <1>2, <1>3
<1>5. \A i \in q + 1..p - 1 : t[i] # "PAGE"
  BY <1>1, <1>2, <1>3 DEF Marks
<1>6. Closing(t, q + 1, "PAGE") = p
  BY <1>4, <1>5, ClosingAt
<1>7. V2Blocks(t, q) = bls
  BY <1>2, <1>6 DEF V2Blocks
<1>8. PICK S : S = {i \in Marks(t, "PAGE") : i < q}
  OBVIOUS
<1>9. S \in SUBSET (1..q - 1) /\ q - 1 \in Nat /\ q - 1 < q /\ q \in Nat
  BY <1>1, <1>3, <1>8 DEF Marks
<1>10. {i \in Marks(t, "PAGE") : i < p} = S \cup {q}
  <2>1. \A i \in Marks(t, "PAGE") : i < p <=> i < q \/ i = q
    BY <1>1, <1>2, <1>3 DEF Marks
  <2> QED BY <1>8, <2>1
<1>11. PagesAt(t, S \cup {q}) = Append(PagesAt(t, S), V2Blocks(t, q))
  BY <1>9, PagesAppend
<1> QED BY <1>2, <1>7, <1>8, <1>10, <1>11

(* A mark and the white space behind it are read.                          *)
LEMMA V2MarkReads ==
  ASSUME NEW t \in Seq(Symbols), NEW p \in 1..Len(t), GoodV2(t, p, FALSE),
         \/ t[p] = "PAGE"
         \/ t[p] = "MERGE" /\ Follows(t, p, "FORK")
  PROVE  GoodV2(t, SkipSpace(t, p + 1), t[p] = "MERGE")
<1>1. Len(t) \in Nat /\ End(t) = Len(t) + 1 /\ p \in 1..End(t)
  BY DEF End
<1>2. PICK n : n = SkipSpace(t, p + 1)
  OBVIOUS
<1>3. n \in p + 1..End(t) /\ \A i \in p + 1..n - 1 : t[i] = "sp"
  BY <1>2, MarkIs
<1>4. n \in 1..End(t) /\ p \in 1..n - 1 /\ \A i \in 1..n - 1 : i < p \/ i = p \/ t[i] = "sp"
  BY <1>1, <1>3
<1>5. ASSUME NEW i \in 1..Len(t), i < n, t[i] # "sp" PROVE i < p \/ i = p
  BY <1>1, <1>4, <1>5
<1>6. /\ \A i \in Marks(t, "PAGE") : i < p => OnlySpaceAfter(t, i)
      /\ \A i \in Marks(t, "MERGE") : i < p =>
           /\ OnlySpaceAfter(t, i) /\ NextControl(t, i) \in Marks(t, "BLOCK")
           /\ Follows(t, i, "FORK")
  <2>1. t[p] \in Controls
    BY DEF Controls
  <2> QED BY <1>1, <2>1, V2Settled
<1>7. \A i \in Marks(t, "PAGE") : i < n => OnlySpaceAfter(t, i) \/ SkipSpace(t, i + 1) = n
  <2>1. \A i \in Marks(t, "PAGE") : i < n => i < p \/ i = p
    BY <1>5 DEF Marks
  <2> QED BY <1>2, <1>6, <2>1
<1>8. ASSUME NEW i \in Marks(t, "MERGE"), i < n
      PROVE  /\ Follows(t, i, "FORK")
             /\ \/ t[p] = "MERGE" /\ SkipSpace(t, i + 1) = n
                \/ OnlySpaceAfter(t, i) /\ NextControl(t, i) \in Marks(t, "BLOCK")
  <2>1. t[i] = "MERGE" /\ (i < p \/ i = p)
    BY <1>5, <1>8 DEF Marks
  <2> QED BY <1>2, <1>6, <1>8, <2>1
<1>9. ASSUME NEW i \in Marks(t, "BLOCK"), i < n
      PROVE  /\ Closing(t, i + 1, "FORK") < n
             /\ HeaderHolds(t, Written(t, i + 1, Closing(t, i + 1, "FORK")), FALSE)
  <2>1. i < p /\ i + 1 \in Nat \ {0}
    BY <1>1, <1>5, <1>9 DEF Marks
  <2>2. PICK c : c = Closing(t, i + 1, "FORK")
    OBVIOUS
  <2>3. c < p /\ HeaderHolds(t, Written(t, i + 1, c), FALSE)
    BY <1>9, <2>1, <2>2 DEF GoodV2
  <2>4. c \in 1..End(t)
    BY <2>1, <2>2, ClosingIs
  <2>5. c < n
    BY <1>1, <1>4, <2>3, <2>4
  <2> QED BY <2>2, <2>3, <2>5
<1>10. ASSUME NEW i \in Marks(t, "FORK") \cup Marks(t, "level"), i < n
       PROVE  Inside(t, i, "BLOCK", "FORK")
  <2>1. i < p
    BY <1>5, <1>10 DEF Marks
  <2> QED BY <1>10, <2>1 DEF GoodV2
<1>11. ASSUME NEW i \in 1..n - 1
       PROVE  t[i] \notin {"level0", "CHILD", "det", "/det", "ref", "/ref"}
  <2>1. CASE i < p
    <3>1. i \in 1..p - 1
      BY <1>1, <1>4, <2>1
    <3> QED BY <3>1 DEF GoodV2
  <2>2. CASE ~(i < p)
    BY <1>4, <2>2
  <2> QED BY <2>1, <2>2
<1> QED BY <1>2, <1>7, <1>8, <1>9, <1>10, <1>11 DEF GoodV2

(* A <PAGE> that is no error is read.                                      *)
LEMMA V2PageReads ==
  ASSUME NEW t \in Seq(Symbols), NEW p \in 1..Len(t), NEW pgs, NEW bls,
         ReadV2(t, p, pgs, bls, FALSE), t[p] = "PAGE"
  PROVE  ReadV2(t, SkipSpace(t, p + 1), Append(pgs, bls), <<>>, FALSE)
<1>1. Len(t) \in Nat /\ End(t) = Len(t) + 1 /\ p \in 1..End(t)
  BY DEF End
<1>2. PICK n : n = SkipSpace(t, p + 1)
  OBVIOUS
<1>3. n \in p + 1..End(t) /\ \A i \in p + 1..n - 1 : t[i] = "sp"
  BY <1>2, MarkIs
<1>4. n \in 1..End(t) /\ p \in 1..n - 1 /\ p < n
  BY <1>1, <1>3
<1>5. GoodV2(t, p, FALSE) /\ GivenV2(t, p, pgs, bls) /\ First(t) = "PAGE"
  BY DEF ReadV2
<1>6. GoodV2(t, n, FALSE)
  BY <1>2, <1>5, V2MarkReads
<1>7. ArrivedV2(t, n, TRUE, FALSE)
  BY <1>2, <1>4 DEF ArrivedV2, Behind
<1>8. GivenV2(t, n, Append(pgs, bls), <<>>)
  <2>1. p \in Marks(t, "PAGE") /\ p < n /\ \A i \in Marks(t, "PAGE") : i < n => i <= p
    BY <1>1, <1>3 DEF Marks
  <2>2. Append(pgs, bls) = PagesAt(t, {i \in Marks(t, "PAGE") : i < p})
    BY <1>1, <1>5, V2Completes
  <2>3. {i \in Marks(t, "BLOCK") : p < i /\ i < n} = {}
    BY <1>1, <1>3 DEF Marks
  <2> QED BY <2>1, <2>2, <2>3, NoBlocks DEF GivenV2
<1> QED BY <1>2, <1>4, <1>5, <1>6, <1>7, <1>8 DEF ReadV2

(* A <MERGE> that is no error is read.                                     *)
LEMMA V2MergeReads ==
  ASSUME NEW t \in Seq(Symbols), NEW p \in 1..Len(t), NEW pgs, NEW bls,
         ReadV2(t, p, pgs, bls, FALSE), t[p] = "MERGE", bls # <<>>
  PROVE  ReadV2(t, SkipSpace(t, p + 1), pgs, bls, TRUE)
<1>1. Len(t) \in Nat /\ End(t) = Len(t) + 1 /\ p \in 1..End(t) /\ t[p] \in Controls
  BY DEF End, Controls
<1>2. PICK n : n = SkipSpace(t, p + 1)
  OBVIOUS
<1>3. n \in p + 1..End(t) /\ \A i \in p + 1..n - 1 : t[i] = "sp"
  BY <1>2, MarkIs
<1>4. n \in 1..End(t) /\ p \in 1..n - 1 /\ p < n
  BY <1>1, <1>3
<1>5. GoodV2(t, p, FALSE) /\ ArrivedV2(t, p, FALSE, FALSE) /\ GivenV2(t, p, pgs, bls) /\ First(t) = "PAGE"
  BY DEF ReadV2
<1>6. Follows(t, p, "FORK")
  BY <1>1, <1>5, V2Before
<1>7. GoodV2(t, n, TRUE)
  BY <1>2, <1>5, <1>6, V2MarkReads
<1>8. ArrivedV2(t, n, FALSE, TRUE)
  BY <1>2, <1>4 DEF ArrivedV2, Behind
<1>9. GivenV2(t, n, pgs, bls)
  <2>1. PICK q \in Marks(t, "PAGE") :
          /\ q < p /\ \A i \in Marks(t, "PAGE") : i < p => i <= q
          /\ pgs = PagesAt(t, {i \in Marks(t, "PAGE") : i < q})
          /\ bls = BlocksAt(t, {i \in Marks(t, "BLOCK") : q < i /\ i < p}, "FORK")
    BY <1>5 DEF GivenV2
  <2>2. \A x \in {"PAGE", "BLOCK"} : \A i \in 1..Len(t) : t[i] = x => (i < p <=> i < n)
    BY <1>1, <1>3
  <2>3. q < n /\ \A i \in Marks(t, "PAGE") : i < n => i <= q
    BY <2>1, <2>2 DEF Marks
  <2>4. {i \in Marks(t, "BLOCK") : q < i /\ i < p} = {i \in Marks(t, "BLOCK") : q < i /\ i < n}
    BY <2>2 DEF Marks
  <2> QED BY <2>1, <2>3, <2>4 DEF GivenV2
<1> QED BY <1>2, <1>4, <1>5, <1>7, <1>8, <1>9 DEF ReadV2

(* Some blocks are not none.                                               *)
LEMMA BlocksSome ==
  ASSUME NEW t, NEW marker, NEW n \in Nat, NEW S \in SUBSET (1..n), NEW m \in Nat, n < m
  PROVE  BlocksAt(t, S \cup {m}, marker) # <<>>
<1>1. PICK N \in Nat : N = Cardinality(S)
  BY InOrderAppend
<1>2. PICK u : u = InOrder(S \cup {m})
  OBVIOUS
<1>3. DOMAIN u = 1..N + 1
  <2>1. u = [k \in 1..N + 1 |-> IF k <= N THEN InOrder(S)[k] ELSE m]
    BY <1>1, <1>2, InOrderAppend
  <2> QED BY <2>1
<1>4. DOMAIN BlocksAt(t, S \cup {m}, marker) = 1..N + 1
  BY <1>2, <1>3 DEF BlocksAt
<1>5. 1 \in 1..N + 1 /\ 1 \notin DOMAIN <<>>
  OBVIOUS
<1> QED BY <1>4, <1>5

(* A <BLOCK> with a header that holds is read, and its content.            *)
LEMMA V2BlockReads ==
  ASSUME NEW t \in Seq(Symbols), NEW p \in 1..Len(t), NEW pgs, NEW bls, NEW m,
         ReadV2(t, p, pgs, bls, m), t[p] = "BLOCK",
         NEW c, c = Closing(t, p + 1, "FORK"), c < End(t), HeaderHolds(t, Written(t, p + 1, c), FALSE),
         NEW n, n = ContentEnd(t, c + 1)
  PROVE  ReadV2(t, n, pgs,
                Append(bls, Block(t, Written(t, p + 1, c), SubSeq(t, c + 1, n - 1), m)), FALSE)
<1>1. Len(t) \in Nat /\ End(t) = Len(t) + 1 /\ p \in 1..End(t) /\ t[p] \in Controls
  BY DEF End, Controls
<1>2. c \in p + 1..Len(t) /\ t[c] = "FORK" /\ c \in Nat /\ c < End(t)
  <2>1. p + 1 \in Nat \ {0} /\ p + 1 <= End(t)
    BY <1>1
  <2>2. c \in 1..End(t) /\ p + 1 <= c /\ t[c] = "FORK"
    BY <2>1, ClosingIs
  <2> QED BY <1>1, <2>2
<1>3. n = NextControl(t, c)
  BY DEF NextControl
<1>4. n \in c + 1..End(t) /\ \A i \in c + 1..n - 1 : t[i] \notin Controls
  BY <1>2, <1>3, NextControlIs
<1>5. \A i \in p + 1..c - 1 : t[i] \in {"sp", "label", "box", "level"}
  <2>1. p + 1 \in Nat \ {0}
    BY <1>1
  <2> QED BY <1>2, <2>1, HeaderIs
<1>6. n \in 1..End(t) /\ p \in 1..n - 1 /\ c \in 1..n - 1 /\ p < n /\ c < n
  BY <1>1, <1>2, <1>4
<1>7. ASSUME NEW i \in 1..n - 1
      PROVE  i < p \/ i = p \/ i = c \/ (i \in p + 1..c - 1) \/ t[i] \notin Controls
  <2>1. i \in 1..p - 1 \/ i = p \/ i \in p + 1..c - 1 \/ i = c \/ i \in c + 1..n - 1
    BY <1>1, <1>2, <1>4
  <2> QED BY <1>1, <1>4, <2>1
<1>8. GoodV2(t, p, m) /\ ArrivedV2(t, p, bls = <<>>, m) /\ GivenV2(t, p, pgs, bls) /\ First(t) = "PAGE"
      /\ m \in BOOLEAN
  BY DEF ReadV2
<1>9. /\ \A i \in Marks(t, "PAGE") : i < p => OnlySpaceAfter(t, i)
      /\ \A i \in Marks(t, "MERGE") : i < p =>
           /\ OnlySpaceAfter(t, i) /\ NextControl(t, i) \in Marks(t, "BLOCK")
           /\ Follows(t, i, "FORK")
  BY <1>1, <1>8, V2Settled DEF Marks
<1>10. ASSUME NEW i \in 1..Len(t), i < n, t[i] \in {"PAGE", "MERGE"} PROVE i < p
  <2>1. i \in 1..n - 1 /\ t[i] \in Controls
    BY <1>1, <1>6, <1>10 DEF Controls
  <2>2. ~(i \in p + 1..c - 1)
    BY <1>5, <1>10
  <2> QED BY <1>2, <1>7, <1>10, <2>1, <2>2
<1>11. ASSUME NEW i \in 1..Len(t), i < n, t[i] = "BLOCK" PROVE i < p \/ i = p
  <2>1. i \in 1..n - 1 /\ t[i] \in Controls
    BY <1>1, <1>6, <1>11 DEF Controls
  <2>2. ~(i \in p + 1..c - 1)
    BY <1>5, <1>11
  <2> QED BY <1>2, <1>7, <1>11, <2>1, <2>2
<1>12. GoodV2(t, n, FALSE)
  <2>1. \A i \in Marks(t, "PAGE") : i < n => OnlySpaceAfter(t, i) \/ SkipSpace(t, i + 1) = n
    BY <1>9, <1>10 DEF Marks
  <2>2. \A i \in Marks(t, "MERGE") : i < n =>
          OnlySpaceAfter(t, i) /\ NextControl(t, i) \in Marks(t, "BLOCK") /\ Follows(t, i, "FORK")
    <3>1. \A i \in Marks(t, "MERGE") : i < n => i < p
      BY <1>10 DEF Marks
    <3> QED BY <1>9, <3>1
  <2>3. ASSUME NEW i \in Marks(t, "BLOCK"), i < n
        PROVE  /\ Closing(t, i + 1, "FORK") < n
               /\ HeaderHolds(t, Written(t, i + 1, Closing(t, i + 1, "FORK")), FALSE)
    <3>1. CASE i = p
      BY <1>6, <3>1
    <3>2. CASE i < p
      <4>1. i + 1 \in Nat \ {0}
        BY <1>1 DEF Marks
      <4>2. PICK d : d = Closing(t, i + 1, "FORK")
        OBVIOUS
      <4>3. d < p /\ HeaderHolds(t, Written(t, i + 1, d), FALSE)
        BY <1>8, <3>2, <4>2 DEF GoodV2
      <4>4. d \in 1..End(t)
        BY <4>1, <4>2, ClosingIs
      <4>5. d < n
        BY <1>1, <1>6, <4>3, <4>4
      <4> QED BY <4>2, <4>3, <4>5
    <3> QED BY <1>11, <2>3, <3>1, <3>2 DEF Marks
  <2>4. ASSUME NEW i \in Marks(t, "FORK") \cup Marks(t, "level"), i < n
        PROVE  Inside(t, i, "BLOCK", "FORK")
    <3>1. i \in 1..n - 1 /\ i \in 1..Len(t) /\ t[i] \in Controls /\ t[i] \in {"FORK", "level"}
      BY <1>1, <1>6, <2>4 DEF Marks, Controls
    <3>2. CASE i < p
      BY <1>8, <2>4, <3>2 DEF GoodV2
    <3>3. CASE i \in p + 1..c
      <4>1. p \in Marks(t, "BLOCK") /\ p < i /\ i <= c
        BY <1>1, <1>2, <3>3 DEF Marks
      <4> QED BY <4>1 DEF Inside
    <3>4. i # p
      BY <3>1
    <3> QED BY <1>1, <1>2, <1>7, <3>1, <3>2, <3>3, <3>4
  <2>5. ASSUME NEW i \in 1..n - 1
        PROVE  t[i] \notin {"level0", "CHILD", "det", "/det", "ref", "/ref"}
    <3>1. CASE i < p
      <4>1. i \in 1..p - 1
        BY <1>1, <1>6, <3>1
      <4> QED BY <1>8, <4>1 DEF GoodV2
    <3>2. CASE i = p \/ i = c
      BY <1>2, <3>2
    <3>3. CASE i \in p + 1..c - 1
      BY <1>5, <3>3
    <3>4. CASE t[i] \notin Controls
      BY <3>4 DEF Controls
    <3> QED BY <1>7, <3>1, <3>2, <3>3, <3>4
  <2> QED BY <2>1, <2>2, <2>3, <2>4, <2>5 DEF GoodV2
<1>13. PICK b : b = Block(t, Written(t, p + 1, c), SubSeq(t, c + 1, n - 1), m)
  OBVIOUS
<1>14. b = BlockAt(t, p, "FORK")
  <2>1. Follows(t, p, "MERGE") <=> m
    BY <1>1, <1>8, V2Before
  <2>2. Follows(t, p, "MERGE") \in BOOLEAN
    BY DEF Follows
  <2>3. Follows(t, p, "MERGE") = m
    BY <1>8, <2>1, <2>2
  <2> QED BY <1>3, <1>13, <2>3 DEF BlockAt
<1>15. PICK q \in Marks(t, "PAGE") :
         /\ q < p /\ \A i \in Marks(t, "PAGE") : i < p => i <= q
         /\ pgs = PagesAt(t, {i \in Marks(t, "PAGE") : i < q})
         /\ bls = BlocksAt(t, {i \in Marks(t, "BLOCK") : q < i /\ i < p}, "FORK")
  BY <1>8 DEF GivenV2
<1>16. PICK S : S = {i \in Marks(t, "BLOCK") : q < i /\ i < p}
  OBVIOUS
<1>17. S \in SUBSET (1..p - 1) /\ p - 1 \in Nat /\ p - 1 < p /\ p \in Nat
  BY <1>1, <1>16 DEF Marks
<1>18. Append(bls, b) = BlocksAt(t, S \cup {p}, "FORK")
  BY <1>14, <1>15, <1>16, <1>17, BlocksAppend
<1>19. Append(bls, b) # <<>>
  BY <1>17, <1>18, BlocksSome
<1>20. GivenV2(t, n, pgs, Append(bls, b))
  <2>1. p \in Marks(t, "BLOCK") /\ q \in 1..Len(t)
    BY DEF Marks
  <2>2. \A i \in Marks(t, "BLOCK") : (q < i /\ i < n) <=> ((q < i /\ i < p) \/ i = p)
    <3>1. \A i \in Marks(t, "BLOCK") : i < n <=> i < p \/ i = p
      <4>1. \A i \in Marks(t, "BLOCK") : i < n => i < p \/ i = p
        BY <1>11 DEF Marks
      <4>2. \A i \in Marks(t, "BLOCK") : i < p => i < n
        BY <1>1, <1>6 DEF Marks
      <4> QED BY <1>6, <4>1, <4>2
    <3> QED BY <1>15, <3>1
  <2>3. {i \in Marks(t, "BLOCK") : q < i /\ i < n} = S \cup {p}
    BY <1>16, <2>1, <2>2
  <2>4. q < n
    BY <1>1, <1>6, <1>15, <2>1
  <2>5. \A i \in Marks(t, "PAGE") : i < n => i <= q
    BY <1>10, <1>15 DEF Marks
  <2> QED BY <1>15, <1>18, <2>3, <2>4, <2>5 DEF GivenV2
<1>21. ArrivedV2(t, n, FALSE, FALSE)
  BY <1>2, <1>3, <1>6 DEF ArrivedV2, AtNext
<1>22. ReadV2(t, n, pgs, Append(bls, b), FALSE)
  BY <1>6, <1>8, <1>12, <1>19, <1>20, <1>21 DEF ReadV2
<1> QED BY <1>13, <1>22

(* The text ends where the format wants it to.                             *)
LEMMA V2EndReads ==
  ASSUME NEW t \in Seq(Symbols), NEW pgs, NEW bls, ReadV2(t, End(t), pgs, bls, FALSE)
  PROVE  InFormat(t) /\ Append(pgs, bls) = FormatPages(t)
<1>1. Len(t) \in Nat /\ End(t) = Len(t) + 1 /\ End(t) \in 1..End(t)
  BY DEF End
<1>2. GoodV2(t, End(t), FALSE) /\ GivenV2(t, End(t), pgs, bls) /\ First(t) = "PAGE"
  BY DEF ReadV2
<1>3. ASSUME NEW x, NEW i \in Marks(t, x) PROVE i < End(t)
  BY <1>1 DEF Marks
<1>4. /\ \A i \in Marks(t, "PAGE") : i < End(t) => OnlySpaceAfter(t, i)
      /\ \A i \in Marks(t, "MERGE") : i < End(t) =>
           /\ OnlySpaceAfter(t, i) /\ NextControl(t, i) \in Marks(t, "BLOCK")
           /\ Follows(t, i, "FORK")
  <2>1. PICK p \in 1..End(t) : p = End(t)
    BY <1>1
  <2>2. ~(p < End(t))
    BY <1>1, <2>1
  <2>3. /\ \A i \in Marks(t, "PAGE") : i < p => OnlySpaceAfter(t, i)
        /\ \A i \in Marks(t, "MERGE") : i < p =>
             /\ OnlySpaceAfter(t, i) /\ NextControl(t, i) \in Marks(t, "BLOCK")
             /\ Follows(t, i, "FORK")
    <3>1. GoodV2(t, p, FALSE)
      BY <1>2, <2>1
    <3> QED BY <2>2, <3>1, V2Settled
  <2> QED BY <2>1, <2>3
<1>5. V2Format(t)
  <2>1. /\ \A i \in Marks(t, "PAGE") : OnlySpaceAfter(t, i)
        /\ \A i \in Marks(t, "MERGE") :
             OnlySpaceAfter(t, i) /\ NextControl(t, i) \in Marks(t, "BLOCK") /\ Follows(t, i, "FORK")
    BY <1>3, <1>4
  <2>2. ASSUME NEW i \in Marks(t, "BLOCK")
        PROVE  /\ Closing(t, i + 1, "FORK") < End(t)
               /\ HeaderHolds(t, Written(t, i + 1, Closing(t, i + 1, "FORK")), FALSE)
    <3>1. i < End(t)
      BY <1>3
    <3> QED BY <1>2, <3>1 DEF GoodV2
  <2>3. \A i \in Marks(t, "FORK") \cup Marks(t, "level") : Inside(t, i, "BLOCK", "FORK")
    <3>1. \A i \in Marks(t, "FORK") \cup Marks(t, "level") : i < End(t)
      BY <1>3
    <3> QED BY <1>2, <3>1 DEF GoodV2
  <2>4. \A i \in 1..Len(t) : t[i] \notin {"level0", "CHILD", "det", "/det", "ref", "/ref"}
    <3>1. 1..Len(t) = 1..End(t) - 1
      BY <1>1
    <3> QED BY <1>2, <3>1 DEF GoodV2
  <2> QED BY <2>1, <2>2, <2>3, <2>4 DEF V2Format
<1>6. Append(pgs, bls) = PagesAt(t, Marks(t, "PAGE"))
  <2>1. {i \in Marks(t, "PAGE") : i < End(t)} = Marks(t, "PAGE")
    BY <1>3
  <2>2. Append(pgs, bls) = PagesAt(t, {i \in Marks(t, "PAGE") : i < End(t)})
    BY <1>1, <1>2, V2Completes
  <2> QED BY <2>1, <2>2
<1> QED BY <1>2, <1>5, <1>6 DEF InFormat, FormatPages

(* What stops the reading of v2.                                           *)
V2Stops(t, p, bls, m) ==
  \/ m /\ ~(p < End(t) /\ t[p] = "BLOCK")
  \/ p < End(t) /\ t[p] = "MERGE" /\ bls = <<>>
  \/ /\ p < End(t) /\ t[p] = "BLOCK"
     /\ LET close == Closing(t, p + 1, "FORK")
        IN  ~(close < End(t) /\ HeaderHolds(t, Written(t, p + 1, close), FALSE))
  \/ p < End(t) /\ t[p] \notin {"PAGE", "MERGE", "BLOCK"}

(* Each is out of the format.                                              *)
LEMMA V2StopsOutside ==
  ASSUME NEW t \in Seq(Symbols), NEW p, NEW pgs, NEW bls, NEW m,
         ReadV2(t, p, pgs, bls, m), V2Stops(t, p, bls, m)
  PROVE  ~InFormat(t)
<1>1. Len(t) \in Nat /\ End(t) = Len(t) + 1 /\ p \in 1..End(t) /\ m \in BOOLEAN
  BY DEF End, ReadV2
<1>2. GoodV2(t, p, m) /\ ArrivedV2(t, p, bls = <<>>, m) /\ First(t) = "PAGE"
  BY DEF ReadV2
<1>3. SUFFICES ASSUME V2Format(t) PROVE FALSE
  BY <1>2 DEF InFormat
<1>4. CASE m /\ ~(p < End(t) /\ t[p] = "BLOCK")
  <2>1. PICK j \in 1..p - 1 : t[j] = "MERGE" /\ SkipSpace(t, j + 1) = p
    BY <1>2, <1>4 DEF ArrivedV2, Behind
  <2>2. j \in Marks(t, "MERGE")
    BY <1>1, <2>1 DEF Marks
  <2>3. NextControl(t, j) = p /\ NextControl(t, j) \in Marks(t, "BLOCK")
    BY <1>3, <2>1, <2>2 DEF V2Format, OnlySpaceAfter
  <2> QED BY <1>1, <1>4, <2>3 DEF Marks
<1>5. CASE ~m /\ p < End(t) /\ t[p] = "MERGE" /\ bls = <<>>
  <2>1. p \in 1..Len(t) /\ t[p] \in Controls
    BY <1>1, <1>5 DEF Controls
  <2>2. Follows(t, p, "FORK") <=> ~m /\ ~(bls = <<>>)
    BY <1>1, <1>2, <2>1, V2Before
  <2>3. Follows(t, p, "FORK")
    BY <1>3, <1>5, <2>1 DEF V2Format, Marks
  <2> QED BY <1>5, <2>2, <2>3
<1>6. CASE /\ p < End(t) /\ t[p] = "BLOCK"
           /\ LET close == Closing(t, p + 1, "FORK")
              IN  ~(close < End(t) /\ HeaderHolds(t, Written(t, p + 1, close), FALSE))
  <2>1. p \in Marks(t, "BLOCK")
    BY <1>1, <1>6 DEF Marks
  <2> QED BY <1>3, <1>6, <2>1 DEF V2Format
<1>7. CASE ~m /\ p < End(t) /\ t[p] \notin {"PAGE", "MERGE", "BLOCK"}
  <2>1. p \in 1..Len(t)
    BY <1>1, <1>7
  <2>2. t[p] \notin {"level0", "CHILD", "det", "/det", "ref", "/ref"}
    BY <1>3, <2>1 DEF V2Format
  <2>3. ASSUME t[p] \in {"FORK", "level"} PROVE FALSE
    <3>1. p \in Marks(t, "FORK") \cup Marks(t, "level")
      BY <2>1, <2>3 DEF Marks
    <3>2. PICK b \in Marks(t, "BLOCK") : b < p /\ p <= Closing(t, b + 1, "FORK")
      BY <1>3, <3>1 DEF V2Format, Inside
    <3>3. Closing(t, b + 1, "FORK") < p
      BY <1>2, <3>2 DEF GoodV2
    <3>4. b + 1 \in Nat \ {0}
      BY <1>1 DEF Marks
    <3>5. Closing(t, b + 1, "FORK") \in 1..End(t)
      BY <3>4, ClosingIs
    <3> QED BY <1>1, <3>2, <3>3, <3>5
  <2>4. t[p] \notin Controls
    BY <1>7, <2>2, <2>3 DEF Controls
  <2>5. ASSUME NEW j \in 1..p - 1, NextControl(t, j) = p PROVE FALSE
    <3>1. j \in Nat /\ j < End(t) /\ p < End(t)
      BY <1>1, <2>1
    <3> QED BY <2>4, <2>5, <3>1, NextControlIs
  <2>6. CASE AtNext(t, p, "FORK")
    BY <2>5, <2>6 DEF AtNext
  <2>7. CASE Behind(t, p, "PAGE")
    <3>1. PICK j \in 1..p - 1 : t[j] = "PAGE" /\ SkipSpace(t, j + 1) = p
      BY <2>7 DEF Behind
    <3>2. j \in Marks(t, "PAGE")
      BY <1>1, <3>1 DEF Marks
    <3>3. NextControl(t, j) = p
      BY <1>3, <3>1, <3>2 DEF V2Format, OnlySpaceAfter
    <3> QED BY <2>5, <3>3
  <2> QED BY <1>2, <1>7, <2>6, <2>7 DEF ArrivedV2
<1> QED BY <1>1, <1>4, <1>5, <1>6, <1>7 DEF V2Stops

-----------------------------------------------------------------------------
(* Reading v1.                                                             *)

(* The first mark is where reading begins.                                 *)
LEMMA V1Begins ==
  ASSUME NEW t \in Seq(Symbols), First(t) \in {"det", "ref"}
  PROVE  ReadV1(t, SkipSpace(t, 1), <<>>)
<1>1. PICK x \in Controls : x = First(t)
  BY DEF Controls
<1>2. PICK p : p = SkipSpace(t, 1)
  OBVIOUS
<1>3. p \in 1..Len(t) /\ t[p] = x /\ \A i \in 1..p - 1 : t[i] = "sp"
  BY <1>1, <1>2, FirstIs
<1>4. Len(t) \in Nat /\ End(t) = Len(t) + 1 /\ p \in 1..End(t)
  BY <1>3 DEF End
<1>5. ASSUME NEW y \in Controls, NEW i \in Marks(t, y) PROVE ~(i < p)
  <2>1. i \in 1..Len(t) /\ t[i] = y /\ y # "sp"
    BY DEF Marks, Controls
  <2> QED BY <1>3, <1>4, <2>1
<1>6. GoodV1(t, p)
  <2>1. \A y \in {"det", "/det", "ref", "/ref", "level"} : \A i \in Marks(t, y) : ~(i < p)
    BY <1>5 DEF Controls
  <2>2. \A i \in 1..p - 1 : t[i] \notin {"level0", "CHILD", "PAGE", "MERGE", "BLOCK", "FORK"}
    BY <1>3
  <2> QED BY <2>1, <2>2 DEF GoodV1
<1>7. ASSUME AfterLabel(t, p) PROVE FALSE
  <2>1. PICK c \in Marks(t, "/ref") : SkipSpace(t, c + 1) = p
    BY <1>7 DEF AfterLabel
  <2>2. c \in 1..Len(t)
    BY DEF Marks
  <2>3. p \in c + 1..End(t)
    BY <2>1, <2>2, MarkIs
  <2>4. c < p
    BY <1>4, <2>2, <2>3
  <2> QED BY <1>5, <2>4 DEF Controls
<1>8. {i \in Marks(t, "det") : i < p} = {}
  BY <1>5 DEF Controls
<1>9. BlocksAt(t, {i \in Marks(t, "det") : i < p}, "/det") = <<>>
  BY <1>8, NoBlocks
<1> QED BY <1>1, <1>2, <1>3, <1>4, <1>6, <1>7, <1>9 DEF ReadV1

(* A header that holds at o and ends at c, and what has been read at n,    *)
(* the control after its content.                                          *)
V1Header(t, o, c) ==
  IF AfterLabel(t, o) THEN Metadata(t, Written(t, o + 1, c), TRUE)
                      ELSE HeaderHolds(t, Written(t, o + 1, c), TRUE)
V1Content(t, o, c, n) ==
  /\ n \in 1..End(t) /\ (n < End(t) => t[n] \in Controls)
  /\ GoodV1(t, n) /\ ~AfterLabel(t, n)
  /\ \A i \in Marks(t, "det") : i < n <=> i < o \/ i = o
  /\ BlockAt(t, o, "/det") = Block(t, Written(t, o + 1, c), SubSeq(t, c + 1, n - 1), FALSE)

(* A header of a block that holds is read, and its content.                *)
LEMMA V1HeaderReads ==
  ASSUME NEW t \in Seq(Symbols), NEW o \in 1..Len(t), GoodV1(t, o), t[o] = "det",
         NEW c, c = Closing(t, o + 1, "/det"), c < End(t),
         V1Header(t, o, c), NEW n, n = ContentEnd(t, c + 1)
  PROVE  V1Content(t, o, c, n)
<1>1. Len(t) \in Nat /\ End(t) = Len(t) + 1 /\ o \in 1..End(t)
  BY DEF End
<1>2. c \in o + 1..Len(t) /\ t[c] = "/det" /\ c \in Nat /\ c < End(t)
  <2>1. o + 1 \in Nat \ {0} /\ o + 1 <= End(t)
    BY <1>1
  <2>2. c \in 1..End(t) /\ o + 1 <= c /\ t[c] = "/det"
    BY <2>1, ClosingIs
  <2> QED BY <1>1, <2>2
<1>3. n = NextControl(t, c)
  BY DEF NextControl
<1>4. n \in c + 1..End(t) /\ (\A i \in c + 1..n - 1 : t[i] \notin Controls) /\ (n < End(t) => t[n] \in Controls)
  BY <1>2, <1>3, NextControlIs
<1>5. \A i \in o + 1..c - 1 : t[i] \in {"sp", "label", "box", "level"}
  <2>1. o + 1 \in Nat \ {0}
    BY <1>1
  <2> QED BY <1>2, <2>1, HeaderIs DEF V1Header
<1>6. n \in 1..End(t) /\ o \in 1..n - 1 /\ c \in 1..n - 1 /\ o < n /\ c < n
  BY <1>1, <1>2, <1>4
<1>7. ASSUME NEW i \in 1..n - 1
      PROVE  i < o \/ i = o \/ i = c \/ (i \in o + 1..c - 1) \/ t[i] \notin Controls
  <2>1. i \in 1..o - 1 \/ i = o \/ i \in o + 1..c - 1 \/ i = c \/ i \in c + 1..n - 1
    BY <1>1, <1>2, <1>4
  <2> QED BY <1>1, <1>4, <2>1
<1>8. ASSUME NEW i \in 1..Len(t), i < n, t[i] \in {"ref", "/ref"} PROVE i < o
  <2>1. i \in 1..n - 1 /\ t[i] \in Controls
    BY <1>1, <1>6, <1>8 DEF Controls
  <2>2. ~(i \in o + 1..c - 1)
    BY <1>5, <1>8
  <2> QED BY <1>2, <1>7, <1>8, <2>1, <2>2
<1>9. ASSUME NEW i \in 1..Len(t), i < n, t[i] = "det" PROVE i < o \/ i = o
  <2>1. i \in 1..n - 1 /\ t[i] \in Controls
    BY <1>1, <1>6, <1>9 DEF Controls
  <2>2. ~(i \in o + 1..c - 1)
    BY <1>5, <1>9
  <2> QED BY <1>2, <1>7, <1>9, <2>1, <2>2
<1>10. GoodV1(t, n)
  <2>1. ASSUME NEW i \in Marks(t, "det"), i < n
        PROVE  LET close == Closing(t, i + 1, "/det")
                   header == Written(t, i + 1, close)
               IN  /\ close < n
                   /\ IF AfterLabel(t, i) THEN Metadata(t, header, TRUE) ELSE HeaderHolds(t, header, TRUE)
    <3>1. CASE i = o
      BY <1>6, <3>1 DEF V1Header
    <3>2. CASE i < o
      <4>1. i + 1 \in Nat \ {0}
        BY <1>1 DEF Marks
      <4>2. PICK d : d = Closing(t, i + 1, "/det")
        OBVIOUS
      <4>3. /\ d < o
            /\ IF AfterLabel(t, i) THEN Metadata(t, Written(t, i + 1, d), TRUE)
                                   ELSE HeaderHolds(t, Written(t, i + 1, d), TRUE)
        BY <3>2, <4>2 DEF GoodV1
      <4>4. d \in 1..End(t)
        BY <4>1, <4>2, ClosingIs
      <4>5. d < n
        BY <1>1, <1>6, <4>3, <4>4
      <4> QED BY <4>2, <4>3, <4>5
    <3> QED BY <1>9, <2>1, <3>1, <3>2 DEF Marks
  <2>2. ASSUME NEW i \in Marks(t, "ref"), i < n
        PROVE  LET close == Closing(t, i + 1, "/ref")
               IN  /\ close < n /\ IsLabel(t, Written(t, i + 1, close))
                   /\ SkipSpace(t, close + 1) \in Marks(t, "det")
    <3>1. i < o
      BY <1>8, <2>2 DEF Marks
    <3>2. i + 1 \in Nat \ {0}
      BY <1>1 DEF Marks
    <3>3. PICK d : d = Closing(t, i + 1, "/ref")
      OBVIOUS
    <3>4. d < o /\ IsLabel(t, Written(t, i + 1, d)) /\ SkipSpace(t, d + 1) \in Marks(t, "det")
      BY <3>1, <3>3 DEF GoodV1
    <3>5. d \in 1..End(t)
      BY <3>2, <3>3, ClosingIs
    <3>6. d < n
      BY <1>1, <1>6, <3>4, <3>5
    <3> QED BY <3>3, <3>4, <3>6
  <2>3. ASSUME NEW i \in Marks(t, "/det") \cup Marks(t, "level"), i < n
        PROVE  Inside(t, i, "det", "/det")
    <3>1. i \in 1..n - 1 /\ t[i] \in Controls /\ t[i] \in {"/det", "level"}
      BY <1>1, <1>6, <2>3 DEF Marks, Controls
    <3>2. CASE i < o
      BY <2>3, <3>2 DEF GoodV1
    <3>3. CASE i \in o + 1..c
      <4>1. o \in Marks(t, "det") /\ o < i /\ i <= c
        BY <1>1, <1>2, <3>3 DEF Marks
      <4> QED BY <4>1 DEF Inside
    <3>4. i # o
      BY <3>1
    <3> QED BY <1>1, <1>2, <1>7, <3>1, <3>2, <3>3, <3>4
  <2>4. ASSUME NEW i \in Marks(t, "/ref"), i < n
        PROVE  Inside(t, i, "ref", "/ref") /\ SkipSpace(t, i + 1) <= n
    <3>1. i \in 1..Len(t) /\ i < o
      BY <1>8, <2>4 DEF Marks
    <3>2. Inside(t, i, "ref", "/ref") /\ SkipSpace(t, i + 1) <= o
      BY <3>1 DEF GoodV1
    <3>3. SkipSpace(t, i + 1) \in i + 1..End(t)
      BY <3>1, MarkIs
    <3>4. SkipSpace(t, i + 1) <= n
      BY <1>1, <1>6, <3>1, <3>2, <3>3
    <3> QED BY <3>2, <3>4
  <2>5. ASSUME NEW i \in 1..n - 1
        PROVE  t[i] \notin {"level0", "CHILD", "PAGE", "MERGE", "BLOCK", "FORK"}
    <3>1. CASE i < o
      <4>1. i \in 1..o - 1
        BY <1>1, <1>6, <3>1
      <4> QED BY <4>1 DEF GoodV1
    <3>2. CASE i = o \/ i = c
      BY <1>2, <3>2
    <3>3. CASE i \in o + 1..c - 1
      BY <1>5, <3>3
    <3>4. CASE t[i] \notin Controls
      BY <3>4 DEF Controls
    <3> QED BY <1>7, <3>1, <3>2, <3>3, <3>4
  <2> QED BY <2>1, <2>2, <2>3, <2>4, <2>5 DEF GoodV1
<1>11. ASSUME AfterLabel(t, n) PROVE FALSE
  <2>1. PICK k \in Marks(t, "/ref") : SkipSpace(t, k + 1) = n
    BY <1>11 DEF AfterLabel
  <2>2. k \in 1..Len(t) /\ t[k] = "/ref"
    BY DEF Marks
  <2>3. n \in k + 1..End(t)
    BY <2>1, <2>2, MarkIs
  <2>4. k < n
    BY <1>1, <2>2, <2>3
  <2>5. k < o
    BY <1>8, <2>2, <2>4
  <2>6. n <= o
    BY <2>1, <2>5 DEF GoodV1
  <2> QED BY <1>1, <1>6, <2>6
<1>12. \A i \in Marks(t, "det") : i < n <=> i < o \/ i = o
  <2>1. \A i \in Marks(t, "det") : i < n => i < o \/ i = o
    BY <1>9 DEF Marks
  <2>2. \A i \in Marks(t, "det") : i < o => i < n
    BY <1>1, <1>6 DEF Marks
  <2> QED BY <1>6, <2>1, <2>2
<1>13. ~Follows(t, o, "MERGE")
  BY DEF Follows, GoodV1
<1>14. Follows(t, o, "MERGE") = FALSE
  BY <1>13 DEF Follows
<1>15. BlockAt(t, o, "/det") = Block(t, Written(t, o + 1, c), SubSeq(t, c + 1, n - 1), FALSE)
  BY <1>3, <1>14 DEF BlockAt
<1> QED BY <1>4, <1>6, <1>10, <1>11, <1>12, <1>15 DEF V1Content

(* A label of the older spelling is read, up to its block.                 *)
LEMMA V1LabelReads ==
  ASSUME NEW t \in Seq(Symbols), NEW p \in 1..Len(t), GoodV1(t, p), t[p] = "ref",
         NEW l, l = Closing(t, p + 1, "/ref"), l < End(t), IsLabel(t, Written(t, p + 1, l)),
         NEW o, o = SkipSpace(t, l + 1), o < End(t), t[o] = "det"
  PROVE  /\ o \in 1..Len(t) /\ GoodV1(t, o) /\ AfterLabel(t, o)
         /\ \A i \in Marks(t, "det") : i < o <=> i < p
<1>1. Len(t) \in Nat /\ End(t) = Len(t) + 1 /\ p \in 1..End(t)
  BY DEF End
<1>2. l \in p + 1..Len(t) /\ t[l] = "/ref" /\ l \in 1..Len(t)
  <2>1. p + 1 \in Nat \ {0} /\ p + 1 <= End(t)
    BY <1>1
  <2>2. l \in 1..End(t) /\ p + 1 <= l /\ t[l] = "/ref"
    BY <2>1, ClosingIs
  <2> QED BY <1>1, <2>2
<1>3. o \in l + 1..End(t) /\ \A i \in l + 1..o - 1 : t[i] = "sp"
  BY <1>2, MarkIs
<1>4. \A i \in p + 1..l - 1 : t[i] \in {"sp", "label"}
  BY DEF IsLabel, Written
<1>5. o \in 1..Len(t) /\ p \in 1..o - 1 /\ l \in 1..o - 1 /\ p < o /\ l < o
  BY <1>1, <1>2, <1>3
<1>6. ASSUME NEW i \in 1..o - 1
      PROVE  i < p \/ i = p \/ i = l \/ t[i] \notin Controls
  <2>1. i \in 1..p - 1 \/ i = p \/ i \in p + 1..l - 1 \/ i = l \/ i \in l + 1..o - 1
    BY <1>1, <1>2, <1>3
  <2>2. \A x \in {"sp", "label"} : x \notin Controls
    BY DEF Controls
  <2> QED BY <1>1, <1>3, <1>4, <2>1, <2>2
<1>7. ASSUME NEW i \in 1..Len(t), i < o, t[i] \in Controls, t[i] # "ref", t[i] # "/ref"
      PROVE  i < p
  <2>1. i \in 1..o - 1
    BY <1>1, <1>5, <1>7
  <2> QED BY <1>2, <1>6, <1>7, <2>1
<1>8. o \in Marks(t, "det")
  BY <1>5 DEF Marks
<1>9. GoodV1(t, o)
  <2>1. ASSUME NEW i \in Marks(t, "det"), i < o
        PROVE  LET close == Closing(t, i + 1, "/det")
                   header == Written(t, i + 1, close)
               IN  /\ close < o
                   /\ IF AfterLabel(t, i) THEN Metadata(t, header, TRUE) ELSE HeaderHolds(t, header, TRUE)
    <3>1. i < p /\ i + 1 \in Nat \ {0}
      BY <1>1, <1>7, <2>1 DEF Marks, Controls
    <3>2. PICK d : d = Closing(t, i + 1, "/det")
      OBVIOUS
    <3>3. /\ d < p
          /\ IF AfterLabel(t, i) THEN Metadata(t, Written(t, i + 1, d), TRUE)
                                 ELSE HeaderHolds(t, Written(t, i + 1, d), TRUE)
      BY <3>1, <3>2 DEF GoodV1
    <3>4. d \in 1..End(t)
      BY <3>1, <3>2, ClosingIs
    <3>5. d < o
      BY <1>1, <1>5, <3>3, <3>4
    <3> QED BY <3>2, <3>3, <3>5
  <2>2. ASSUME NEW i \in Marks(t, "ref"), i < o
        PROVE  LET close == Closing(t, i + 1, "/ref")
               IN  /\ close < o /\ IsLabel(t, Written(t, i + 1, close))
                   /\ SkipSpace(t, close + 1) \in Marks(t, "det")
    <3>1. i \in 1..o - 1 /\ t[i] = "ref" /\ t[i] \in Controls
      BY <1>1, <1>5, <2>2 DEF Marks, Controls
    <3>2. i < p \/ i = p
      BY <1>2, <1>6, <3>1
    <3>3. CASE i = p
      BY <1>5, <1>8, <3>3
    <3>4. CASE i < p
      <4>1. PICK d : d = Closing(t, i + 1, "/ref")
        OBVIOUS
      <4>2. d < p /\ IsLabel(t, Written(t, i + 1, d)) /\ SkipSpace(t, d + 1) \in Marks(t, "det")
        BY <3>4, <4>1 DEF GoodV1
      <4>3. i + 1 \in Nat \ {0}
        BY <1>1, <3>1
      <4>4. d \in 1..End(t)
        BY <4>1, <4>3, ClosingIs
      <4>5. d < o
        BY <1>1, <1>5, <4>2, <4>4
      <4> QED BY <4>1, <4>2, <4>5
    <3> QED BY <3>2, <3>3, <3>4
  <2>3. ASSUME NEW i \in Marks(t, "/det") \cup Marks(t, "level"), i < o
        PROVE  Inside(t, i, "det", "/det")
    <3>1. i < p
      BY <1>7, <2>3 DEF Marks, Controls
    <3> QED BY <2>3, <3>1 DEF GoodV1
  <2>4. ASSUME NEW i \in Marks(t, "/ref"), i < o
        PROVE  Inside(t, i, "ref", "/ref") /\ SkipSpace(t, i + 1) <= o
    <3>1. i \in 1..o - 1 /\ i \in 1..Len(t) /\ t[i] = "/ref" /\ t[i] \in Controls
      BY <1>1, <1>5, <2>4 DEF Marks, Controls
    <3>2. i < p \/ i = l
      BY <1>6, <3>1
    <3>3. CASE i = l
      <4>1. p \in Marks(t, "ref") /\ p < i /\ i <= l
        BY <1>1, <1>2, <3>3 DEF Marks
      <4>2. SkipSpace(t, i + 1) <= o
        BY <1>1, <1>5, <3>3
      <4> QED BY <4>1, <4>2 DEF Inside
    <3>4. CASE i < p
      <4>1. Inside(t, i, "ref", "/ref") /\ SkipSpace(t, i + 1) <= p
        BY <2>4, <3>4 DEF GoodV1
      <4>2. SkipSpace(t, i + 1) \in i + 1..End(t)
        BY <3>1, MarkIs
      <4>3. SkipSpace(t, i + 1) <= o
        BY <1>1, <1>5, <3>1, <4>1, <4>2
      <4> QED BY <4>1, <4>3
    <3> QED BY <3>2, <3>3, <3>4
  <2>5. ASSUME NEW i \in 1..o - 1
        PROVE  t[i] \notin {"level0", "CHILD", "PAGE", "MERGE", "BLOCK", "FORK"}
    <3>1. CASE i < p
      <4>1. i \in 1..p - 1
        BY <1>1, <1>5, <3>1
      <4> QED BY <4>1 DEF GoodV1
    <3>2. CASE i = p \/ i = l
      BY <1>2, <3>2
    <3>3. CASE t[i] \notin Controls
      BY <3>3 DEF Controls
    <3> QED BY <1>6, <3>1, <3>2, <3>3
  <2> QED BY <2>1, <2>2, <2>3, <2>4, <2>5 DEF GoodV1
<1>10. AfterLabel(t, o)
  <2>1. l \in Marks(t, "/ref")
    BY <1>2 DEF Marks
  <2> QED BY <2>1 DEF AfterLabel
<1>11. \A i \in Marks(t, "det") : i < o <=> i < p
  <2>1. \A i \in Marks(t, "det") : i < o => i < p
    BY <1>7 DEF Marks, Controls
  <2>2. \A i \in Marks(t, "det") : i < p => i < o
    BY <1>1, <1>5 DEF Marks
  <2> QED BY <2>1, <2>2
<1> QED BY <1>5, <1>9, <1>10, <1>11

(* A block of v1 is read: the mark of its header is at o, which is p       *)
(* where the label is in the header.                                       *)
LEMMA V1BlockReads ==
  ASSUME NEW t \in Seq(Symbols), NEW p, NEW bls, ReadV1(t, p, bls),
         NEW o \in 1..Len(t), GoodV1(t, o), t[o] = "det",
         \A i \in Marks(t, "det") : i < o <=> i < p,
         NEW c, c = Closing(t, o + 1, "/det"), c < End(t),
         V1Header(t, o, c), NEW n, n = ContentEnd(t, c + 1)
  PROVE  ReadV1(t, n, Append(bls, Block(t, Written(t, o + 1, c), SubSeq(t, c + 1, n - 1), FALSE)))
<1>1. Len(t) \in Nat
  OBVIOUS
<1>2. PICK b : b = Block(t, Written(t, o + 1, c), SubSeq(t, c + 1, n - 1), FALSE)
  OBVIOUS
<1>3. /\ n \in 1..End(t) /\ (n < End(t) => t[n] \in Controls)
      /\ GoodV1(t, n) /\ ~AfterLabel(t, n)
      /\ \A i \in Marks(t, "det") : i < n <=> i < o \/ i = o
      /\ BlockAt(t, o, "/det") = b
  <2>1. V1Content(t, o, c, n)
    BY V1HeaderReads
  <2> QED BY <1>2, <2>1 DEF V1Content
<1>4. PICK S : S = {i \in Marks(t, "det") : i < o}
  OBVIOUS
<1>5. S \in SUBSET (1..o - 1) /\ o - 1 \in Nat /\ o - 1 < o /\ o \in Nat
  BY <1>1, <1>4 DEF Marks
<1>6. {i \in Marks(t, "det") : i < p} = S
  BY <1>4
<1>7. bls = BlocksAt(t, S, "/det") /\ First(t) \in {"det", "ref"}
  BY <1>6 DEF ReadV1
<1>8. o \in Marks(t, "det")
  BY DEF Marks
<1>9. {i \in Marks(t, "det") : i < n} = S \cup {o}
  BY <1>3, <1>4, <1>8
<1>10. BlocksAt(t, S \cup {o}, "/det") = Append(bls, b)
  <2>1. BlocksAt(t, S \cup {o}, "/det") = Append(BlocksAt(t, S, "/det"), BlockAt(t, o, "/det"))
    BY <1>5, BlocksAppend
  <2> QED BY <1>3, <1>7, <2>1
<1>11. ReadV1(t, n, Append(bls, b))
  BY <1>3, <1>7, <1>9, <1>10 DEF ReadV1
<1> QED BY <1>2, <1>11

(* The text ends where the format wants it to.                             *)
LEMMA V1EndReads ==
  ASSUME NEW t \in Seq(Symbols), NEW bls, ReadV1(t, End(t), bls)
  PROVE  InFormat(t) /\ <<bls>> = FormatPages(t)
<1>1. Len(t) \in Nat /\ End(t) = Len(t) + 1
  BY DEF End
<1>2. GoodV1(t, End(t)) /\ First(t) \in {"det", "ref"}
      /\ bls = BlocksAt(t, {i \in Marks(t, "det") : i < End(t)}, "/det")
  BY DEF ReadV1
<1>3. ASSUME NEW x, NEW i \in Marks(t, x) PROVE i < End(t)
  BY <1>1 DEF Marks
<1>4. V1Format(t)
  <2>1. ASSUME NEW i \in Marks(t, "det")
        PROVE  LET close == Closing(t, i + 1, "/det")
                   header == Written(t, i + 1, close)
               IN  /\ close < End(t)
                   /\ IF AfterLabel(t, i) THEN Metadata(t, header, TRUE) ELSE HeaderHolds(t, header, TRUE)
    <3>1. i < End(t)
      BY <1>3
    <3> QED BY <1>2, <3>1 DEF GoodV1
  <2>2. ASSUME NEW i \in Marks(t, "ref")
        PROVE  LET close == Closing(t, i + 1, "/ref")
               IN  /\ IsLabel(t, Written(t, i + 1, close))
                   /\ SkipSpace(t, close + 1) \in Marks(t, "det")
    <3>1. i < End(t)
      BY <1>3
    <3> QED BY <1>2, <3>1 DEF GoodV1
  <2>3. ASSUME NEW i \in Marks(t, "/det") \cup Marks(t, "level") PROVE Inside(t, i, "det", "/det")
    <3>1. i < End(t)
      BY <1>3
    <3> QED BY <1>2, <3>1 DEF GoodV1
  <2>4. ASSUME NEW i \in Marks(t, "/ref") PROVE Inside(t, i, "ref", "/ref")
    <3>1. i < End(t)
      BY <1>3
    <3> QED BY <1>2, <3>1 DEF GoodV1
  <2>5. \A i \in 1..Len(t) : t[i] \notin {"level0", "CHILD", "PAGE", "MERGE", "BLOCK", "FORK"}
    <3>1. 1..Len(t) = 1..End(t) - 1
      BY <1>1
    <3> QED BY <1>2, <3>1 DEF GoodV1
  <2> QED BY <2>1, <2>2, <2>3, <2>4, <2>5 DEF V1Format
<1>5. {i \in Marks(t, "det") : i < End(t)} = Marks(t, "det")
  BY <1>3
<1>6. First(t) # "PAGE"
  BY <1>2
<1> QED BY <1>2, <1>4, <1>5, <1>6 DEF InFormat, FormatPages

(* What stops the reading of v1.                                           *)
V1Stops(t, p) ==
  /\ p < End(t)
  /\ \/ /\ t[p] = "det"
        /\ LET close == Closing(t, p + 1, "/det")
           IN  ~(close < End(t) /\ HeaderHolds(t, Written(t, p + 1, close), TRUE))
     \/ /\ t[p] = "ref"
        /\ LET label == Closing(t, p + 1, "/ref")
               open == SkipSpace(t, label + 1)
               close == Closing(t, open + 1, "/det")
           IN  ~(/\ label < End(t) /\ IsLabel(t, Written(t, p + 1, label))
                 /\ open < End(t) /\ t[open] = "det"
                 /\ close < End(t) /\ Metadata(t, Written(t, open + 1, close), TRUE))
     \/ t[p] \notin {"det", "ref"}

(* Each is out of the format.                                              *)
LEMMA V1StopsOutside ==
  ASSUME NEW t \in Seq(Symbols), NEW p, NEW bls, ReadV1(t, p, bls), V1Stops(t, p)
  PROVE  ~InFormat(t)
<1>1. Len(t) \in Nat /\ End(t) = Len(t) + 1 /\ p \in 1..End(t) /\ p < End(t)
  BY DEF End, ReadV1, V1Stops
<1>2. GoodV1(t, p) /\ ~AfterLabel(t, p) /\ First(t) \in {"det", "ref"} /\ t[p] \in Controls
  BY <1>1 DEF ReadV1
<1>3. SUFFICES ASSUME V1Format(t) PROVE FALSE
  BY <1>2 DEF InFormat
<1>4. p \in 1..Len(t)
  BY <1>1
<1>5. CASE /\ t[p] = "det"
           /\ LET close == Closing(t, p + 1, "/det")
              IN  ~(close < End(t) /\ HeaderHolds(t, Written(t, p + 1, close), TRUE))
  <2>1. p \in Marks(t, "det")
    BY <1>4, <1>5 DEF Marks
  <2> QED BY <1>2, <1>3, <1>5, <2>1 DEF V1Format
<1>6. CASE /\ t[p] = "ref"
           /\ LET label == Closing(t, p + 1, "/ref")
                  open == SkipSpace(t, label + 1)
                  close == Closing(t, open + 1, "/det")
              IN  ~(/\ label < End(t) /\ IsLabel(t, Written(t, p + 1, label))
                    /\ open < End(t) /\ t[open] = "det"
                    /\ close < End(t) /\ Metadata(t, Written(t, open + 1, close), TRUE))
  <2>1. p \in Marks(t, "ref")
    BY <1>4, <1>6 DEF Marks
  <2>2. PICK l : l = Closing(t, p + 1, "/ref")
    OBVIOUS
  <2>3. PICK o : o = SkipSpace(t, l + 1)
    OBVIOUS
  <2>4. PICK c : c = Closing(t, o + 1, "/det")
    OBVIOUS
  <2>5. IsLabel(t, Written(t, p + 1, l)) /\ o \in Marks(t, "det")
    BY <1>3, <2>1, <2>2, <2>3 DEF V1Format
  <2>6. o \in 1..Len(t) /\ t[o] = "det" /\ o < End(t)
    BY <1>1, <2>5 DEF Marks
  <2>7. l \in 1..End(t) /\ (l < End(t) => t[l] = "/ref")
    <3>1. p + 1 \in Nat \ {0}
      BY <1>1
    <3> QED BY <2>2, <3>1, ClosingIs
  <2>8. l < End(t)
    <3>1. SUFFICES ASSUME l = End(t) PROVE FALSE
      BY <1>1, <2>7
    <3>2. l + 1 \in Nat \ {0} /\ l + 1 > Len(t)
      BY <1>1, <3>1
    <3>3. {i \in l + 1..Len(t) : t[i] # "sp"} \cup {End(t)} = {End(t)}
      BY <1>1, <3>2
    <3>4. o = Least({End(t)})
      BY <2>3, <3>3 DEF SkipSpace
    <3>5. {End(t)} \in SUBSET Nat /\ {End(t)} # {}
      BY <1>1
    <3>6. o = End(t)
      BY <3>4, <3>5, LeastIs
    <3> QED BY <1>1, <2>6, <3>6
  <2>9. AfterLabel(t, o)
    <3>1. l \in Marks(t, "/ref")
      BY <1>1, <2>7, <2>8 DEF Marks
    <3> QED BY <2>3, <3>1 DEF AfterLabel
  <2>10. c < End(t) /\ Metadata(t, Written(t, o + 1, c), TRUE)
    BY <1>3, <2>4, <2>5, <2>9 DEF V1Format
  <2> QED BY <1>6, <2>2, <2>3, <2>4, <2>5, <2>6, <2>8, <2>10
<1>7. CASE t[p] \notin {"det", "ref"}
  <2>1. t[p] \notin {"level0", "CHILD", "PAGE", "MERGE", "BLOCK", "FORK"}
    BY <1>3, <1>4 DEF V1Format
  <2>2. t[p] \in {"/det", "level", "/ref"}
    BY <1>2, <1>7, <2>1 DEF Controls
  <2>3. ASSUME NEW x, NEW y, NEW b \in Marks(t, x), p <= Closing(t, b + 1, y)
        PROVE  ~(Closing(t, b + 1, y) < p)
    <3>1. b + 1 \in Nat \ {0}
      BY <1>1 DEF Marks
    <3>2. Closing(t, b + 1, y) \in 1..End(t)
      BY <3>1, ClosingIs
    <3> QED BY <1>1, <2>3, <3>2
  <2>4. CASE t[p] \in {"/det", "level"}
    <3>1. p \in Marks(t, "/det") \cup Marks(t, "level")
      BY <1>4, <2>4 DEF Marks
    <3>2. PICK b \in Marks(t, "det") : b < p /\ p <= Closing(t, b + 1, "/det")
      BY <1>3, <3>1 DEF V1Format, Inside
    <3>3. Closing(t, b + 1, "/det") < p
      BY <1>2, <3>2 DEF GoodV1
    <3> QED BY <2>3, <3>2, <3>3
  <2>5. CASE t[p] = "/ref"
    <3>1. p \in Marks(t, "/ref")
      BY <1>4, <2>5 DEF Marks
    <3>2. PICK b \in Marks(t, "ref") : b < p /\ p <= Closing(t, b + 1, "/ref")
      BY <1>3, <3>1 DEF V1Format, Inside
    <3>3. Closing(t, b + 1, "/ref") < p
      BY <1>2, <3>2 DEF GoodV1
    <3> QED BY <2>3, <3>2, <3>3
  <2> QED BY <2>2, <2>4, <2>5
<1> QED BY <1>5, <1>6, <1>7 DEF V1Stops

-----------------------------------------------------------------------------
(* The parser's steps.                                                     *)

(* Nothing is read at first.                                               *)
LEMMA ParseBegins == ParseInit => ParseInv
BY DEF ParseInit, ParseInv, ParseMatchesFormat

(* A text is a sequence of symbols.                                        *)
LEMMA TextIs == ASSUME ParseInv, verdict # "none" PROVE text \in Seq(Symbols)
BY TextsAssumption DEF ParseInv

(* A refused text is out of the format.                                    *)
LEMMA RejectKeeps == ASSUME ParseInv, verdict # "none", Reject, ~InFormat(text) PROVE ParseInv'
BY DEF ParseInv, Reject, ParseMatchesFormat

(* parse_ocr: the first symbol decides the format.                         *)
LEMMA BeginKeeps == ASSUME ParseInv, Begin PROVE ParseInv'
<1>1. verdict = "start" /\ text \in Texts /\ text \in Seq(Symbols)
  BY TextIs DEF Begin, ParseInv
<1>2. pages = <<>> /\ blocks = <<>> /\ merging = FALSE
  BY <1>1 DEF ParseInv
<1>3. CASE /\ First(text) = "PAGE"
           /\ at' = SkipSpace(text, SkipSpace(text, 1) + 1) /\ verdict' = "v2"
           /\ UNCHANGED <<text, pages, blocks, merging>>
  <2>1. ReadV2(text, SkipSpace(text, SkipSpace(text, 1) + 1), <<>>, <<>>, FALSE)
    BY <1>1, <1>3, V2Begins
  <2>2. ReadV2(text', at', pages', blocks', merging')
    BY <1>2, <1>3, <2>1
  <2> QED BY <1>1, <1>3, <2>2 DEF ParseInv, ParseMatchesFormat
<1>4. CASE /\ First(text) \in {"det", "ref"}
           /\ at' = SkipSpace(text, 1) /\ verdict' = "v1"
           /\ UNCHANGED <<text, pages, blocks, merging>>
  <2>1. ReadV1(text, SkipSpace(text, 1), <<>>)
    BY <1>1, <1>4, V1Begins
  <2>2. ReadV1(text', at', blocks')
    BY <1>2, <1>4, <2>1
  <2> QED BY <1>1, <1>2, <1>4, <2>2 DEF ParseInv, ParseMatchesFormat
<1>5. CASE First(text) \notin {"PAGE", "det", "ref"} /\ Reject
  BY <1>1, <1>5, RejectKeeps DEF InFormat
<1> QED BY <1>3, <1>4, <1>5 DEF Begin

(* _parse_v1: one block, of either spelling, or the error.                 *)
LEMMA V1BlockKeeps == ASSUME ParseInv, V1Block PROVE ParseInv'
<1>1. verdict = "v1" /\ text \in Texts /\ text \in Seq(Symbols) /\ at < End(text)
  BY TextIs DEF V1Block, ParseInv
<1>2. ReadV1(text, at, blocks) /\ merging = FALSE
  BY <1>1 DEF ParseInv
<1>3. GoodV1(text, at) /\ ~AfterLabel(text, at) /\ at \in 1..Len(text)
  <2>1. GoodV1(text, at) /\ ~AfterLabel(text, at) /\ at \in 1..End(text)
    BY <1>2 DEF ReadV1
  <2>2. Len(text) \in Nat /\ End(text) = Len(text) + 1
    BY <1>1 DEF End
  <2> QED BY <1>1, <2>1, <2>2
<1>4. ASSUME V1Stops(text, at), Reject PROVE ParseInv'
  <2>1. ~InFormat(text)
    BY <1>1, <1>2, <1>4, V1StopsOutside
  <2> QED BY <1>1, <1>4, <2>1, RejectKeeps
<1>5. ASSUME NEW o \in 1..Len(text), GoodV1(text, o), text[o] = "det",
             \A i \in Marks(text, "det") : i < o <=> i < at,
             NEW c, c = Closing(text, o + 1, "/det"), c < End(text), V1Header(text, o, c),
             TakeBlock(Written(text, o + 1, c), c)
      PROVE  ParseInv'
  <2>1. PICK n : n = ContentEnd(text, c + 1)
    OBVIOUS
  <2>2. PICK b : b = Block(text, Written(text, o + 1, c), SubSeq(text, c + 1, n - 1), FALSE)
    OBVIOUS
  <2>3. /\ blocks' = Append(blocks, b) /\ at' = n /\ merging' = FALSE
        /\ text' = text /\ verdict' = verdict
    BY <1>2, <1>5, <2>1, <2>2 DEF TakeBlock
  <2>4. ReadV1(text, n, Append(blocks, b))
    BY <1>1, <1>2, <1>5, <2>1, <2>2, V1BlockReads
  <2>5. ReadV1(text', at', blocks')
    BY <2>3, <2>4
  <2> QED BY <1>1, <2>3, <2>5 DEF ParseInv, ParseMatchesFormat
<1>6. CASE Starts("det")
  <2>1. PICK c : c = Closing(text, at + 1, "/det")
    OBVIOUS
  <2>2. text[at] = "det" /\ ~Starts("ref")
    BY <1>6 DEF Starts
  <2>3. IF c < End(text) /\ HeaderHolds(text, Written(text, at + 1, c), TRUE)
        THEN TakeBlock(Written(text, at + 1, c), c) ELSE Reject
    BY <1>6, <2>1, <2>2 DEF V1Block
  <2>4. CASE c < End(text) /\ HeaderHolds(text, Written(text, at + 1, c), TRUE)
    <3>1. V1Header(text, at, c)
      BY <1>3, <2>4 DEF V1Header
    <3> QED BY <1>3, <1>5, <2>1, <2>2, <2>3, <2>4, <3>1
  <2>5. CASE ~(c < End(text) /\ HeaderHolds(text, Written(text, at + 1, c), TRUE))
    <3>1. V1Stops(text, at)
      BY <1>1, <2>1, <2>2, <2>5 DEF V1Stops
    <3> QED BY <1>4, <2>3, <2>5, <3>1
  <2> QED BY <2>4, <2>5
<1>7. CASE Starts("ref")
  <2>1. PICK l : l = Closing(text, at + 1, "/ref")
    OBVIOUS
  <2>2. PICK o : o = SkipSpace(text, l + 1)
    OBVIOUS
  <2>3. PICK c : c = Closing(text, o + 1, "/det")
    OBVIOUS
  <2>4. text[at] = "ref" /\ ~Starts("det")
    BY <1>7 DEF Starts
  <2> DEFINE fits == /\ l < End(text) /\ IsLabel(text, Written(text, at + 1, l))
                     /\ o < End(text) /\ text[o] = "det"
                     /\ c < End(text) /\ Metadata(text, Written(text, o + 1, c), TRUE)
  <2>5. IF fits THEN TakeBlock(Written(text, o + 1, c), c) ELSE Reject
    BY <1>7, <2>1, <2>2, <2>3, <2>4 DEF V1Block
  <2>6. CASE fits
    <3>1. /\ o \in 1..Len(text) /\ GoodV1(text, o) /\ AfterLabel(text, o)
          /\ \A i \in Marks(text, "det") : i < o <=> i < at
      BY <1>1, <1>3, <2>1, <2>2, <2>4, <2>6, V1LabelReads
    <3>2. V1Header(text, o, c)
      BY <2>6, <3>1 DEF V1Header
    <3>3. TakeBlock(Written(text, o + 1, c), c)
      BY <2>5, <2>6
    <3> QED BY <1>5, <2>3, <2>6, <3>1, <3>2, <3>3
  <2>7. CASE ~fits
    <3>1. V1Stops(text, at)
      BY <1>1, <2>1, <2>2, <2>3, <2>4, <2>7 DEF V1Stops
    <3> QED BY <1>4, <2>5, <2>7, <3>1
  <2> QED BY <2>6, <2>7
<1>8. CASE ~Starts("det") /\ ~Starts("ref")
  <2>1. text[at] \notin {"det", "ref"} /\ Reject
    BY <1>1, <1>8 DEF Starts, V1Block
  <2>2. V1Stops(text, at)
    BY <1>1, <2>1 DEF V1Stops
  <2> QED BY <1>4, <2>1, <2>2
<1> QED BY <1>6, <1>7, <1>8

(* _parse_v1: the end of the text.                                         *)
LEMMA EndV1Keeps == ASSUME ParseInv, EndV1 PROVE ParseInv'
<1>1. verdict = "v1" /\ text \in Texts /\ text \in Seq(Symbols) /\ at = End(text)
  BY TextIs DEF EndV1, ParseInv
<1>2. ReadV1(text, End(text), blocks)
  BY <1>1 DEF ParseInv
<1>3. InFormat(text) /\ <<blocks>> = FormatPages(text)
  BY <1>1, <1>2, V1EndReads
<1>4. InFormat(text') /\ pages' = FormatPages(text')
  BY <1>3 DEF EndV1
<1> QED BY <1>1, <1>4 DEF ParseInv, ParseMatchesFormat, EndV1

(* Where v2 is.                                                            *)
LEMMA V2At ==
  ASSUME ParseInv, verdict = "v2"
  PROVE  /\ text \in Texts /\ text \in Seq(Symbols) /\ ReadV2(text, at, pages, blocks, merging)
         /\ at \in 1..End(text) /\ merging \in BOOLEAN /\ (at < End(text) => at \in 1..Len(text))
<1>1. text \in Texts /\ text \in Seq(Symbols) /\ ReadV2(text, at, pages, blocks, merging)
  BY TextIs DEF ParseInv
<1>2. at \in 1..End(text) /\ merging \in BOOLEAN
  BY <1>1 DEF ReadV2
<1>3. Len(text) \in Nat /\ End(text) = Len(text) + 1
  BY <1>1 DEF End
<1>4. at < End(text) => at \in 1..Len(text)
  BY <1>2, <1>3
<1> QED BY <1>1, <1>2, <1>4

(* What stops the reading is refused.                                      *)
LEMMA V2StopKeeps ==
  ASSUME ParseInv, verdict = "v2", V2Stops(text, at, blocks, merging), Reject
  PROVE  ParseInv'
<1>1. text \in Seq(Symbols) /\ ReadV2(text, at, pages, blocks, merging)
  BY V2At
<1>2. ~InFormat(text)
  BY <1>1, V2StopsOutside
<1> QED BY <1>2, RejectKeeps

(* _parse_v2: <PAGE>.                                                      *)
LEMMA V2PageKeeps == ASSUME ParseInv, V2Page PROVE ParseInv'
<1>1. verdict = "v2" /\ at < End(text) /\ text[at] = "PAGE"
  BY DEF V2Page, Starts
<1>2. /\ text \in Texts /\ text \in Seq(Symbols) /\ ReadV2(text, at, pages, blocks, merging)
      /\ merging \in BOOLEAN /\ at \in 1..Len(text)
  BY <1>1, V2At
<1>3. CASE merging
  <2>1. V2Stops(text, at, blocks, merging) /\ Reject
    BY <1>1, <1>3 DEF V2Stops, V2Page
  <2> QED BY <1>1, <2>1, V2StopKeeps
<1>4. CASE merging = FALSE
  <2>1. ReadV2(text, SkipSpace(text, at + 1), Append(pages, blocks), <<>>, FALSE)
    <3>1. ReadV2(text, at, pages, blocks, FALSE)
      BY <1>2, <1>4
    <3> QED BY <1>1, <1>2, <3>1, V2PageReads
  <2>2. /\ text' = text /\ at' = SkipSpace(text, at + 1) /\ pages' = Append(pages, blocks)
        /\ blocks' = <<>> /\ merging' = FALSE /\ verdict' = verdict
    BY <1>4 DEF V2Page
  <2>3. ReadV2(text', at', pages', blocks', merging')
    BY <2>1, <2>2
  <2> QED BY <1>1, <1>2, <2>2, <2>3 DEF ParseInv, ParseMatchesFormat
<1> QED BY <1>2, <1>3, <1>4

(* _parse_v2: <MERGE>.                                                     *)
LEMMA V2MergeKeeps == ASSUME ParseInv, V2Merge PROVE ParseInv'
<1>1. verdict = "v2" /\ at < End(text) /\ text[at] = "MERGE"
  BY DEF V2Merge, Starts
<1>2. /\ text \in Texts /\ text \in Seq(Symbols) /\ ReadV2(text, at, pages, blocks, merging)
      /\ merging \in BOOLEAN /\ at \in 1..Len(text)
  BY <1>1, V2At
<1>3. CASE blocks = <<>> \/ merging
  <2>1. V2Stops(text, at, blocks, merging) /\ Reject
    BY <1>1, <1>3 DEF V2Stops, V2Merge
  <2> QED BY <1>1, <2>1, V2StopKeeps
<1>4. CASE blocks # <<>> /\ merging = FALSE
  <2>1. ReadV2(text, SkipSpace(text, at + 1), pages, blocks, TRUE)
    <3>1. ReadV2(text, at, pages, blocks, FALSE)
      BY <1>2, <1>4
    <3> QED BY <1>1, <1>2, <1>4, <3>1, V2MergeReads
  <2>2. /\ text' = text /\ at' = SkipSpace(text, at + 1) /\ pages' = pages
        /\ blocks' = blocks /\ merging' = TRUE /\ verdict' = verdict
    BY <1>4 DEF V2Merge
  <2>3. ReadV2(text', at', pages', blocks', merging')
    BY <2>1, <2>2
  <2> QED BY <1>1, <1>2, <2>2, <2>3 DEF ParseInv, ParseMatchesFormat
<1> QED BY <1>2, <1>3, <1>4

(* _parse_v2: <BLOCK>, or its error.                                       *)
LEMMA V2BlockKeeps == ASSUME ParseInv, V2Block PROVE ParseInv'
<1>1. verdict = "v2" /\ at < End(text) /\ text[at] = "BLOCK"
  BY DEF V2Block, Starts
<1>2. /\ text \in Texts /\ text \in Seq(Symbols) /\ ReadV2(text, at, pages, blocks, merging)
      /\ merging \in BOOLEAN /\ at \in 1..Len(text)
  BY <1>1, V2At
<1>3. PICK c : c = Closing(text, at + 1, "FORK")
  OBVIOUS
<1>4. IF c < End(text) /\ HeaderHolds(text, Written(text, at + 1, c), FALSE)
      THEN TakeBlock(Written(text, at + 1, c), c) ELSE Reject
  BY <1>3 DEF V2Block
<1>5. CASE ~(c < End(text) /\ HeaderHolds(text, Written(text, at + 1, c), FALSE))
  <2>1. V2Stops(text, at, blocks, merging)
    BY <1>1, <1>3, <1>5 DEF V2Stops
  <2> QED BY <1>1, <1>4, <1>5, <2>1, V2StopKeeps
<1>6. CASE c < End(text) /\ HeaderHolds(text, Written(text, at + 1, c), FALSE)
  <2>1. PICK n : n = ContentEnd(text, c + 1)
    OBVIOUS
  <2>2. PICK b : b = Block(text, Written(text, at + 1, c), SubSeq(text, c + 1, n - 1), merging)
    OBVIOUS
  <2>3. TakeBlock(Written(text, at + 1, c), c)
    BY <1>4, <1>6
  <2>4. /\ text' = text /\ at' = n /\ pages' = pages
        /\ blocks' = Append(blocks, b) /\ merging' = FALSE /\ verdict' = verdict
    BY <2>1, <2>2, <2>3 DEF TakeBlock
  <2>5. ReadV2(text, n, pages, Append(blocks, b), FALSE)
    BY <1>1, <1>2, <1>3, <1>6, <2>1, <2>2, V2BlockReads
  <2>6. ReadV2(text', at', pages', blocks', merging')
    BY <2>4, <2>5
  <2> QED BY <1>1, <1>2, <2>4, <2>6 DEF ParseInv, ParseMatchesFormat
<1> QED BY <1>5, <1>6

(* _parse_v2: what is no page, block or merge.                             *)
LEMMA V2UnexpectedKeeps == ASSUME ParseInv, V2Unexpected PROVE ParseInv'
<1>1. verdict = "v2" /\ V2Stops(text, at, blocks, merging) /\ Reject
  BY DEF V2Unexpected, V2Stops
<1> QED BY <1>1, V2StopKeeps

(* _parse_v2: the end of the text.                                         *)
LEMMA EndV2Keeps == ASSUME ParseInv, EndV2 PROVE ParseInv'
<1>1. verdict = "v2" /\ at = End(text)
  BY DEF EndV2
<1>2. /\ text \in Texts /\ text \in Seq(Symbols) /\ ReadV2(text, at, pages, blocks, merging)
      /\ merging \in BOOLEAN /\ at \in 1..End(text)
  BY <1>1, V2At
<1>3. CASE merging
  <2>1. ~(at < End(text))
    <3>1. End(text) \in Nat
      BY <1>2 DEF End
    <3> QED BY <1>1, <3>1
  <2>2. V2Stops(text, at, blocks, merging) /\ Reject
    BY <1>3, <2>1 DEF V2Stops, EndV2
  <2> QED BY <1>1, <2>2, V2StopKeeps
<1>4. CASE merging = FALSE
  <2>1. ReadV2(text, End(text), pages, blocks, FALSE)
    BY <1>1, <1>2, <1>4
  <2>2. InFormat(text) /\ Append(pages, blocks) = FormatPages(text)
    BY <1>2, <2>1, V2EndReads
  <2>3. InFormat(text') /\ pages' = FormatPages(text')
    BY <1>4, <2>2 DEF EndV2
  <2> QED BY <1>2, <1>4, <2>3 DEF ParseInv, ParseMatchesFormat, EndV2
<1> QED BY <1>2, <1>3, <1>4

(* Every step of the parser keeps what was read true of the text.          *)
LEMMA ParseKept == ASSUME ParseInv, ParseNext PROVE ParseInv'
<1>1. CASE Parse
  BY <1>1 DEF Parse, ParseInv, ParseMatchesFormat
<1> QED BY <1>1, BeginKeeps, V1BlockKeeps, EndV1Keeps, V2PageKeeps, V2MergeKeeps, V2BlockKeeps,
           V2UnexpectedKeeps, EndV2Keeps DEF ParseNext

(* A call leaves the parser alone until it has returned.                   *)
LEMMA ParseInvKept == ASSUME ParseInv, [Next]_vars PROVE ParseInv'
<1>1. CASE UNCHANGED parseVars
  BY <1>1 DEF parseVars, ParseInv, ParseMatchesFormat
<1>2. ParseNext \/ UNCHANGED parseVars
  <2>1. CASE ParseOutput
    BY <2>1 DEF ParseOutput
  <2>2. CASE UNCHANGED vars
    BY <2>2 DEF vars
  <2>3. CASE Next /\ ~ParseOutput
    BY <2>3 DEF Next, OpenDocument, SavePage, CloseDocument, Prepare, TakeRequest, OpenEngine, Warmup, Generate,
         Decode, Decoded, CloseEngine, Leave, Fail, Unwind, Loading, Others, OutOfParser, Untouched
  <2> QED BY <2>1, <2>2, <2>3
<1> QED BY <1>1, <1>2, ParseKept

(* parse_ocr: for every text, a document exactly when the text is in the   *)
(* format, and then all of it; anything else is an error.                  *)
THEOREM TextsAreParsed == Spec => []ParseMatchesFormat
<1>1. Init => ParseInv
  BY ParseBegins DEF Init
<1>2. ParseInv /\ [Next]_vars => ParseInv'
  BY ParseInvKept
<1>3. ParseInv => ParseMatchesFormat
  BY DEF ParseInv
<1> QED BY <1>1, <1>2, <1>3, PTL DEF Spec
=============================================================================
