--------------------------- MODULE TokenizerCache ---------------------------
(***************************************************************************)
(* The tokenizers the frontend keeps (src/unlimitedocr_c/frontend.py:      *)
(* load_tokenizer, validate_tokenizer).  Several threads load the          *)
(* tokenizer of one path, whose file may be replaced at any time; the lock *)
(* is held for the lookups and the updates and while a hit is checked, not *)
(* while a file is read and checked.                                       *)
(*                                                                         *)
(* A file is known by its identity (device, inode, size, time); one that   *)
(* replaces another has a new identity: the next number.  A tokenizer is   *)
(* the identity of the file it was read from.                              *)
(***************************************************************************)
EXTENDS Integers, Sequences

CONSTANTS
  Lanes,      \* threads
  Contents,   \* what a file may be: v1, v2, or foreign, no tokenizer of either
  MaxFiles    \* bound: files there ever are

VARIABLES
  files,      \* what each file is; the last is at the path now
  cache,      \* _TOKENIZER_CACHE: identity and tokenizer, or 0 and 0
  validated,  \* _TOKENIZER_VALIDATION_CACHE
  load        \* the call of load_tokenizer that a lane makes

tokenizerVars == <<files, cache, validated, load>>

File == Len(files)
Idle == [at |-> "idle"]

TokenizerInit ==
  /\ files \in {<<c>> : c \in Contents \ {"foreign"}}
  /\ cache = [id |-> 0, tokenizer |-> 0]
  /\ validated = {}
  /\ load = [l \in Lanes |-> Idle]

Is(l, place) == load[l].at = place
Go(l, call) == load' = [load EXCEPT ![l] = call]

(* No other lane checks a hit with the lock held. *)
Free(l) == \A k \in Lanes \ {l} : ~((Is(k, "validate") \/ Is(k, "json")) /\ load[k].hit)

Raise(l) == Go(l, [at |-> "raised"]) /\ UNCHANGED <<files, cache, validated>>

(* `want` is the model asked for, or "any". *)
BeginLoad(l, want) ==
  /\ Is(l, "idle")
  /\ Go(l, [at |-> "stat", want |-> want, since |-> File])
  /\ UNCHANGED <<files, cache, validated>>

Stat(l) ==
  /\ Is(l, "stat")
  /\ Go(l, [at |-> "lookup", want |-> load[l].want, since |-> load[l].since,
            id |-> File, hit |-> FALSE, tokenizer |-> 0, key |-> 0])
  /\ UNCHANGED <<files, cache, validated>>

(* A hit is checked only when a model is asked for. *)
Lookup(l) ==
  /\ Is(l, "lookup") /\ Free(l)
  /\ LET hit == cache.id = load[l].id
     IN  Go(l, [load[l] EXCEPT
                  !.hit = hit,
                  !.tokenizer = IF hit THEN cache.tokenizer ELSE 0,
                  !.at = IF ~hit THEN "read"
                         ELSE IF load[l].want = "any" THEN "return" ELSE "validate"])
  /\ UNCHANGED <<files, cache, validated>>

Read(l) ==
  /\ Is(l, "read")
  /\ Go(l, [load[l] EXCEPT !.tokenizer = File, !.at = "validate"])
  /\ UNCHANGED <<files, cache, validated>>

Model(l) == files[load[l].tokenizer]
Checked(l) == IF load[l].hit THEN "return" ELSE "store"

(* The tokenizer's own vocabulary; then its file, unless the file that is  *)
(* at the path by now, the key, was checked before.                        *)
Validate(l) ==
  /\ Is(l, "validate") /\ Free(l)
  /\ IF Model(l) = "foreign" \/ load[l].want \notin {"any", Model(l)}
     THEN Raise(l)
     ELSE /\ Go(l, [load[l] EXCEPT !.key = File,
                                  !.at = IF File \in validated THEN Checked(l) ELSE "json"])
          /\ UNCHANGED <<files, cache, validated>>

(* The file is read once more, whichever it is now: it must have as many   *)
(* added tokens as the tokenizer's model.                                  *)
CheckFile(l) ==
  /\ Is(l, "json") /\ Free(l)
  /\ IF files[File] # Model(l)
     THEN Raise(l)
     ELSE /\ validated' = validated \cup {load[l].key}
          /\ Go(l, [load[l] EXCEPT !.at = Checked(l)])
          /\ UNCHANGED <<files, cache>>

\* mutant: stored for the file that is there now
StoreRestat(l) ==
  /\ Is(l, "store") /\ Free(l)
  /\ cache' = [id |-> File, tokenizer |-> load[l].tokenizer]
  /\ Go(l, [load[l] EXCEPT !.at = "return"])
  /\ UNCHANGED <<files, validated>>

Store(l) ==
  /\ Is(l, "store") /\ Free(l)
  /\ cache' = [id |-> load[l].id, tokenizer |-> load[l].tokenizer]
  /\ Go(l, [load[l] EXCEPT !.at = "return"])
  /\ UNCHANGED <<files, validated>>

EndLoad(l) ==
  /\ Is(l, "return") \/ Is(l, "raised")
  /\ Go(l, Idle)
  /\ UNCHANGED <<files, cache, validated>>

Replace ==
  /\ File < MaxFiles
  /\ \E c \in Contents : files' = Append(files, c)
  /\ UNCHANGED <<cache, validated, load>>

LoadStep(l) ==
  Stat(l) \/ Lookup(l) \/ Read(l) \/ Validate(l) \/ CheckFile(l) \/ Store(l)

(* What load_tokenizer returns was at the path at some moment of the call, *)
(* is a tokenizer of a supported model and of the model asked for: however *)
(* threads overlap and whenever the file is replaced, between taking its   *)
(* identity, reading it and storing it included (frontend.py:              *)
(* load_tokenizer; _download_tokenizer_context speaks of a context that    *)
(* "could silently retain a previous model's tokenizer").                  *)
TokenizerIsCurrent ==
  \A l \in Lanes :
    Is(l, "return") =>
      /\ load[l].since <= load[l].tokenizer /\ load[l].tokenizer <= File
      /\ Model(l) # "foreign" /\ load[l].want \in {"any", Model(l)}
=============================================================================
