--------------------------- MODULE NativeContract ---------------------------
(***************************************************************************)
(* What the C library asks of its callers (include/unlimitedocr.h, the     *)
(* threading contract and the document session contract): operations on    *)
(* one engine are serialized, no operation uses an engine that is not      *)
(* open, the engine is closed only when it is quiet, windows come inside   *)
(* a document session and ordinary generation outside of one.              *)
(***************************************************************************)
CONSTANTS
  Handles,   \* engine pointers
  Callers    \* threads

Kinds == {"generate", "begin", "window", "end", "close"}

VARIABLES
  live,      \* engines that are open
  running,   \* the operations running on each engine
  inSession  \* engines that hold a document session

contractVars == <<live, running, inSession>>

ContractInit ==
  /\ live = {}
  /\ running = [h \in Handles |-> {}]
  /\ inSession = {}

OpenEngine(h) ==
  /\ h \notin live
  /\ live' = live \cup {h}
  /\ UNCHANGED <<running, inSession>>

(* A caller starts an operation on a quiet, open engine.                   *)
StartOperation(h, caller, kind) ==
  /\ h \in live
  /\ running[h] = {}
  /\ kind \in {"generate", "begin", "close"} => h \notin inSession
  /\ running' = [running EXCEPT ![h] = {<<caller, kind>>}]
  /\ UNCHANGED <<live, inSession>>

(* It finishes.  Beginning a session may fail, a failed window ends it.    *)
FinishOperation(h, caller, kind) ==
  /\ running[h] = {<<caller, kind>>}
  /\ running' = [running EXCEPT ![h] = {}]
  /\ live' = IF kind = "close" THEN live \ {h} ELSE live
  /\ CASE kind \in {"close", "end"} -> inSession' = inSession \ {h}
       [] kind = "generate"         -> inSession' = inSession
       [] kind = "begin"            -> inSession' \in {inSession, inSession \cup {h}}
       [] kind = "window"           -> inSession' \in {inSession, inSession \ {h}}

ContractNext ==
  \E h \in Handles :
    \/ OpenEngine(h)
    \/ \E caller \in Callers, kind \in Kinds :
         StartOperation(h, caller, kind) \/ FinishOperation(h, caller, kind)

ContractSpec == ContractInit /\ [][ContractNext]_contractVars
=============================================================================
