---------------------------- MODULE SharedEngine ----------------------------
(***************************************************************************)
(* Threads that share UnlimitedOCR objects (src/unlimitedocr_c/api.py over *)
(* Engine, src/unlimitedocr_c/ffi.py).  Every method takes the object's    *)
(* reentrant lock around engine selection, replacement and the native      *)
(* call; a document stream keeps it while the stream is open, also between *)
(* two chunks, where the thread that consumes the stream may call the      *)
(* object again.                                                           *)
(*                                                                         *)
(* Engine's own lock is taken inside the object's lock and is never        *)
(* contended here.  Images are loaded and results decoded outside the      *)
(* lock, on nothing shared.  What a window computes is DocumentSession's,  *)
(* and the pages of a stream are PageStream's.                             *)
(***************************************************************************)
EXTENDS Naturals

CONSTANTS
  Threads, Objects, Handles,  \* threads, UnlimitedOCR objects, uocr_engine pointers
  NoThread, NoHandle,         \* None
  ObjectOf,                   \* the object a thread uses
  Needs,                      \* capacities calls need, larger ones need a new engine
  MaxCalls,                   \* calls a thread makes
  MaxWindows                  \* windows of a stream

ASSUME SharingConstants ==
  /\ NoThread \notin Threads
  /\ NoHandle \notin Handles
  /\ ObjectOf \in [Threads -> Objects]
  /\ Needs \subseteq Nat \ {0}
  /\ MaxCalls \in Nat
  /\ MaxWindows \in Nat

VARIABLES
  owner, depth,  \* each object's RLock: its owner and recursion count
  engine,        \* _engine, the handle it wraps
  capacity,      \* _engine_*_capacity
  docActive,     \* _document_active
  live,          \* native engines that are open
  session,       \* native engines that hold a document session
  text,          \* last_error of each native engine
  globalText,    \* g_last_error of each thread

  pc,            \* where each thread is in its call
  op, need,      \* what the call is, and the capacity it needs
  chosen,        \* the engine the call works with
  using,         \* the engine of the native call it is in
  paused,        \* the thread has a stream suspended at its yield
  windows,       \* windows that stream has decoded
  calls,         \* calls the thread has made
  raised         \* error texts the current call has raised with

lockVars   == <<owner, depth>>
objectVars == <<engine, capacity, docActive>>
nativeVars == <<live, session, text, globalText>>
callVars   == <<op, need, chosen, using, paused, windows, calls, raised>>
vars       == <<lockVars, objectVars, nativeVars, pc, callVars>>

Ops == {"generate", "close", "stream"}
NativeKind ==
  [close |-> "close", call |-> "generate", begin |-> "begin", window |-> "window", end |-> "end"]
Failures == {"openFailed", "callFailed", "beginFailed", "windowFailed"}

(* An error text is named by the call that wrote it.                       *)
OkText == <<NoThread, 0>>
OwnText(t) == <<t, calls[t]>>

(* g_last_error is thread-local.                                           *)
TextSlot(t) == t

-----------------------------------------------------------------------------
(* A method is called, by a thread that is in none or by the consumer of   *)
(* its own stream.                                                         *)
Call(t, o, n) ==
  /\ pc[t] = "idle"
  /\ calls[t] < MaxCalls
  /\ n = 0 <=> o = "close"
  /\ pc' = [pc EXCEPT ![t] = "acquire"]
  /\ calls' = [calls EXCEPT ![t] = @ + 1]
  /\ op' = [op EXCEPT ![t] = o]
  /\ need' = [need EXCEPT ![t] = n]
  /\ raised' = [raised EXCEPT ![t] = {}]
  /\ UNCHANGED <<lockVars, objectVars, nativeVars, chosen, using, paused, windows>>

(* Defective variant: a lock that is not reentrant.                        *)
MayAcquireOnce(t) == owner[ObjectOf[t]] = NoThread

MayAcquire(t) == owner[ObjectOf[t]] \in {NoThread, t}

Acquire(t) ==
  /\ pc[t] = "acquire"
  /\ MayAcquire(t)
  /\ owner' = [owner EXCEPT ![ObjectOf[t]] = t]
  /\ depth' = [depth EXCEPT ![ObjectOf[t]] = @ + 1]
  /\ pc' = [pc EXCEPT ![t] = "enter"]
  /\ UNCHANGED <<objectVars, nativeVars, callVars>>

(* Defective variant: gives up more than it took.                          *)
LevelsReleasedTwice == 2

LevelsReleased == 1

Release(t) ==
  LET o == ObjectOf[t] IN
  /\ pc[t] = "leave"
  /\ depth' = [depth EXCEPT ![o] = @ - LevelsReleased]
  /\ owner' = [owner EXCEPT ![o] = IF depth'[o] = 0 THEN NoThread ELSE @]
  /\ pc' = [pc EXCEPT ![t] = "idle"]
  /\ op' = [op EXCEPT ![t] = "none"]
  /\ need' = [need EXCEPT ![t] = 0]
  /\ chosen' = [chosen EXCEPT ![t] = IF paused[t] THEN @ ELSE NoHandle]
  /\ UNCHANGED <<objectVars, nativeVars, using, paused, windows, calls, raised>>

-----------------------------------------------------------------------------
(* Engine selection.                                                       *)

(* Defective variant: an open document does not refuse other calls.        *)
RefusedNever(t) == FALSE

(* generate, close and stream_pages raise while a document is open.        *)
Refused(t) == docActive[ObjectOf[t]]

EngineFits(t) ==
  /\ engine[ObjectOf[t]] # NoHandle
  /\ need[t] <= capacity[ObjectOf[t]]

(* The call goes on with engine h; a stream marks its document first.      *)
WorkWith(t, h) ==
  /\ chosen' = [chosen EXCEPT ![t] = h]
  /\ pc' = [pc EXCEPT ![t] = IF op[t] = "generate" THEN "call" ELSE "begin"]
  /\ docActive' = [docActive EXCEPT ![ObjectOf[t]] = op[t] = "stream"]
  /\ windows' = [windows EXCEPT ![t] = 0]

(* Defective variant: opens the larger engine beside the old one.          *)
ReplacementBeside(o) == "open"

(* close, then _open_engine.                                               *)
Replacement(o) == IF engine[o] = NoHandle THEN "open" ELSE "close"

Enter(t) ==
  LET o == ObjectOf[t] IN
  /\ pc[t] = "enter"
  /\ \/ /\ Refused(t) \/ (op[t] = "close" /\ engine[o] = NoHandle)
        /\ pc' = [pc EXCEPT ![t] = "leave"]
        /\ UNCHANGED <<docActive, chosen, windows>>
     \/ /\ ~Refused(t)
        /\ op[t] = "close" /\ engine[o] # NoHandle
        /\ pc' = [pc EXCEPT ![t] = "close"]
        /\ UNCHANGED <<docActive, chosen, windows>>
     \/ /\ ~Refused(t)
        /\ op[t] # "close" /\ ~EngineFits(t)
        /\ pc' = [pc EXCEPT ![t] = Replacement(o)]
        /\ UNCHANGED <<docActive, chosen, windows>>
     \/ /\ ~Refused(t)
        /\ op[t] # "close" /\ EngineFits(t)
        /\ WorkWith(t, engine[o])
  /\ UNCHANGED <<lockVars, engine, capacity, nativeVars, op, need, using, paused, calls, raised>>

(* Engine(...): uocr_engine_open returns a pointer, or null with the reason *)
(* in the calling thread's error text.                                     *)
OpenEngine(t) ==
  /\ pc[t] = "open"
  /\ \/ \E h \in Handles \ live :
          /\ live' = live \cup {h}
          /\ engine' = [engine EXCEPT ![ObjectOf[t]] = h]
          /\ capacity' = [capacity EXCEPT ![ObjectOf[t]] = need[t]]
          /\ text' = [text EXCEPT ![h] = OkText]
          /\ globalText' = [globalText EXCEPT ![TextSlot(t)] = OkText]
          /\ WorkWith(t, h)
     \/ /\ globalText' = [globalText EXCEPT ![TextSlot(t)] = OwnText(t)]
        /\ pc' = [pc EXCEPT ![t] = "openFailed"]
        /\ UNCHANGED <<live, engine, capacity, text, chosen, docActive, windows>>
  /\ UNCHANGED <<lockVars, session, op, need, using, paused, calls, raised>>

-----------------------------------------------------------------------------
(* Native calls.                                                           *)

StartNative(t) ==
  /\ pc[t] \in DOMAIN NativeKind
  /\ using[t] = NoHandle
  /\ using' = [using EXCEPT ![t] = IF pc[t] = "close" THEN engine[ObjectOf[t]] ELSE chosen[t]]
  /\ UNCHANGED <<lockVars, objectVars, nativeVars, pc, op, need, chosen, paused, windows,
                 calls, raised>>

Returns(t, kind) ==
  /\ pc[t] = kind
  /\ using[t] # NoHandle
  /\ using' = [using EXCEPT ![t] = NoHandle]

Succeeds(t) ==
  /\ text' = [text EXCEPT ![using[t]] = OkText]
  /\ globalText' = [globalText EXCEPT ![TextSlot(t)] = OkText]

FailsIn(t, where) ==
  /\ text' = [text EXCEPT ![using[t]] = OwnText(t)]
  /\ globalText' = [globalText EXCEPT ![TextSlot(t)] = OwnText(t)]
  /\ pc' = [pc EXCEPT ![t] = where]

FinishClose(t) ==
  /\ Returns(t, "close")
  /\ live' = live \ {using[t]}
  /\ session' = session \ {using[t]}
  /\ engine' = [engine EXCEPT ![ObjectOf[t]] = NoHandle]
  /\ capacity' = [capacity EXCEPT ![ObjectOf[t]] = 0]
  /\ text' = [text EXCEPT ![using[t]] = OkText]
  /\ pc' = [pc EXCEPT ![t] = IF op[t] = "close" THEN "leave" ELSE "open"]
  /\ UNCHANGED <<lockVars, docActive, globalText, op, need, chosen, paused, windows,
                 calls, raised>>

FinishCall(t) ==
  /\ Returns(t, "call")
  /\ \/ Succeeds(t) /\ pc' = [pc EXCEPT ![t] = "leave"]
     \/ FailsIn(t, "callFailed")
  /\ UNCHANGED <<lockVars, objectVars, live, session, op, need, chosen, paused, windows,
                 calls, raised>>

FinishBegin(t) ==
  /\ Returns(t, "begin")
  /\ \/ /\ Succeeds(t)
        /\ session' = session \cup {using[t]}
        /\ pc' = [pc EXCEPT ![t] = "window"]
     \/ FailsIn(t, "beginFailed") /\ UNCHANGED session
  /\ UNCHANGED <<lockVars, objectVars, live, op, need, chosen, paused, windows, calls, raised>>

(* A decoded window suspends the generator at its yield; a failed one has  *)
(* ended the native session.                                               *)
FinishWindow(t) ==
  /\ Returns(t, "window")
  /\ \/ /\ Succeeds(t)
        /\ pc' = [pc EXCEPT ![t] = "idle"]
        /\ paused' = [paused EXCEPT ![t] = TRUE]
        /\ windows' = [windows EXCEPT ![t] = @ + 1]
        /\ op' = [op EXCEPT ![t] = "none"]
        /\ need' = [need EXCEPT ![t] = 0]
        /\ UNCHANGED session
     \/ /\ FailsIn(t, "windowFailed")
        /\ session' = session \ {using[t]}
        /\ UNCHANGED <<paused, windows, op, need>>
  /\ UNCHANGED <<lockVars, objectVars, live, chosen, calls, raised>>

(* The finally clauses of Engine.document and of stream_pages.             *)
FinishEnd(t) ==
  /\ Returns(t, "end")
  /\ session' = session \ {using[t]}
  /\ docActive' = [docActive EXCEPT ![ObjectOf[t]] = FALSE]
  /\ pc' = [pc EXCEPT ![t] = "leave"]
  /\ UNCHANGED <<lockVars, engine, capacity, live, text, globalText, op, need, chosen, paused,
                 windows, calls, raised>>

(* Defective variant: a failing engine constructor reads the text of the   *)
(* engine it was to replace.                                               *)
ErrorTextOfEngine(t) == IF chosen[t] = NoHandle THEN OkText ELSE text[chosen[t]]

ErrorText(t) == IF pc[t] = "openFailed" THEN globalText[TextSlot(t)] ELSE text[chosen[t]]

(* The exception is built from last_error, still under the lock.           *)
RaiseError(t) ==
  /\ pc[t] \in Failures
  /\ raised' = [raised EXCEPT ![t] = @ \cup {ErrorText(t)}]
  /\ pc' = [pc EXCEPT ![t] = IF pc[t] = "windowFailed" THEN "end" ELSE "leave"]
  /\ docActive' = [docActive EXCEPT ![ObjectOf[t]] = pc[t] = "windowFailed"]
  /\ UNCHANGED <<lockVars, engine, capacity, nativeVars, op, need, chosen, using, paused,
                 windows, calls>>

(* next(chunks), with pages left or not, and chunks.close().               *)
Resume(t) ==
  /\ pc[t] = "idle"
  /\ paused[t]
  /\ paused' = [paused EXCEPT ![t] = FALSE]
  /\ op' = [op EXCEPT ![t] = "stream"]
  /\ \/ windows[t] < MaxWindows /\ pc' = [pc EXCEPT ![t] = "window"]
     \/ pc' = [pc EXCEPT ![t] = "end"]
  /\ UNCHANGED <<lockVars, objectVars, nativeVars, need, chosen, using, windows, calls, raised>>

-----------------------------------------------------------------------------
Init ==
  /\ owner = [o \in Objects |-> NoThread]
  /\ depth = [o \in Objects |-> 0]
  /\ engine = [o \in Objects |-> NoHandle]
  /\ capacity = [o \in Objects |-> 0]
  /\ docActive = [o \in Objects |-> FALSE]
  /\ live = {}
  /\ session = {}
  /\ text = [h \in Handles |-> OkText]
  /\ globalText = [t \in Threads |-> OkText]
  /\ pc = [t \in Threads |-> "idle"]
  /\ op = [t \in Threads |-> "none"]
  /\ need = [t \in Threads |-> 0]
  /\ chosen = [t \in Threads |-> NoHandle]
  /\ using = [t \in Threads |-> NoHandle]
  /\ paused = [t \in Threads |-> FALSE]
  /\ windows = [t \in Threads |-> 0]
  /\ calls = [t \in Threads |-> 0]
  /\ raised = [t \in Threads |-> {}]

Step(t) ==
  \/ Acquire(t)
  \/ Enter(t)
  \/ OpenEngine(t)
  \/ StartNative(t)
  \/ FinishClose(t)
  \/ FinishCall(t)
  \/ FinishBegin(t)
  \/ FinishWindow(t)
  \/ FinishEnd(t)
  \/ RaiseError(t)
  \/ Release(t)

Next ==
  \E t \in Threads :
    \/ \E o \in Ops, n \in Needs \cup {0} : Call(t, o, n)
    \/ Step(t)
    \/ Resume(t)

Spec == Init /\ [][Next]_vars

(* Python runs every thread that can run, native calls return, and a       *)
(* stream's consumer goes on with it or closes it, as README.md:115-117    *)
(* asks.  An RLock is not fair: a thread that waits is served because the  *)
(* others make finitely many calls.                                        *)
FairSpec == Spec /\ \A t \in Threads : WF_vars(Step(t)) /\ WF_vars(Resume(t))

-----------------------------------------------------------------------------
(* Type invariant of the shared objects and their threads.                 *)
SharedTypeOK ==
  /\ owner \in [Objects -> Threads \cup {NoThread}]
  /\ depth \in [Objects -> Nat]
  /\ engine \in [Objects -> Handles \cup {NoHandle}]
  /\ capacity \in [Objects -> Needs \cup {0}]
  /\ docActive \in [Objects -> BOOLEAN]
  /\ live \subseteq Handles
  /\ session \subseteq Handles
  /\ {text[h] : h \in Handles} \cup {globalText[t] : t \in Threads}
       \subseteq (Threads \cup {NoThread}) \X (0..MaxCalls)
  /\ pc \in [Threads -> {"idle", "acquire", "enter", "open", "leave"}
                          \cup DOMAIN NativeKind \cup Failures]
  /\ op \in [Threads -> Ops \cup {"none"}]
  /\ need \in [Threads -> Needs \cup {0}]
  /\ {chosen, using} \subseteq [Threads -> Handles \cup {NoHandle}]
  /\ paused \in [Threads -> BOOLEAN]
  /\ {windows, calls} \subseteq [Threads -> Nat]

(* Frames of a thread that are inside the object's lock: its call, and the *)
(* stream it has suspended.                                                *)
Frames(t) ==
  (IF paused[t] THEN 1 ELSE 0) + (IF pc[t] \in {"idle", "acquire"} THEN 0 ELSE 1)

(* The lock is held once per frame of its owner and by nobody else, so it  *)
(* is free whenever no call and no stream is under way: neither a refused  *)
(* nested call nor a failed one keeps or loses a level.                    *)
LockBalanced ==
  \A t \in Threads :
    Frames(t) = IF owner[ObjectOf[t]] = t THEN depth[ObjectOf[t]] ELSE 0

(* Replacing and closing never leak a native engine or leave an object     *)
(* with a pointer to one that is closed, and a native session never        *)
(* outlives the document that opened it.                                   *)
EnginesAccounted ==
  /\ live = {engine[o] : o \in Objects} \ {NoHandle}
  /\ \A o \in Objects : engine[o] \in session => docActive[o]

(* A native call is on an open engine, and no other thread is in a call on *)
(* that engine.                                                            *)
Exclusion ==
  \A t, u \in Threads :
    t # u /\ using[t] # NoHandle => using[t] \in live /\ using[u] # using[t]

(* Lock, engines and native calls together.                                *)
SharingSafe == LockBalanced /\ EnginesAccounted /\ Exclusion

(* The text a call raises is the one its own failure wrote, however other  *)
(* threads fail at the same time (docs/plan_threadsafe.md, "Engine         *)
(* captures native error text while it still owns the object lock").       *)
ErrorsPaired == \A t \in Threads : raised[t] \subseteq {OwnText(t)}

(* The calls that reach the native library keep its contract.              *)
Contract ==
  INSTANCE NativeContract WITH
    Callers <- Threads,
    inSession <- session,
    running <- [h \in Handles |->
                  {<<t, NativeKind[pc[t]]>> : t \in {u \in Threads : using[u] = h}}]

HonoursContract == Contract!ContractSpec

(* Every call comes back, refused, failed or served; a nested call from a  *)
(* stream's consumer too.                                                  *)
CallsReturn == \A t \in Threads : pc[t] = "acquire" ~> pc[t] = "idle"
=============================================================================
