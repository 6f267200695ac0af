-------------------------- MODULE SharedEngineProofs --------------------------
(***************************************************************************)
(* For any number of threads, objects and engines: the lock of an object   *)
(* is balanced, threads exclude each other from its engine, and no engine  *)
(* leaks.  LockInv and EngineInv are the inductive strengthenings.         *)
(*                                                                         *)
(* The text a call raises is the one its own failure wrote.  Other threads *)
(* overwrite only the texts of other engines, because the thread that      *)
(* failed still owns the lock of its object when it reads the text.        *)
(* PairInv is the strengthening.                                           *)
(***************************************************************************)
EXTENDS SharedEngine, TLAPS

Outside == {"idle", "acquire"}
Streaming == {"begin", "window", "end", "windowFailed"}
PCs == {"idle", "acquire", "enter", "open", "leave", "close", "call", "begin", "window", "end",
        "openFailed", "callFailed", "beginFailed", "windowFailed"}

LockTypes ==
  /\ owner \in [Objects -> Threads \cup {NoThread}]
  /\ depth \in [Objects -> Nat]
  /\ docActive \in [Objects -> BOOLEAN]
  /\ pc \in [Threads -> PCs]
  /\ op \in [Threads -> Ops \cup {"none"}]
  /\ paused \in [Threads -> BOOLEAN]

(* A thread with a suspended stream is at most in a nested call that is    *)
(* refused, because the stream's document stays active.                    *)
PausedAt(t) ==
  paused[t] => pc[t] \in {"idle", "acquire", "enter", "leave"} /\ docActive[ObjectOf[t]] = TRUE

StreamingAt(t) ==
  /\ pc[t] \in Streaming => docActive[ObjectOf[t]] = TRUE
  /\ pc[t] \in {"acquire", "enter", "close"} => op[t] \in Ops
  /\ pc[t] = "open" => op[t] \in {"generate", "stream"}

FreeIsUnheld == \A o \in Objects : owner[o] = NoThread => depth[o] = 0

LockInv ==
  /\ LockTypes
  /\ LockBalanced
  /\ FreeIsUnheld
  /\ \A t \in Threads : PausedAt(t) /\ StreamingAt(t)

EngineTypes ==
  /\ engine \in [Objects -> Handles \cup {NoHandle}]
  /\ {chosen, using} \subseteq [Threads -> Handles \cup {NoHandle}]
  /\ live \subseteq Handles
  /\ session \subseteq live

(* The engines of the objects are distinct.                                *)
EnginesDistinct ==
  \A o, u \in Objects : o # u /\ engine[o] # NoHandle => engine[o] # engine[u]

(* A call works with the engine its object has, and uses no other.         *)
WorkingAt(t) ==
  /\ pc[t] \in {"call", "begin", "window", "end", "windowFailed"} \/ paused[t] =>
       chosen[t] = engine[ObjectOf[t]] /\ engine[ObjectOf[t]] # NoHandle
  /\ pc[t] = "close" => engine[ObjectOf[t]] # NoHandle
  /\ pc[t] = "open" => engine[ObjectOf[t]] = NoHandle
  /\ using[t] # NoHandle => pc[t] \in DOMAIN NativeKind /\ using[t] = engine[ObjectOf[t]]

(* A native session is not begun yet, or not any more.                     *)
Unbegun == {"open", "openFailed", "close", "call", "callFailed", "begin", "beginFailed"}
UnbegunAt(t) == pc[t] \in Unbegun => engine[ObjectOf[t]] \notin session

EngineInv ==
  /\ EngineTypes
  /\ EnginesDistinct
  /\ EnginesAccounted
  /\ \A t \in Threads : WorkingAt(t) /\ UnbegunAt(t)

-----------------------------------------------------------------------------
(* The lock.  A step of thread t changes only t and t's object.            *)
OthersUnchanged(t) ==
  /\ \A u \in Threads \ {t} : pc'[u] = pc[u] /\ op'[u] = op[u] /\ paused'[u] = paused[u]
  /\ \A o \in Objects \ {ObjectOf[t]} : docActive'[o] = docActive[o]

(* A thread inside a call, or with a suspended stream, owns the lock.      *)
LEMMA InsideOwns ==
  ASSUME LockInv, NEW t \in Threads, pc[t] \notin Outside \/ paused[t] = TRUE
  PROVE  owner[ObjectOf[t]] = t
<1>1. Frames(t) # 0
  BY DEF Frames, Outside, LockInv, LockTypes
<1> QED
  BY <1>1 DEF LockInv, LockBalanced

(* And the others that use its object are outside.                         *)
LEMMA OthersOutside ==
  ASSUME LockInv, NEW t \in Threads, NEW u \in Threads, owner[ObjectOf[u]] # u
  PROVE  pc[u] \in Outside /\ paused[u] = FALSE
<1>1. pc[u] \in Outside
  BY InsideOwns
<1>2. paused[u] # TRUE
  BY InsideOwns
<1>3. paused[u] \in BOOLEAN
  BY DEF LockInv, LockTypes
<1> QED
  BY <1>1, <1>2, <1>3

(* The invariants of the other threads survive a step that changes the     *)
(* document flag of t's object only while t owns its lock.                 *)
LEMMA OthersKept ==
  ASSUME LockInv, NEW t \in Threads, OthersUnchanged(t),
         owner[ObjectOf[t]] = t \/ docActive' = docActive,
         NEW u \in Threads \ {t}
  PROVE  PausedAt(u)' /\ StreamingAt(u)'
<1>1. pc'[u] = pc[u] /\ op'[u] = op[u] /\ paused'[u] = paused[u]
  BY DEF OthersUnchanged
<1>2. PausedAt(u) /\ StreamingAt(u)
  BY DEF LockInv
<1>3. CASE docActive' = docActive
  BY <1>1, <1>2, <1>3 DEF PausedAt, StreamingAt
<1>4. CASE owner[ObjectOf[t]] = t /\ ObjectOf[u] = ObjectOf[t]
  <2>1. pc[u] \in Outside /\ paused[u] = FALSE
    BY <1>4, OthersOutside
  <2> QED
    BY <2>1, <1>1, <1>2 DEF PausedAt, StreamingAt, Outside, Streaming
<1>5. CASE ObjectOf[u] # ObjectOf[t]
  <2>1. docActive'[ObjectOf[u]] = docActive[ObjectOf[u]]
    BY <1>5, SharingConstants DEF OthersUnchanged
  <2> QED
    BY <2>1, <1>1, <1>2 DEF PausedAt, StreamingAt
<1> QED
  BY <1>3, <1>4, <1>5

(* A step that leaves the lock alone and keeps the frames of its thread.   *)
LEMMA LockLeftAlone ==
  ASSUME LockInv, NEW t \in Threads, OthersUnchanged(t), LockTypes',
         UNCHANGED lockVars, Frames(t)' = Frames(t),
         owner[ObjectOf[t]] = t \/ docActive' = docActive,
         PausedAt(t)', StreamingAt(t)'
  PROVE  LockInv'
<1>1. ASSUME NEW u \in Threads PROVE Frames(u)' = Frames(u)
  BY DEF OthersUnchanged, Frames
<1>2. LockBalanced'
  BY <1>1 DEF LockInv, LockBalanced, lockVars
<1>3. FreeIsUnheld'
  BY DEF LockInv, FreeIsUnheld, lockVars
<1>4. ASSUME NEW u \in Threads PROVE PausedAt(u)' /\ StreamingAt(u)'
  BY OthersKept
<1> QED
  BY <1>2, <1>3, <1>4 DEF LockInv

(* How the steps of a call keep the lock's invariant.                      *)
LEMMA CallLock ==
  ASSUME LockInv, NEW t \in Threads, NEW o \in Ops, NEW n, Call(t, o, n)
  PROVE  LockInv'
<1>1. OthersUnchanged(t) /\ LockTypes' /\ UNCHANGED lockVars /\ docActive' = docActive
  BY DEF Call, OthersUnchanged, LockTypes, LockInv, PCs, Ops, lockVars, objectVars, nativeVars
<1>2. pc[t] = "idle" /\ pc'[t] = "acquire" /\ op'[t] = o /\ paused'[t] = paused[t]
  BY DEF Call, LockTypes, LockInv
<1>3. Frames(t)' = Frames(t)
  BY <1>2 DEF Frames
<1>4. PausedAt(t)' /\ StreamingAt(t)'
  BY <1>1, <1>2 DEF LockInv, PausedAt, StreamingAt, Streaming
<1> QED
  BY <1>1, <1>3, <1>4, LockLeftAlone

(* Acquiring adds one level and one frame, for the owner or on a free      *)
(* lock.                                                                   *)
LEMMA AcquireLock ==
  ASSUME LockInv, NEW t \in Threads, Acquire(t)
  PROVE  LockInv'
<1> DEFINE x == ObjectOf[t]
<1>1. x \in Objects
  BY SharingConstants
<1>2. OthersUnchanged(t) /\ LockTypes' /\ docActive' = docActive /\ op' = op /\ paused' = paused
  BY <1>1 DEF Acquire, OthersUnchanged, LockTypes, LockInv, PCs, objectVars, callVars
<1>3. pc[t] = "acquire" /\ pc'[t] = "enter"
  BY DEF Acquire, LockTypes, LockInv
<1>4. owner'[x] = t /\ depth'[x] = depth[x] + 1 /\ owner[x] \in {NoThread, t}
  BY <1>1 DEF Acquire, MayAcquire, LockTypes, LockInv
<1>5. \A z \in Objects \ {x} : owner'[z] = owner[z] /\ depth'[z] = depth[z]
  BY DEF Acquire, LockTypes, LockInv
<1>6. Frames(t)' = Frames(t) + 1 /\ Frames(t) = depth[x]
  <2>1. Frames(t)' = Frames(t) + 1
    BY <1>2, <1>3 DEF Frames
  <2>2. Frames(t) = depth[x]
    BY <1>1, <1>4, SharingConstants DEF LockInv, LockBalanced, FreeIsUnheld
  <2> QED
    BY <2>1, <2>2
<1>7. ASSUME NEW u \in Threads
      PROVE  Frames(u)' = IF owner'[ObjectOf[u]] = u THEN depth'[ObjectOf[u]] ELSE 0
  <2>1. CASE u = t
    BY <2>1, <1>4, <1>6
  <2>2. CASE u # t /\ ObjectOf[u] = x
    <3>1. Frames(u)' = Frames(u)
      BY <2>2, <1>2 DEF Frames, OthersUnchanged
    <3>2. owner[ObjectOf[u]] # u /\ owner'[ObjectOf[u]] # u
      BY <2>2, <1>4, SharingConstants
    <3> QED
      BY <3>1, <3>2 DEF LockInv, LockBalanced
  <2>3. CASE ObjectOf[u] # x
    <3>1. Frames(u)' = Frames(u)
      BY <2>3, <1>2 DEF Frames, OthersUnchanged
    <3>2. ObjectOf[u] \in Objects \ {x}
      BY <2>3, SharingConstants
    <3> QED
      BY <3>1, <3>2, <1>5 DEF LockInv, LockBalanced
  <2> QED
    BY <2>1, <2>2, <2>3
<1>8. LockBalanced'
  BY <1>7 DEF LockBalanced
<1>9. FreeIsUnheld'
  BY <1>4, <1>5, SharingConstants DEF LockInv, FreeIsUnheld
<1>10. ASSUME NEW u \in Threads PROVE PausedAt(u)' /\ StreamingAt(u)'
  <2>1. CASE u = t
    BY <2>1, <1>2, <1>3 DEF LockInv, PausedAt, StreamingAt, Streaming
  <2> QED
    BY <2>1, <1>2, OthersKept
<1> QED
  BY <1>2, <1>8, <1>9, <1>10 DEF LockInv

(* Releasing gives back the level of the frame that ends, and the lock     *)
(* with the last one.                                                      *)
LEMMA ReleaseLock ==
  ASSUME LockInv, NEW t \in Threads, Release(t)
  PROVE  LockInv'
<1> DEFINE x == ObjectOf[t]
<1>1. x \in Objects
  BY SharingConstants
<1>2. pc[t] = "leave" /\ pc'[t] = "idle" /\ paused' = paused /\ docActive' = docActive
  BY DEF Release, LockTypes, LockInv, objectVars
<1>3. owner[x] = t /\ depth[x] = Frames(t) /\ Frames(t) \in {1, 2}
  <2>1. Frames(t) \in {1, 2}
    BY <1>2 DEF Frames
  <2>2. owner[x] = t
    BY <1>2, InsideOwns DEF Outside
  <2> QED
    BY <2>1, <2>2 DEF LockInv, LockBalanced
<1>4. depth'[x] = depth[x] - 1 /\ owner'[x] = IF depth'[x] = 0 THEN NoThread ELSE t
  BY <1>1, <1>3 DEF Release, LevelsReleased, LockTypes, LockInv
<1>5. \A z \in Objects \ {x} : owner'[z] = owner[z] /\ depth'[z] = depth[z]
  BY DEF Release, LockTypes, LockInv
<1>6. OthersUnchanged(t)
  BY <1>2 DEF Release, OthersUnchanged, LockTypes, LockInv
<1>7. LockTypes'
  <2>1. depth' \in [Objects -> Nat]
    BY <1>1, <1>3 DEF Release, LevelsReleased, LockTypes, LockInv
  <2>2. owner' \in [Objects -> Threads \cup {NoThread}]
    BY <1>1 DEF Release, LockTypes, LockInv
  <2> QED
    BY <2>1, <2>2, <1>2 DEF Release, LockTypes, LockInv, PCs, Ops
<1>8. Frames(t)' = Frames(t) - 1
  BY <1>2 DEF Frames
<1>9. ASSUME NEW u \in Threads
      PROVE  Frames(u)' = IF owner'[ObjectOf[u]] = u THEN depth'[ObjectOf[u]] ELSE 0
  <2>1. CASE u = t
    <3>1. Frames(t)' = depth'[x]
      BY <1>3, <1>4, <1>8
    <3>2. depth'[x] # 0 => owner'[x] = t
      BY <1>4
    <3> QED
      BY <2>1, <3>1, <3>2, SharingConstants
  <2>2. CASE u # t /\ ObjectOf[u] = x
    <3>1. Frames(u)' = Frames(u)
      BY <2>2, <1>2, <1>6 DEF Frames, OthersUnchanged
    <3>2. owner[ObjectOf[u]] # u /\ owner'[ObjectOf[u]] # u
      BY <2>2, <1>3, <1>4, SharingConstants
    <3> QED
      BY <3>1, <3>2 DEF LockInv, LockBalanced
  <2>3. CASE ObjectOf[u] # x
    <3>1. Frames(u)' = Frames(u)
      BY <2>3, <1>2, <1>6 DEF Frames, OthersUnchanged
    <3>2. ObjectOf[u] \in Objects \ {x}
      BY <2>3, SharingConstants
    <3> QED
      BY <3>1, <3>2, <1>5 DEF LockInv, LockBalanced
  <2> QED
    BY <2>1, <2>2, <2>3
<1>10. LockBalanced'
  BY <1>9 DEF LockBalanced
<1>11. FreeIsUnheld'
  <2>1. ASSUME NEW z \in Objects, owner'[z] = NoThread PROVE depth'[z] = 0
    BY <2>1, <1>4, <1>5, SharingConstants DEF LockInv, FreeIsUnheld
  <2> QED
    BY <2>1 DEF FreeIsUnheld
<1>12. ASSUME NEW u \in Threads PROVE PausedAt(u)' /\ StreamingAt(u)'
  <2>1. CASE u = t
    BY <2>1, <1>2 DEF LockInv, PausedAt, StreamingAt, Streaming
  <2> QED
    BY <2>1, <1>2, <1>6, OthersKept
<1> QED
  BY <1>7, <1>10, <1>11, <1>12 DEF LockInv

(* Every other step is taken inside the lock, by a call or by the consumer *)
(* of a suspended stream, and leaves the lock alone.                       *)
InsideStep(t) ==
  \/ Enter(t) \/ OpenEngine(t) \/ StartNative(t) \/ RaiseError(t) \/ Resume(t)
  \/ FinishClose(t) \/ FinishCall(t) \/ FinishBegin(t) \/ FinishWindow(t) \/ FinishEnd(t)

(* Steps inside the lock keep its invariant.                               *)
LEMMA InsideLock ==
  ASSUME LockInv, NEW t \in Threads, InsideStep(t)
  PROVE  LockInv'
<1> USE DEF InsideStep, Enter, WorkWith, Refused, Replacement, OpenEngine, StartNative, RaiseError,
            Resume, Returns, FailsIn, FinishClose, FinishCall, FinishBegin, FinishWindow, FinishEnd
<1>1. ObjectOf[t] \in Objects /\ UNCHANGED lockVars
  BY SharingConstants
<1>2. owner[ObjectOf[t]] = t
  BY InsideOwns DEF Outside, NativeKind, Failures
<1>3. OthersUnchanged(t)
  BY <1>1 DEF OthersUnchanged, objectVars, callVars, LockTypes, LockInv
<1>4. LockTypes'
  BY <1>1 DEF LockTypes, LockInv, PCs, Ops, lockVars, objectVars, callVars
<1>5. \/ pc'[t] \notin Outside /\ paused'[t] = paused[t] /\ pc[t] \notin Outside
      \/ pc'[t] = "idle" /\ paused'[t] = TRUE /\ pc[t] = "window"
      \/ pc'[t] \in {"window", "end"} /\ paused'[t] = FALSE /\ pc[t] = "idle" /\ paused[t] = TRUE
  BY <1>1 DEF LockInv, LockTypes, Outside, NativeKind, Failures, objectVars, callVars
<1> USE DEF objectVars, callVars, LockInv, LockTypes, PausedAt, StreamingAt, Streaming, NativeKind,
            Failures, Ops
<1>6. PausedAt(t)' /\ StreamingAt(t)'
  <2>1. CASE Enter(t)
    BY <1>1, <2>1
  <2>2. CASE OpenEngine(t) \/ StartNative(t)
    BY <1>1, <2>2
  <2>3. CASE RaiseError(t) \/ Resume(t)
    BY <1>1, <2>3
  <2>4. CASE FinishClose(t) \/ FinishCall(t)
    BY <1>1, <2>4
  <2>5. CASE FinishBegin(t) \/ FinishWindow(t)
    BY <1>1, <2>5
  <2>6. CASE FinishEnd(t)
    BY <1>1, <2>6
  <2> QED
    BY <2>1, <2>2, <2>3, <2>4, <2>5, <2>6
<1> HIDE DEF InsideStep, Enter, WorkWith, Refused, Replacement, OpenEngine, StartNative, RaiseError,
             Resume, Returns, FailsIn, FinishClose, FinishCall, FinishBegin, FinishWindow, FinishEnd
<1>7. Frames(t)' = Frames(t)
  BY <1>5 DEF Frames, LockInv, PausedAt, LockTypes, Outside
<1> QED
  BY <1>1, <1>2, <1>3, <1>4, <1>6, <1>7, LockLeftAlone

-----------------------------------------------------------------------------
(* The engines.  A step of thread t changes at most the engine of t's      *)
(* object and begins at most a session of that engine.                     *)
OthersWork(t) ==
  /\ \A u \in Threads \ {t} :
       pc'[u] = pc[u] /\ paused'[u] = paused[u] /\ chosen'[u] = chosen[u] /\ using'[u] = using[u]
  /\ \A o \in Objects \ {ObjectOf[t]} :
       engine'[o] = engine[o] /\ (engine[o] \in session' => engine[o] \in session)

(* What a thread does to the engine of its object, while it owns the lock, *)
(* takes no engine away from a thread that works with one.                 *)
LEMMA OthersKeepWorking ==
  ASSUME LockInv, EngineInv, NEW t \in Threads, OthersWork(t),
         owner[ObjectOf[t]] = t \/ UNCHANGED <<engine, session>>,
         NEW u \in Threads \ {t}
  PROVE  WorkingAt(u)' /\ UnbegunAt(u)'
<1>1. /\ pc'[u] = pc[u] /\ paused'[u] = paused[u]
      /\ chosen'[u] = chosen[u] /\ using'[u] = using[u]
  BY DEF OthersWork
<1>2. WorkingAt(u) /\ UnbegunAt(u)
  BY DEF EngineInv
<1>3. CASE UNCHANGED <<engine, session>>
  BY <1>1, <1>2, <1>3 DEF WorkingAt, UnbegunAt
<1>4. CASE owner[ObjectOf[t]] = t /\ ObjectOf[u] = ObjectOf[t]
  <2>1. pc[u] \in Outside /\ paused[u] = FALSE
    BY <1>4, OthersOutside
  <2>2. using[u] = NoHandle
    BY <2>1, <1>2 DEF WorkingAt, NativeKind, Outside
  <2> QED
    BY <2>1, <2>2, <1>1 DEF WorkingAt, UnbegunAt, Outside, Unbegun
<1>5. CASE ObjectOf[u] # ObjectOf[t]
  <2>1. ObjectOf[u] \in Objects \ {ObjectOf[t]}
    BY <1>5, SharingConstants
  <2>2. /\ engine'[ObjectOf[u]] = engine[ObjectOf[u]]
        /\ engine[ObjectOf[u]] \in session' => engine[ObjectOf[u]] \in session
    BY <2>1 DEF OthersWork
  <2> QED
    BY <2>2, <1>1, <1>2 DEF WorkingAt, UnbegunAt
<1> QED
  BY <1>3, <1>4, <1>5

(* So the invariant of the engines only has to be shown for the thread     *)
(* that takes the step.                                                    *)
LEMMA EnginesKept ==
  ASSUME LockInv, EngineInv, NEW t \in Threads, OthersWork(t),
         owner[ObjectOf[t]] = t \/ UNCHANGED <<engine, session>>,
         EngineTypes', EnginesDistinct', EnginesAccounted', WorkingAt(t)', UnbegunAt(t)'
  PROVE  EngineInv'
<1>1. ASSUME NEW u \in Threads PROVE WorkingAt(u)' /\ UnbegunAt(u)'
  BY OthersKeepWorking
<1> QED
  BY <1>1 DEF EngineInv

(* Steps that leave every engine and every session as they are.            *)
QuietStep(t) ==
  \/ \E o \in Ops, n \in Needs \cup {0} : Call(t, o, n)
  \/ Acquire(t) \/ Release(t) \/ Enter(t) \/ StartNative(t) \/ FinishCall(t)
  \/ RaiseError(t) \/ Resume(t)

(* They keep the invariant of the engines.                                 *)
LEMMA QuietEngine ==
  ASSUME LockInv, EngineInv, NEW t \in Threads, QuietStep(t)
  PROVE  EngineInv'
<1> USE DEF QuietStep, Call, Acquire, Release, Enter, WorkWith, Refused, Replacement, EngineFits,
            StartNative, FinishCall, Returns, Succeeds, FailsIn, RaiseError, Resume,
            objectVars, nativeVars, callVars
<1>1. /\ ObjectOf[t] \in Objects /\ UNCHANGED <<engine, live, session>>
      /\ pc \in [Threads -> PCs] /\ paused \in [Threads -> BOOLEAN]
      /\ docActive \in [Objects -> BOOLEAN]
  BY SharingConstants DEF LockInv, LockTypes
<1>2. EngineTypes' /\ EnginesDistinct'
  BY <1>1 DEF EngineTypes, EnginesDistinct, EngineInv
<1>3. OthersWork(t)
  BY <1>1 DEF OthersWork, EngineInv, EngineTypes
<1>4. EnginesAccounted'
  BY <1>1 DEF EnginesAccounted, EngineInv, UnbegunAt, Unbegun, Failures
<1>5. WorkingAt(t)' /\ UnbegunAt(t)'
  BY <1>1 DEF WorkingAt, UnbegunAt, Unbegun, EngineInv, EngineTypes, EnginesAccounted,
              NativeKind, Failures, LockInv, PausedAt, StreamingAt
<1> QED
  BY <1>1, <1>2, <1>3, <1>4, <1>5, EnginesKept

(* Steps that open or close an engine, or begin or end a session.          *)
LEMMA OpenEngineStep ==
  ASSUME LockInv, EngineInv, NEW t \in Threads, OpenEngine(t)
  PROVE  EngineInv'
<1> DEFINE x == ObjectOf[t]
<1>1. x \in Objects /\ pc[t] = "open" /\ using' = using /\ paused' = paused /\ session' = session
  BY SharingConstants DEF OpenEngine
<1>2. owner[x] = t
  BY <1>1, InsideOwns DEF Outside
<1>3. engine[x] = NoHandle /\ engine[x] \notin session /\ using[t] = NoHandle /\ ~paused[t]
  BY <1>1 DEF EngineInv, WorkingAt, UnbegunAt, Unbegun, NativeKind, LockInv, PausedAt
<1>4. CASE pc'[t] = "openFailed" /\ UNCHANGED <<live, engine, chosen, docActive>>
  <2>1. EngineTypes' /\ EnginesDistinct' /\ EnginesAccounted'
    BY <1>1, <1>4 DEF EngineInv, EngineTypes, EnginesDistinct, EnginesAccounted
  <2>2. OthersWork(t)
    BY <1>1, <1>4 DEF OpenEngine, WorkWith, OthersWork, LockInv, LockTypes
  <2>3. WorkingAt(t)' /\ UnbegunAt(t)'
    BY <1>1, <1>3, <1>4 DEF WorkingAt, UnbegunAt, EngineInv
  <2> QED
    BY <1>2, <2>1, <2>2, <2>3, EnginesKept
<1>5. ASSUME NEW h \in Handles \ live, live' = live \cup {h},
             engine' = [engine EXCEPT ![x] = h], WorkWith(t, h)
      PROVE  EngineInv'
  <2>1. h # NoHandle /\ h \notin session /\ \A o \in Objects : engine[o] # h
    BY SharingConstants DEF EngineInv, EngineTypes, EnginesAccounted
  <2>2. engine'[x] = h /\ \A o \in Objects \ {x} : engine'[o] = engine[o]
    BY <1>1, <1>5 DEF EngineInv, EngineTypes
  <2>3. /\ chosen'[t] = h
        /\ pc'[t] \in {"call", "begin"}
        /\ \A u \in Threads \ {t} : pc'[u] = pc[u] /\ chosen'[u] = chosen[u]
        /\ chosen' \in [Threads -> Handles \cup {NoHandle}]
        /\ \A o \in Objects \ {x} : docActive'[o] = docActive[o]
    BY <1>5 DEF WorkWith, LockInv, LockTypes, EngineInv, EngineTypes
  <2>4. EngineTypes'
    BY <1>1, <1>5, <2>3 DEF EngineInv, EngineTypes
  <2>5. EnginesDistinct'
    BY <2>1, <2>2 DEF EngineInv, EnginesDistinct
  <2>6. live' = {engine'[o] : o \in Objects} \ {NoHandle}
    <3>1. ASSUME NEW k PROVE k \in live' <=> k # NoHandle /\ \E o \in Objects : engine'[o] = k
      <4>1. CASE k = h
        BY <4>1, <1>1, <1>5, <2>1, <2>2
      <4>2. CASE k # h
        <5>1. k \in live' <=> k # NoHandle /\ \E o \in Objects : engine[o] = k
          BY <4>2, <1>5 DEF EngineInv, EnginesAccounted
        <5> QED
          BY <5>1, <4>2, <1>1, <1>3, <2>2
      <4> QED
        BY <4>1, <4>2
    <3> QED
      BY <3>1
  <2>7. \A o \in Objects : engine'[o] \in session' => docActive'[o]
    BY <1>1, <2>1, <2>2, <2>3 DEF EngineInv, EnginesAccounted
  <2>8. OthersWork(t)
    BY <1>1, <2>2, <2>3 DEF OthersWork
  <2>9. WorkingAt(t)' /\ UnbegunAt(t)'
    BY <1>1, <1>3, <2>1, <2>2, <2>3 DEF WorkingAt, UnbegunAt
  <2>10. EnginesAccounted'
    BY <2>6, <2>7 DEF EnginesAccounted
  <2> QED
    BY <1>2, <2>4, <2>5, <2>8, <2>9, <2>10, EnginesKept
<1>6. \/ pc'[t] = "openFailed" /\ UNCHANGED <<live, engine, chosen, docActive>>
      \/ \E h \in Handles \ live : /\ live' = live \cup {h}
                                   /\ engine' = [engine EXCEPT ![x] = h]
                                   /\ WorkWith(t, h)
  BY DEF OpenEngine, LockInv, LockTypes
<1> QED
  BY <1>4, <1>5, <1>6

(* Closing ends the engine of the object and of nobody else.               *)
LEMMA CloseEngineStep ==
  ASSUME LockInv, EngineInv, NEW t \in Threads, FinishClose(t)
  PROVE  EngineInv'
<1> DEFINE x == ObjectOf[t]
           h == engine[x]
<1>1. /\ x \in Objects /\ pc[t] = "close" /\ paused' = paused /\ chosen' = chosen
      /\ docActive' = docActive
  BY SharingConstants DEF FinishClose, Returns
<1>2. owner[x] = t
  BY <1>1, InsideOwns DEF Outside
<1>3. using[t] = h /\ h # NoHandle /\ ~paused[t]
  BY <1>1 DEF FinishClose, Returns, EngineInv, WorkingAt, LockInv, PausedAt
<1>4. /\ live' = live \ {h} /\ session' = session \ {h}
      /\ engine'[x] = NoHandle /\ engine' \in [Objects -> Handles \cup {NoHandle}]
      /\ \A o \in Objects \ {x} : engine'[o] = engine[o] /\ engine[o] # h
  BY <1>1, <1>3 DEF FinishClose, EngineInv, EngineTypes, EnginesDistinct
<1>5. /\ using'[t] = NoHandle /\ pc'[t] \in {"leave", "open"}
      /\ using' \in [Threads -> Handles \cup {NoHandle}]
      /\ \A u \in Threads \ {t} : pc'[u] = pc[u] /\ using'[u] = using[u]
  BY DEF FinishClose, Returns, LockInv, LockTypes, EngineInv, EngineTypes
<1>6. EngineTypes'
  BY <1>1, <1>4, <1>5 DEF EngineInv, EngineTypes
<1>7. EnginesDistinct'
  BY <1>4 DEF EngineInv, EnginesDistinct
<1>8. live' = {engine'[o] : o \in Objects} \ {NoHandle}
  <2>1. ASSUME NEW k PROVE k \in live' <=> k # NoHandle /\ \E o \in Objects : engine'[o] = k
    <3>1. k \in live <=> k # NoHandle /\ \E o \in Objects : engine[o] = k
      BY DEF EngineInv, EnginesAccounted
    <3>2. CASE k = h
      BY <3>2, <1>3, <1>4
    <3>3. CASE k # h
      BY <3>1, <3>3, <1>1, <1>4
    <3> QED
      BY <3>2, <3>3
  <2> QED
    BY <2>1
<1>9. \A o \in Objects : engine'[o] \in session' => docActive'[o]
  <2>1. NoHandle \notin session
    BY SharingConstants DEF EngineInv, EngineTypes
  <2> QED
    BY <2>1, <1>1, <1>4 DEF EngineInv, EnginesAccounted
<1>10. EnginesAccounted'
  BY <1>8, <1>9 DEF EnginesAccounted
<1>11. OthersWork(t)
  BY <1>1, <1>4, <1>5 DEF OthersWork
<1>12. WorkingAt(t)' /\ UnbegunAt(t)'
  <2>1. NoHandle \notin session
    BY SharingConstants DEF EngineInv, EngineTypes
  <2> QED
    BY <2>1, <1>1, <1>3, <1>4, <1>5 DEF WorkingAt, UnbegunAt
<1> QED
  BY <1>2, <1>6, <1>7, <1>10, <1>11, <1>12, EnginesKept

(* Beginning, window and end of a native session touch only the session of *)
(* the object's engine, while its document is active.                      *)
LEMMA SessionStep ==
  ASSUME LockInv, EngineInv, NEW t \in Threads, FinishBegin(t) \/ FinishWindow(t) \/ FinishEnd(t)
  PROVE  EngineInv'
<1> USE DEF FinishBegin, FinishWindow, FinishEnd, Returns, Succeeds, FailsIn, objectVars
<1> DEFINE x == ObjectOf[t]
           h == engine[x]
<1>1. x \in Objects /\ pc[t] \in {"begin", "window", "end"} /\ UNCHANGED <<engine, live, chosen>>
  BY SharingConstants
<1>2. owner[x] = t
  BY <1>1, InsideOwns DEF Outside
<1>3. using[t] = h /\ chosen[t] = h /\ h # NoHandle /\ h \in live /\ docActive[x] = TRUE
  <2>1. using[t] = h /\ chosen[t] = h /\ h # NoHandle
    BY <1>1 DEF EngineInv, WorkingAt
  <2>2. h \in live
    BY <1>1, <2>1 DEF EngineInv, EnginesAccounted
  <2> QED
    BY <2>1, <2>2, <1>1 DEF LockInv, StreamingAt, Streaming
<1>4. \A o \in Objects \ {x} : engine[o] # h
  BY <1>1, <1>3 DEF EngineInv, EnginesDistinct
<1>5. /\ using'[t] = NoHandle /\ pc'[t] \in {"window", "beginFailed", "idle", "windowFailed", "leave"}
      /\ using' \in [Threads -> Handles \cup {NoHandle}]
      /\ \A u \in Threads \ {t} :
           pc'[u] = pc[u] /\ using'[u] = using[u] /\ paused'[u] = paused[u]
      /\ \A o \in Objects \ {x} : docActive'[o] = docActive[o]
  BY <1>1 DEF LockInv, LockTypes, EngineInv, EngineTypes
<1>6. /\ session' \in {session, session \cup {h}, session \ {h}}
      /\ pc'[t] = "beginFailed" => h \notin session'
      /\ docActive'[x] = TRUE \/ h \notin session'
  BY <1>1, <1>3 DEF LockInv, LockTypes, EngineInv, UnbegunAt, Unbegun
<1> HIDE DEF FinishBegin, FinishWindow, FinishEnd, Returns, Succeeds, FailsIn
<1>7. EngineTypes' /\ EnginesDistinct'
  BY <1>1, <1>3, <1>5, <1>6 DEF EngineInv, EngineTypes, EnginesDistinct
<1>8. EnginesAccounted'
  BY <1>1, <1>3, <1>4, <1>5, <1>6 DEF EngineInv, EnginesAccounted
<1>9. OthersWork(t)
  BY <1>1, <1>4, <1>5, <1>6 DEF OthersWork
<1>10. WorkingAt(t)' /\ UnbegunAt(t)'
  BY <1>1, <1>3, <1>5, <1>6 DEF WorkingAt, UnbegunAt, Unbegun
<1> QED
  BY <1>2, <1>7, <1>8, <1>9, <1>10, EnginesKept

-----------------------------------------------------------------------------
(* The invariants of the lock and of the engines are inductive.            *)
LEMMA SharingInit == Init => LockInv /\ EngineInv
<1> SUFFICES ASSUME Init PROVE LockInv /\ EngineInv
  OBVIOUS
<1>1. LockTypes
  BY DEF Init, LockTypes, PCs
<1>2. LockBalanced /\ FreeIsUnheld
  BY SharingConstants DEF Init, LockBalanced, FreeIsUnheld, Frames
<1>3. \A t \in Threads : PausedAt(t) /\ StreamingAt(t)
  BY DEF Init, PausedAt, StreamingAt, Streaming
<1>4. EngineTypes /\ EnginesDistinct /\ EnginesAccounted
  BY DEF Init, EngineTypes, EnginesDistinct, EnginesAccounted
<1>5. \A t \in Threads : WorkingAt(t) /\ UnbegunAt(t)
  BY DEF Init, WorkingAt, UnbegunAt, Unbegun
<1> QED
  BY <1>1, <1>2, <1>3, <1>4, <1>5 DEF LockInv, EngineInv

(* The two invariants are inductive together: the thread of a step is      *)
(* alone in its object because the lock is balanced.                       *)
LEMMA SharingStep == LockInv /\ EngineInv /\ [Next]_vars => LockInv' /\ EngineInv'
<1> SUFFICES ASSUME LockInv, EngineInv, [Next]_vars PROVE LockInv' /\ EngineInv'
  OBVIOUS
<1>1. CASE UNCHANGED vars
  <2>1. UNCHANGED <<owner, depth, engine, docActive, live, session, pc, op, chosen, using, paused>>
    BY <1>1 DEF vars, lockVars, objectVars, nativeVars, callVars
  <2>2. LockInv'
    BY <2>1 DEF LockInv, LockTypes, LockBalanced, Frames, FreeIsUnheld, PausedAt, StreamingAt
  <2>3. EngineInv'
    BY <2>1 DEF EngineInv, EngineTypes, EnginesDistinct, EnginesAccounted, WorkingAt, UnbegunAt
  <2> QED
    BY <2>2, <2>3
<1>2. ASSUME NEW t \in Threads, Step(t) \/ Resume(t) \/ \E o \in Ops, n \in Needs \cup {0} : Call(t, o, n)
      PROVE  LockInv' /\ EngineInv'
  <2>1. LockInv'
    BY <1>2, CallLock, AcquireLock, ReleaseLock, InsideLock DEF Step, InsideStep
  <2>2. EngineInv'
    BY <1>2, QuietEngine, OpenEngineStep, CloseEngineStep, SessionStep DEF Step, QuietStep
  <2> QED
    BY <2>1, <2>2
<1> QED
  BY <1>1, <1>2 DEF Next

(* Every reachable state satisfies the inductive invariants of the locks   *)
(* and of the engines.                                                     *)
THEOREM SharingInvariant == Spec => [](LockInv /\ EngineInv)
<1>1. Init => LockInv /\ EngineInv
  BY SharingInit
<1>2. (LockInv /\ EngineInv) /\ [Next]_vars => (LockInv /\ EngineInv)'
  BY SharingStep
<1> QED
  BY <1>1, <1>2, PTL DEF Spec

(* The lock of an object is held once per frame of its owner and by nobody *)
(* else, for any number of threads, objects and nested calls.              *)
THEOREM LockIsBalanced == Spec => []LockBalanced
<1>1. LockInv /\ EngineInv => LockBalanced
  BY DEF LockInv
<1> QED
  BY <1>1, SharingInvariant, PTL

(* No engine leaks, none is used after it was closed, and a native session *)
(* never outlives the document of its object.                              *)
THEOREM EnginesAreAccounted == Spec => []EnginesAccounted
<1>1. LockInv /\ EngineInv => EnginesAccounted
  BY DEF EngineInv
<1> QED
  BY <1>1, SharingInvariant, PTL

(* A call that is under way is the only operation on its engine.           *)
LEMMA RunningAlone ==
  ASSUME LockInv, EngineInv, NEW t \in Threads, using[t] # NoHandle
  PROVE  /\ using[t] \in live
         /\ \A u \in Threads \ {t} : using[u] # using[t]
<1>1. WorkingAt(t) /\ ObjectOf[t] \in Objects
  BY SharingConstants DEF EngineInv
<1>2. pc[t] \in DOMAIN NativeKind /\ using[t] = engine[ObjectOf[t]]
  BY <1>1 DEF WorkingAt
<1>3. using[t] \in live
  BY <1>1, <1>2 DEF EngineInv, EnginesAccounted
<1>4. owner[ObjectOf[t]] = t
  BY <1>2, InsideOwns DEF NativeKind, Outside
<1>5. ASSUME NEW u \in Threads \ {t}, using[u] = using[t] PROVE FALSE
  <2>1. WorkingAt(u) /\ ObjectOf[u] \in Objects
    BY SharingConstants DEF EngineInv
  <2>2. pc[u] \in DOMAIN NativeKind /\ using[u] = engine[ObjectOf[u]]
    BY <1>5, <2>1 DEF WorkingAt
  <2>3. owner[ObjectOf[u]] = u
    BY <2>2, InsideOwns DEF NativeKind, Outside
  <2> QED
    BY <1>1, <1>2, <1>4, <1>5, <2>1, <2>2, <2>3 DEF EngineInv, EnginesDistinct
<1> QED
  BY <1>3, <1>5

(* Two threads are never in native calls on the same engine, and the       *)
(* engine of a call is open: what the C header asks of its callers.        *)
THEOREM NativeCallsExclude == Spec => []Exclusion
<1>1. LockInv /\ EngineInv => Exclusion
  BY RunningAlone DEF Exclusion
<1> QED
  BY <1>1, SharingInvariant, PTL

-----------------------------------------------------------------------------
(* The calls that reach the library keep its contract: each step of the    *)
(* threads starts or finishes one native operation, opens an engine, or    *)
(* does neither.                                                           *)
RunningOn(h) == {<<t, NativeKind[pc[t]]>> : t \in {u \in Threads : using[u] = h}}
Running == [h \in Handles |-> RunningOn(h)]

(* The operations on an engine that the step of t does not touch.          *)
LEMMA RunningElsewhere ==
  ASSUME NEW t \in Threads, NEW h \in Handles, using[t] # h, using'[t] # h,
         \A u \in Threads \ {t} : pc'[u] = pc[u] /\ using'[u] = using[u]
  PROVE  RunningOn(h)' = RunningOn(h)
BY DEF RunningOn

(* A step of a thread outside native calls starts and finishes none.       *)
LEMMA RunningUnchanged ==
  ASSUME NEW t \in Threads, using[t] = NoHandle, using'[t] = NoHandle,
         \A u \in Threads \ {t} : pc'[u] = pc[u] /\ using'[u] = using[u]
  PROVE  Running' = Running
<1>1. ASSUME NEW h \in Handles PROVE RunningOn(h)' = RunningOn(h)
  BY SharingConstants, RunningElsewhere
<1> QED
  BY <1>1 DEF Running

(* A native call begins on a quiet and open engine, in the session state   *)
(* its kind asks for.                                                      *)
LEMMA StartsOperation ==
  ASSUME LockInv, EngineInv, NEW t \in Threads, StartNative(t)
  PROVE  \E h \in Handles, kind \in Contract!Kinds : Contract!StartOperation(h, t, kind)
<1>1. /\ pc[t] \in {"close", "call", "begin", "window", "end"} /\ using[t] = NoHandle
      /\ UNCHANGED <<pc, live, session>>
  BY DEF StartNative, NativeKind, nativeVars
<1>2. WorkingAt(t) /\ UnbegunAt(t) /\ ObjectOf[t] \in Objects
  BY SharingConstants DEF EngineInv
<1>3. PICK h \in Handles : h = engine[ObjectOf[t]] /\ h # NoHandle /\ h \in live
  BY <1>1, <1>2 DEF WorkingAt, EngineInv, EnginesAccounted, EngineTypes
<1>4. using'[t] = h /\ \A u \in Threads \ {t} : using'[u] = using[u]
  BY <1>1, <1>2, <1>3 DEF StartNative, WorkingAt, EngineInv, EngineTypes
<1>5. ASSUME NEW u \in Threads, using[u] = h PROVE FALSE
  <2>1. WorkingAt(u) /\ ObjectOf[u] \in Objects
    BY SharingConstants DEF EngineInv
  <2>2. pc[u] \in DOMAIN NativeKind /\ engine[ObjectOf[u]] = h
    BY <1>3, <1>5, <2>1 DEF WorkingAt
  <2>3. owner[ObjectOf[u]] = u /\ owner[ObjectOf[t]] = t
    BY <1>1, <2>2, InsideOwns DEF NativeKind, Outside
  <2> QED
    BY <1>1, <1>2, <1>3, <1>5, <2>1, <2>2, <2>3 DEF EngineInv, EnginesDistinct
<1>6. RunningOn(h) = {}
  BY <1>5 DEF RunningOn
<1>7. RunningOn(h)' = {<<t, NativeKind[pc[t]]>>}
  <2>1. \A u \in Threads : using'[u] = h <=> u = t
    BY <1>4, <1>5
  <2> QED
    BY <1>1, <2>1 DEF RunningOn
<1>8. Running' = [Running EXCEPT ![h] = {<<t, NativeKind[pc[t]]>>}]
  <2>1. ASSUME NEW k \in Handles, k # h PROVE RunningOn(k)' = RunningOn(k)
    BY <1>1, <1>4, <2>1, SharingConstants, RunningElsewhere
  <2> QED
    BY <1>3, <1>7, <2>1 DEF Running
<1>9. PICK kind \in Contract!Kinds : kind = NativeKind[pc[t]]
  BY <1>1 DEF NativeKind, Contract!Kinds
<1>10. kind \in {"generate", "begin", "close"} => h \notin session
  BY <1>1, <1>2, <1>3, <1>9 DEF NativeKind, UnbegunAt, Unbegun
<1>11. Contract!StartOperation(h, t, kind)
  BY <1>1, <1>3, <1>6, <1>8, <1>9, <1>10 DEF Contract!StartOperation, Running, RunningOn
<1> QED
  BY <1>3, <1>9, <1>11

(* A native call that returns leaves its engine quiet.                     *)
LEMMA StopsRunning ==
  ASSUME LockInv, EngineInv, NEW t \in Threads, using[t] # NoHandle,
         using' = [using EXCEPT ![t] = NoHandle],
         \A u \in Threads \ {t} : pc'[u] = pc[u],
         NEW h \in Handles, h = using[t]
  PROVE  /\ Running[h] = {<<t, NativeKind[pc[t]]>>}
         /\ Running' = [Running EXCEPT ![h] = {}]
<1>1. \A u \in Threads : using[u] = h <=> u = t
  BY RunningAlone
<1>2. Running[h] = {<<t, NativeKind[pc[t]]>>}
  BY <1>1 DEF Running, RunningOn
<1>3. using'[t] = NoHandle /\ \A u \in Threads \ {t} : using'[u] = using[u]
  BY DEF EngineInv, EngineTypes
<1>4. RunningOn(h)' = {}
  BY <1>1, <1>3, SharingConstants DEF RunningOn
<1>5. ASSUME NEW k \in Handles, k # h PROVE RunningOn(k)' = RunningOn(k)
  BY <1>3, <1>5, SharingConstants, RunningElsewhere
<1> QED
  BY <1>2, <1>4, <1>5 DEF Running

(* A native call that returns finishes the operation of its kind.          *)
LEMMA FinishesOperation ==
  ASSUME LockInv, EngineInv, NEW t \in Threads,
         FinishClose(t) \/ FinishCall(t) \/ FinishBegin(t) \/ FinishWindow(t) \/ FinishEnd(t)
  PROVE  \E h \in Handles, kind \in Contract!Kinds : Contract!FinishOperation(h, t, kind)
<1>1. PICK h \in Handles : h = using[t] /\ h # NoHandle
  BY DEF FinishClose, FinishCall, FinishBegin, FinishWindow, FinishEnd, Returns, EngineInv, EngineTypes
<1>2. using' = [using EXCEPT ![t] = NoHandle]
  BY DEF FinishClose, FinishCall, FinishBegin, FinishWindow, FinishEnd, Returns
<1>3. \A u \in Threads \ {t} : pc'[u] = pc[u]
  BY DEF FinishClose, FinishCall, FinishBegin, FinishWindow, FinishEnd, FailsIn, LockInv, LockTypes
<1>4. Running[h] = {<<t, NativeKind[pc[t]]>>} /\ Running' = [Running EXCEPT ![h] = {}]
  BY <1>1, <1>2, <1>3, StopsRunning
<1>5. PICK kind \in Contract!Kinds : kind = NativeKind[pc[t]]
  BY DEF FinishClose, FinishCall, FinishBegin, FinishWindow, FinishEnd, Returns, NativeKind, Contract!Kinds
<1>6. \/ kind = "close" /\ live' = live \ {h} /\ session' = session \ {h}
      \/ kind = "end" /\ live' = live /\ session' = session \ {h}
      \/ kind = "generate" /\ live' = live /\ session' = session
      \/ kind = "begin" /\ live' = live /\ session' \in {session, session \cup {h}}
      \/ kind = "window" /\ live' = live /\ session' \in {session, session \ {h}}
  BY <1>1, <1>5 DEF FinishClose, FinishCall, FinishBegin, FinishWindow, FinishEnd, Returns, NativeKind
<1>7. Running[h] = {<<t, kind>>}
  BY <1>4, <1>5
<1>8. Contract!FinishOperation(h, t, kind)
  BY <1>4, <1>6, <1>7 DEF Contract!FinishOperation, Running, RunningOn
<1> QED
  BY <1>5, <1>8

(* Opening an engine gives a new one or changes nothing in the library.    *)
LEMMA OpensEngine ==
  ASSUME LockInv, EngineInv, NEW t \in Threads, OpenEngine(t)
  PROVE  \/ \E h \in Handles : Contract!OpenEngine(h)
         \/ UNCHANGED Contract!contractVars
<1>1. pc[t] = "open" /\ using' = using /\ session' = session
  BY DEF OpenEngine
<1>2. using[t] = NoHandle
  BY <1>1 DEF EngineInv, WorkingAt, NativeKind
<1>3. \A u \in Threads \ {t} : pc'[u] = pc[u]
  BY DEF OpenEngine, WorkWith, LockInv, LockTypes
<1>4. Running' = Running
  BY <1>1, <1>2, <1>3, RunningUnchanged
<1>5. \/ \E h \in Handles \ live : live' = live \cup {h}
      \/ live' = live
  BY DEF OpenEngine
<1> QED
  BY <1>1, <1>4, <1>5 DEF Contract!OpenEngine, Contract!contractVars, Running, RunningOn

(* Python's own steps are no operation of the library.                     *)
LEMMA KeepsContract ==
  ASSUME LockInv, EngineInv, NEW t \in Threads,
         \/ \E o \in Ops, n \in Needs \cup {0} : Call(t, o, n)
         \/ Acquire(t) \/ Enter(t) \/ RaiseError(t) \/ Release(t) \/ Resume(t)
  PROVE  UNCHANGED Contract!contractVars
<1>1. live' = live /\ session' = session /\ using' = using
  BY DEF Call, Acquire, Enter, RaiseError, Release, Resume, nativeVars, callVars
<1>2. pc[t] \notin DOMAIN NativeKind
  BY DEF Call, Acquire, Enter, RaiseError, Release, Resume, NativeKind, Failures
<1>3. using[t] = NoHandle
  BY <1>2 DEF EngineInv, WorkingAt
<1>4. \A u \in Threads \ {t} : pc'[u] = pc[u]
  BY DEF Call, Acquire, Enter, WorkWith, RaiseError, Release, Resume, LockInv, LockTypes
<1>5. Running' = Running
  BY <1>1, <1>3, <1>4, RunningUnchanged
<1> QED
  BY <1>1, <1>5 DEF Contract!contractVars, Running, RunningOn

(* Every step of the threads is a step of the contract or none.            *)
LEMMA ContractStep ==
  LockInv /\ EngineInv /\ [Next]_vars => [Contract!ContractNext]_Contract!contractVars
<1> SUFFICES ASSUME LockInv, EngineInv, [Next]_vars
             PROVE  Contract!ContractNext \/ UNCHANGED Contract!contractVars
  OBVIOUS
<1>1. CASE UNCHANGED vars
  <2>1. UNCHANGED <<live, session, pc, using>>
    BY <1>1 DEF vars, nativeVars, callVars
  <2> QED
    BY <2>1 DEF Contract!contractVars
<1>2. ASSUME NEW t \in Threads,
             Resume(t) \/ \E o \in Ops, n \in Needs \cup {0} : Call(t, o, n)
      PROVE  UNCHANGED Contract!contractVars
  BY <1>2, KeepsContract
<1>3. ASSUME NEW t \in Threads, Step(t)
      PROVE  Contract!ContractNext \/ UNCHANGED Contract!contractVars
  <2>1. CASE Acquire(t) \/ Enter(t) \/ RaiseError(t) \/ Release(t)
    BY <2>1, KeepsContract
  <2>2. CASE OpenEngine(t)
    BY <2>2, OpensEngine DEF Contract!ContractNext
  <2>3. CASE StartNative(t)
    BY <2>3, StartsOperation DEF Contract!ContractNext
  <2>4. CASE FinishClose(t) \/ FinishCall(t) \/ FinishBegin(t) \/ FinishWindow(t) \/ FinishEnd(t)
    BY <2>4, FinishesOperation DEF Contract!ContractNext
  <2> QED
    BY <1>3, <2>1, <2>2, <2>3, <2>4 DEF Step
<1> QED
  BY <1>1, <1>2, <1>3 DEF Next

(* Whatever the threads do, the library sees what its header asks for:     *)
(* operations on one engine one at a time, none on a closed engine,        *)
(* windows inside a document session and everything else outside of one.   *)
THEOREM ImplementsContract == Spec => HonoursContract
<1>1. Init => Contract!ContractInit
  <2> SUFFICES ASSUME Init PROVE Contract!ContractInit
    OBVIOUS
  <2>1. \A t \in Threads : using[t] = NoHandle
    BY DEF Init
  <2>2. \A h \in Handles : RunningOn(h) = {}
    BY <2>1, SharingConstants DEF RunningOn
  <2> QED
    BY <2>2 DEF Init, Contract!ContractInit, RunningOn
<1>2. (LockInv /\ EngineInv) /\ [Next]_vars => [Contract!ContractNext]_Contract!contractVars
  BY ContractStep
<1> QED
  BY <1>1, <1>2, SharingInvariant, PTL DEF Spec, HonoursContract, Contract!ContractSpec

(* The lock is balanced, no engine leaks and native calls exclude each     *)
(* other, for every number of threads, objects and engines.                *)
THEOREM SharingIsSafe == Spec => []SharingSafe
BY LockIsBalanced, EnginesAreAccounted, NativeCallsExclude, PTL DEF SharingSafe

-----------------------------------------------------------------------------
(* The error texts.                                                        *)

Texts == (Threads \cup {NoThread}) \X (0..MaxCalls)

TextTypes ==
  /\ text \in [Handles -> Texts]
  /\ globalText \in [Threads -> Texts]
  /\ calls \in [Threads -> 0..MaxCalls]
  /\ raised \in [Threads -> SUBSET Texts]
  /\ capacity \in [Objects -> Needs \cup {0}]
  /\ need \in [Threads -> Needs \cup {0}]
  /\ windows \in [Threads -> Nat]

(* Between a failure and the exception that names it, the text that will   *)
(* be read is the failure's.                                               *)
FailedOnEngine == {"callFailed", "beginFailed", "windowFailed"}

PairedAt(t) ==
  /\ raised[t] \subseteq {OwnText(t)}
  /\ pc[t] = "openFailed" => globalText[t] = OwnText(t)
  /\ pc[t] \in FailedOnEngine =>
       /\ chosen[t] = engine[ObjectOf[t]] /\ engine[ObjectOf[t]] # NoHandle
       /\ text[chosen[t]] = OwnText(t)

PairInv == TextTypes /\ \A t \in Threads : PairedAt(t)

SharingInv == LockInv /\ EngineInv

-----------------------------------------------------------------------------
(* The types.  The text of a call's failure is a text.                     *)
LEMMA OwnTextType ==
  ASSUME TextTypes, NEW t \in Threads
  PROVE  OwnText(t) \in Texts /\ OkText \in Texts
BY SharingConstants DEF TextTypes, OwnText, OkText, Texts

(* A step writes the text of its own call or none, so texts stay typed.    *)
LEMMA TextTypesKept ==
  ASSUME SharingInv, PairInv, NEW t \in Threads,
         Step(t) \/ Resume(t) \/ \E o \in Ops, n \in Needs \cup {0} : Call(t, o, n)
  PROVE  TextTypes'
<1> USE DEF TextTypes
<1>1. TextTypes /\ OwnText(t) \in Texts /\ OkText \in Texts
  BY OwnTextType DEF PairInv
<1>2. ObjectOf[t] \in Objects /\ MaxCalls \in Nat
  BY SharingConstants
<1>3. CASE \E o \in Ops, n \in Needs \cup {0} : Call(t, o, n)
  BY <1>1, <1>2, <1>3 DEF Call, objectVars, nativeVars
<1>4. CASE Acquire(t) \/ Enter(t) \/ StartNative(t) \/ Resume(t) \/ FinishEnd(t) \/ Release(t)
  BY <1>1, <1>4 DEF Acquire, Enter, WorkWith, StartNative, Resume, FinishEnd, Release,
                    objectVars, nativeVars, callVars
<1>5. CASE OpenEngine(t)
  BY <1>1, <1>2, <1>5 DEF OpenEngine, WorkWith, TextSlot
<1>6. CASE FinishClose(t)
  BY <1>1, <1>2, <1>6 DEF FinishClose
<1>7. CASE FinishCall(t) \/ FinishBegin(t) \/ FinishWindow(t)
  BY <1>1, <1>7 DEF FinishCall, FinishBegin, FinishWindow, Succeeds, FailsIn, TextSlot, objectVars
<1>8. CASE RaiseError(t)
  <2>1. ErrorText(t) = OwnText(t)
    BY <1>8 DEF RaiseError, ErrorText, TextSlot, PairInv, PairedAt, Failures, FailedOnEngine
  <2> QED
    BY <1>1, <1>8, <2>1 DEF RaiseError, nativeVars
<1> QED
  BY <1>3, <1>4, <1>5, <1>6, <1>7, <1>8 DEF Step

-----------------------------------------------------------------------------
(* A step of t writes no text but that of its object's engine, and of an   *)
(* engine that it has just opened.                                         *)
OthersTexts(t) ==
  /\ \A u \in Threads \ {t} :
       /\ pc'[u] = pc[u] /\ chosen'[u] = chosen[u] /\ calls'[u] = calls[u]
       /\ raised'[u] = raised[u] /\ globalText'[u] = globalText[u]
  /\ \A o \in Objects \ {ObjectOf[t]} : engine'[o] = engine[o]
  /\ \A h \in live \ {engine[ObjectOf[t]]} : text'[h] = text[h]

(* The texts of the other threads' failures survive a step of t: a thread  *)
(* that has failed on an engine owns the lock of another object, and the   *)
(* engines of two objects differ.                                          *)
LEMMA OthersStayPaired ==
  ASSUME SharingInv, PairInv, NEW t \in Threads, OthersTexts(t),
         owner[ObjectOf[t]] = t \/ UNCHANGED <<engine, text>>,
         NEW u \in Threads \ {t}
  PROVE  PairedAt(u)'
<1>1. PairedAt(u) /\ LockInv /\ EngineInv
  BY DEF PairInv, SharingInv
<1>2. /\ pc'[u] = pc[u] /\ chosen'[u] = chosen[u] /\ raised'[u] = raised[u]
      /\ globalText'[u] = globalText[u] /\ OwnText(u)' = OwnText(u)
  BY DEF OthersTexts, OwnText
<1>3. CASE UNCHANGED <<engine, text>>
  BY <1>1, <1>2, <1>3 DEF PairedAt
<1>4. CASE pc[u] \notin FailedOnEngine
  BY <1>1, <1>2, <1>4 DEF PairedAt
<1>5. CASE owner[ObjectOf[t]] = t /\ pc[u] \in FailedOnEngine
  <2>1. owner[ObjectOf[u]] = u
    BY <1>1, <1>5, InsideOwns DEF FailedOnEngine, Outside
  <2>2. ObjectOf[u] \in Objects \ {ObjectOf[t]} /\ ObjectOf[t] \in Objects
    BY <1>5, <2>1, SharingConstants
  <2>3. chosen[u] = engine[ObjectOf[u]] /\ engine[ObjectOf[u]] # NoHandle
    BY <1>1, <1>5 DEF PairedAt
  <2>4. chosen[u] \in live /\ chosen[u] # engine[ObjectOf[t]]
    BY <1>1, <2>2, <2>3 DEF EngineInv, EnginesAccounted, EnginesDistinct
  <2>5. text'[chosen[u]] = text[chosen[u]] /\ engine'[ObjectOf[u]] = engine[ObjectOf[u]]
    BY <2>2, <2>4 DEF OthersTexts
  <2> QED
    BY <1>1, <1>2, <1>5, <2>3, <2>5 DEF PairedAt
<1> QED
  BY <1>3, <1>4, <1>5

(* A call begins with no error raised.                                     *)
LEMMA CallPaired ==
  ASSUME SharingInv, PairInv, NEW t \in Threads, NEW o \in Ops, NEW n, Call(t, o, n)
  PROVE  \A u \in Threads : PairedAt(u)'
<1>1. OthersTexts(t) /\ UNCHANGED <<engine, text>>
  BY DEF Call, OthersTexts, objectVars, nativeVars, PairInv, TextTypes, SharingInv, LockInv, LockTypes
<1>2. pc'[t] = "acquire" /\ raised'[t] = {}
  BY DEF Call, PairInv, TextTypes, SharingInv, LockInv, LockTypes
<1>3. PairedAt(t)'
  BY <1>2 DEF PairedAt, FailedOnEngine
<1> QED
  BY <1>1, <1>3, OthersStayPaired

(* Steps that write no text and do not fail.                               *)
LEMMA SilentPaired ==
  ASSUME SharingInv, PairInv, NEW t \in Threads,
         Acquire(t) \/ Enter(t) \/ StartNative(t) \/ Resume(t) \/ FinishEnd(t) \/ Release(t)
  PROVE  \A u \in Threads : PairedAt(u)'
<1>1. UNCHANGED <<engine, text, globalText, calls, raised>>
  BY DEF Acquire, Enter, StartNative, Resume, FinishEnd, Release, objectVars, nativeVars, callVars
<1>2. \A u \in Threads \ {t} : pc'[u] = pc[u] /\ chosen'[u] = chosen[u]
  BY DEF Acquire, Enter, WorkWith, StartNative, Resume, FinishEnd, Release, callVars,
         SharingInv, LockInv, LockTypes, EngineInv, EngineTypes
<1>3. OthersTexts(t)
  BY <1>1, <1>2 DEF OthersTexts
<1>4. pc'[t] \notin Failures
  BY DEF Acquire, Enter, Replacement, WorkWith, StartNative, Resume, FinishEnd, Release, Failures, NativeKind,
         SharingInv, LockInv, LockTypes
<1>5. PairedAt(t)'
  BY <1>1, <1>4 DEF PairInv, PairedAt, OwnText, Failures, FailedOnEngine
<1> QED
  BY <1>1, <1>3, <1>5, OthersStayPaired

(* A constructor that fails writes the text of its own thread.             *)
LEMMA OpenPaired ==
  ASSUME SharingInv, PairInv, NEW t \in Threads, OpenEngine(t)
  PROVE  \A u \in Threads : PairedAt(u)'
<1>1. LockInv /\ EngineInv /\ TextTypes /\ PairedAt(t) /\ ObjectOf[t] \in Objects
  BY SharingConstants DEF SharingInv, PairInv
<1>2. owner[ObjectOf[t]] = t
  BY <1>1, InsideOwns DEF OpenEngine, Outside
<1>3. \A u \in Threads \ {t} : pc'[u] = pc[u] /\ chosen'[u] = chosen[u]
  BY <1>1 DEF OpenEngine, WorkWith, LockInv, LockTypes, EngineInv, EngineTypes
<1>4. calls' = calls /\ raised' = raised /\ \A u \in Threads \ {t} : globalText'[u] = globalText[u]
  BY <1>1 DEF OpenEngine, TextSlot, TextTypes
<1>5. \A o \in Objects \ {ObjectOf[t]} : engine'[o] = engine[o]
  BY <1>1 DEF OpenEngine, EngineInv, EngineTypes
<1>6. \A h \in live : text'[h] = text[h]
  BY <1>1 DEF OpenEngine, TextTypes, EngineInv, EngineTypes
<1>7. OthersTexts(t)
  BY <1>3, <1>4, <1>5, <1>6 DEF OthersTexts
<1>8. \/ pc'[t] \in {"call", "begin"}
      \/ pc'[t] = "openFailed" /\ globalText'[t] = OwnText(t)
  BY <1>1 DEF OpenEngine, WorkWith, TextSlot, TextTypes, LockInv, LockTypes
<1>9. PairedAt(t)'
  BY <1>1, <1>4, <1>8 DEF PairedAt, OwnText, FailedOnEngine
<1> QED
  BY <1>2, <1>7, <1>9, OthersStayPaired

(* A native call writes the text of its engine, and its thread reads it    *)
(* there.                                                                  *)
LEMMA FinishPaired ==
  ASSUME SharingInv, PairInv, NEW t \in Threads,
         FinishClose(t) \/ FinishCall(t) \/ FinishBegin(t) \/ FinishWindow(t)
  PROVE  \A u \in Threads : PairedAt(u)'
<1>1. /\ LockInv /\ EngineInv /\ TextTypes /\ PairedAt(t) /\ WorkingAt(t)
      /\ ObjectOf[t] \in Objects
  BY SharingConstants DEF SharingInv, PairInv, EngineInv
<1>2. /\ pc[t] \in {"close", "call", "begin", "window"} /\ using[t] # NoHandle
      /\ chosen' = chosen /\ calls' = calls /\ raised' = raised
  BY DEF FinishClose, FinishCall, FinishBegin, FinishWindow, Returns
<1>3. owner[ObjectOf[t]] = t
  BY <1>1, <1>2, InsideOwns DEF Outside
<1>4. using[t] = engine[ObjectOf[t]] /\ using[t] \in Handles
  BY <1>1, <1>2 DEF WorkingAt, EngineInv, EngineTypes
<1>5. \A u \in Threads \ {t} : pc'[u] = pc[u]
  BY <1>1 DEF FinishClose, FinishCall, FinishBegin, FinishWindow, FailsIn, LockInv, LockTypes
<1>6. \A u \in Threads \ {t} : globalText'[u] = globalText[u]
  BY <1>1 DEF FinishClose, FinishCall, FinishBegin, FinishWindow, Succeeds, FailsIn, TextSlot, TextTypes
<1>7. \A o \in Objects \ {ObjectOf[t]} : engine'[o] = engine[o]
  BY <1>1 DEF FinishClose, FinishCall, FinishBegin, FinishWindow, objectVars, EngineInv, EngineTypes
<1>8. \A h \in Handles \ {using[t]} : text'[h] = text[h]
  BY <1>1 DEF FinishClose, FinishCall, FinishBegin, FinishWindow, Succeeds, FailsIn, TextTypes
<1>9. OthersTexts(t)
  BY <1>1, <1>2, <1>4, <1>5, <1>6, <1>7, <1>8 DEF OthersTexts, EngineInv, EngineTypes
<1>10. \/ pc'[t] \notin Failures
       \/ /\ pc'[t] \in FailedOnEngine /\ pc[t] \in {"call", "begin", "window"}
          /\ engine' = engine /\ text'[using[t]] = OwnText(t)
  BY <1>1, <1>4 DEF FinishClose, FinishCall, FinishBegin, FinishWindow, Returns, Succeeds, FailsIn,
     TextTypes, LockInv, LockTypes, objectVars, Failures, FailedOnEngine
<1>11. OwnText(t)' = OwnText(t) /\ raised'[t] \subseteq {OwnText(t)'}
  BY <1>1, <1>2 DEF OwnText, PairedAt
<1>12. PairedAt(t)'
  <2>1. CASE pc'[t] \notin Failures
    BY <1>11, <2>1 DEF PairedAt, Failures, FailedOnEngine
  <2>2. CASE /\ pc'[t] \in FailedOnEngine /\ pc[t] \in {"call", "begin", "window"}
             /\ engine' = engine /\ text'[using[t]] = OwnText(t)
    <3>1. chosen[t] = engine[ObjectOf[t]] /\ engine[ObjectOf[t]] # NoHandle
      BY <1>1, <2>2 DEF WorkingAt
    <3> QED
      BY <1>2, <1>4, <1>11, <2>2, <3>1 DEF PairedAt, FailedOnEngine
  <2> QED
    BY <1>10, <2>1, <2>2
<1> QED
  BY <1>3, <1>9, <1>12, OthersStayPaired

(* The exception is built from the text of its own failure.                *)
LEMMA RaisePaired ==
  ASSUME SharingInv, PairInv, NEW t \in Threads, RaiseError(t)
  PROVE  \A u \in Threads : PairedAt(u)'
<1>1. TextTypes /\ PairedAt(t) /\ LockTypes
  BY DEF PairInv, SharingInv, LockInv
<1>2. UNCHANGED <<engine, text, globalText, calls, chosen>>
  BY DEF RaiseError, nativeVars
<1>3. \A u \in Threads \ {t} : pc'[u] = pc[u] /\ raised'[u] = raised[u]
  BY <1>1 DEF RaiseError, LockTypes, TextTypes
<1>4. OthersTexts(t)
  BY <1>2, <1>3 DEF OthersTexts
<1>5. ErrorText(t) = OwnText(t)
  BY <1>1 DEF RaiseError, ErrorText, TextSlot, PairedAt, Failures, FailedOnEngine
<1>6. raised'[t] \subseteq {OwnText(t)} /\ pc'[t] \in {"end", "leave"}
  BY <1>1, <1>5 DEF RaiseError, PairedAt, LockTypes, TextTypes
<1>7. PairedAt(t)'
  BY <1>2, <1>6 DEF PairedAt, OwnText, FailedOnEngine
<1> QED
  BY <1>2, <1>4, <1>7, OthersStayPaired

-----------------------------------------------------------------------------
(* Every failure's text reaches its own exception.                         *)
LEMMA PairStep == SharingInv /\ PairInv /\ [Next]_vars => PairInv'
<1> SUFFICES ASSUME SharingInv, PairInv, [Next]_vars PROVE PairInv'
  OBVIOUS
<1>1. CASE UNCHANGED vars
  BY <1>1 DEF vars, lockVars, objectVars, nativeVars, callVars, PairInv, TextTypes, PairedAt, OwnText
<1>2. ASSUME NEW t \in Threads, Step(t) \/ Resume(t) \/ \E o \in Ops, n \in Needs \cup {0} : Call(t, o, n)
      PROVE  PairInv'
  <2>1. TextTypes'
    BY <1>2, TextTypesKept
  <2>2. \A u \in Threads : PairedAt(u)'
    BY <1>2, CallPaired, SilentPaired, OpenPaired, FinishPaired, RaisePaired DEF Step
  <2> QED
    BY <2>1, <2>2 DEF PairInv
<1> QED
  BY <1>1, <1>2 DEF Next

(* Nothing has failed at the start.                                        *)
LEMMA PairInit == Init => PairInv
<1> SUFFICES ASSUME Init PROVE PairInv
  OBVIOUS
<1>1. OkText \in Texts
  BY SharingConstants DEF OkText, Texts
<1>2. TextTypes
  BY <1>1, SharingConstants DEF Init, TextTypes
<1>3. \A t \in Threads : PairedAt(t)
  BY DEF Init, PairedAt, FailedOnEngine
<1> QED
  BY <1>2, <1>3 DEF PairInv

(* The sharing invariant with the texts is inductive.                      *)
THEOREM PairInvariant == Spec => [](SharingInv /\ PairInv)
<1>1. Init => PairInv
  BY PairInit
<1>2. SharingInv /\ PairInv /\ [Next]_vars => PairInv'
  BY PairStep
<1>3. Spec => []SharingInv
  BY SharingInvariant DEF SharingInv
<1> QED
  BY <1>1, <1>2, <1>3, PTL DEF Spec

(* The text a call raises is the one its own failure wrote: of its engine  *)
(* for a native call, of its thread for a failed constructor, however many *)
(* threads fail at the same time.                                          *)
THEOREM ErrorsArePaired == Spec => []ErrorsPaired
<1>1. SharingInv /\ PairInv => ErrorsPaired
  BY DEF PairInv, PairedAt, ErrorsPaired
<1> QED
  BY <1>1, PairInvariant, PTL

(* Every reachable state of the objects, engines and threads is well-typed.*)
THEOREM SharingTypesHold == Spec => []SharedTypeOK
<1>1. SharingInv /\ PairInv => SharedTypeOK
  <2> SUFFICES ASSUME SharingInv, PairInv PROVE SharedTypeOK
    OBVIOUS
  <2>1. LockTypes /\ EngineTypes /\ TextTypes
    BY DEF SharingInv, LockInv, EngineInv, PairInv
  <2>2. {text[h] : h \in Handles} \cup {globalText[t] : t \in Threads} \subseteq Texts
    BY <2>1 DEF TextTypes
  <2>3. pc \in [Threads -> {"idle", "acquire", "enter", "open", "leave"}
                             \cup DOMAIN NativeKind \cup Failures]
    BY <2>1 DEF LockTypes, PCs, NativeKind, Failures
  <2>4. {windows, calls} \subseteq [Threads -> Nat]
    BY <2>1, SharingConstants DEF TextTypes
  <2>5. session \subseteq Handles /\ live \subseteq Handles
    BY <2>1 DEF EngineTypes
  <2> QED
    BY <2>1, <2>2, <2>3, <2>4, <2>5 DEF SharedTypeOK, LockTypes, EngineTypes, TextTypes, Texts
<1> QED
  BY <1>1, PairInvariant, PTL
=============================================================================
