----------------------------- MODULE ModelCache -----------------------------
(***************************************************************************)
(* The cache of converted models: resolve_model_path and                   *)
(* _download_and_convert_source_model (src/unlimitedocr_c/api.py) over     *)
(* write_uocr_model and its statistics report (convert.py), run by several *)
(* processes on one cache entry.  Files are inodes behind path names: a    *)
(* rename moves a name, an unlink removes it, and an open file follows its *)
(* inode.  A file's contents are its chunks, each with the conversion it   *)
(* came from; chunk 1 is the header.  Any step may fail (network, disk,    *)
(* a bad checkpoint), and a process may be killed or interrupted anywhere. *)
(***************************************************************************)
EXTENDS Naturals

CONSTANTS
  Procs,           \* processes (or threads) that resolve the entry
  Plans,           \* what a conversion may produce: checkpoint and quant cfg
  Foreign,         \* a model of another format version or quantization
  Hole,            \* a chunk nobody wrote
  Inodes, NoInode,
  Chunks,          \* chunks of a file
  Overlap          \* conversions of the entry may overlap in time

ASSUME CacheConstants ==
  /\ Foreign \notin Plans /\ Hole \notin Plans /\ Foreign # Hole
  /\ NoInode \notin Inodes
  /\ Chunks \in Nat \ {0}
  /\ Overlap \in BOOLEAN

(* out is the cache entry, legacy the older location of v1 models, tmp the *)
(* staged name the resolver gives the writer, hidden the writer's own.     *)
Paths == {"out", "legacy", "tmp", "hidden"}
Candidates == {"out", "legacy"}

VARIABLES
  path,      \* the inode behind each name
  data,      \* the chunks of each inode
  stats,     \* the conversion the published statistics describe, or Hole
  statsTmp,  \* the same for the temporary statistics file
  pc,        \* where each process is in its call
  forced,    \* its call has force_reconvert
  answer,    \* the name of the path it returns
  plan,      \* the conversion it makes
  fd, pos,   \* the file it writes and the next chunk
  got,       \* the inode its engine has mapped
  before     \* history: the cache entry when its conversion began

fileVars == <<path, data, stats, statsTmp>>
callVars == <<forced, answer, plan>>
procVars == <<pc, callVars, fd, pos, got, before>>
vars     == <<fileVars, procVars>>

Staging    == {"unlink", "open", "write", "replace", "stats", "publishStats"}
Converting == {"download", "prepare", "publish"} \cup Staging
Resting    == {"idle", "returned", "loaded", "failed"}

Contents     == [1..Chunks -> Plans \cup {Foreign, Hole}]
Filled(q)    == [k \in 1..Chunks |-> q]
WholeFile(i) == \E q \in Plans \cup {Foreign} : data[i] = Filled(q)
Free         == Inodes \ ({path[n] : n \in Paths} \cup {fd[p] : p \in Procs}
                                                  \cup {got[p] : p \in Procs})

Init ==
  /\ \E old \in {NoInode} \cup Inodes, q \in Plans \cup {Foreign} :
       /\ path = [n \in Paths |-> IF n = "legacy" THEN old ELSE NoInode]
       /\ data = [i \in Inodes |-> Filled(IF i = old THEN q ELSE Hole)]
  /\ stats = Hole /\ statsTmp = Hole
  /\ pc = [p \in Procs |-> "idle"]
  /\ forced = [p \in Procs |-> FALSE]
  /\ answer = [p \in Procs |-> "out"]
  /\ plan = [p \in Procs |-> Hole]
  /\ fd = [p \in Procs |-> NoInode]
  /\ pos = [p \in Procs |-> 1]
  /\ got = [p \in Procs |-> NoInode]
  /\ before = [p \in Procs |-> NoInode]

(* A file without a name that nobody has open is gone.                     *)
Reclaim == data' = [i \in Inodes |-> IF i \in Free' THEN Filled(Hole) ELSE data[i]]

Goto(p, stage) == pc' = [pc EXCEPT ![p] = stage]
Cached         == {n \in Candidates : path[n] # NoInode}
Entry          == IF "out" \in Cached THEN "out" ELSE "legacy"
MayConvert     == Overlap \/ \A q \in Procs : pc[q] \notin Converting

(* A cached file is returned unless its header shows another version or    *)
(* quantization; nothing else of it is looked at.                          *)
Accepts(n) == data[path[n]][1] # Foreign

Hit(p) ==
  /\ pc[p] = "idle"
  /\ Cached # {}
  /\ Goto(p, IF Accepts(Entry) THEN "returned" ELSE "failed")
  /\ answer' = [answer EXCEPT ![p] = Entry]
  /\ UNCHANGED <<fileVars, forced, plan, fd, pos, got, before>>

(* Nothing is cached, or force_reconvert looks past what is.               *)
Miss(p, force) ==
  /\ pc[p] = "idle"
  /\ force \/ Cached = {}
  /\ MayConvert
  /\ Goto(p, "download")
  /\ forced' = [forced EXCEPT ![p] = force]
  /\ answer' = [answer EXCEPT ![p] = "out"]
  /\ \E q \in Plans : plan' = [plan EXCEPT ![p] = q]
  /\ before' = [before EXCEPT ![p] = path["out"]]
  /\ UNCHANGED <<fileVars, fd, pos, got>>

(* The entry is looked up once more before the checkpoint is fetched.      *)
Download(p) ==
  /\ pc[p] = "download"
  /\ IF path["out"] # NoInode /\ ~forced[p]
     THEN Goto(p, IF Accepts("out") THEN "returned" ELSE "failed")
     ELSE Goto(p, "prepare")
  /\ UNCHANGED <<fileVars, callVars, fd, pos, got, before>>

(* A staged file left by an earlier attempt goes, and the plan is built.   *)
Prepare(p) ==
  /\ pc[p] = "prepare"
  /\ path' = [path EXCEPT !["tmp"] = NoInode]
  /\ Goto(p, "unlink")
  /\ UNCHANGED <<stats, statsTmp, callVars, fd, pos, got, before>>
  /\ Reclaim

UnlinkHidden(p) ==
  /\ pc[p] = "unlink"
  /\ path' = [path EXCEPT !["hidden"] = NoInode]
  /\ Goto(p, "open")
  /\ UNCHANGED <<stats, statsTmp, callVars, fd, pos, got, before>>
  /\ Reclaim

WriteChunkShort(p) ==   \* mutant: the last chunk is not written
  /\ pc[p] = "write"
  /\ data' = [data EXCEPT ![fd[p]][pos[p]] = plan[p]]
  /\ pos' = [pos EXCEPT ![p] = @ + 1]
  /\ IF pos[p] + 1 >= Chunks
     THEN Goto(p, "replace") /\ fd' = [fd EXCEPT ![p] = NoInode]
     ELSE UNCHANGED <<pc, fd>>
  /\ UNCHANGED <<path, stats, statsTmp, callVars, got, before>>

WriteChunkPast(p) ==   \* mutant: one chunk too many
  /\ pc[p] = "write"
  /\ data' = [data EXCEPT ![fd[p]][pos[p]] = plan[p]]
  /\ pos' = [pos EXCEPT ![p] = @ + 1]
  /\ IF pos[p] > Chunks
     THEN Goto(p, "replace") /\ fd' = [fd EXCEPT ![p] = NoInode]
     ELSE UNCHANGED <<pc, fd>>
  /\ UNCHANGED <<path, stats, statsTmp, callVars, got, before>>

(* Mode "w+b": a new file, or an existing one truncated in place.          *)
OpenHidden(p) ==
  /\ pc[p] = "open"
  /\ \E i \in IF path["hidden"] = NoInode THEN Free ELSE {path["hidden"]} :
       /\ path' = [path EXCEPT !["hidden"] = i]
       /\ data' = [data EXCEPT ![i] = Filled(Hole)]
       /\ fd' = [fd EXCEPT ![p] = i]
  /\ pos' = [pos EXCEPT ![p] = 1]
  /\ Goto(p, "write")
  /\ UNCHANGED <<stats, statsTmp, callVars, got, before>>

WriteChunk(p) ==
  /\ pc[p] = "write"
  /\ data' = [data EXCEPT ![fd[p]][pos[p]] = plan[p]]
  /\ pos' = [pos EXCEPT ![p] = @ + 1]
  /\ IF pos[p] = Chunks
     THEN Goto(p, "replace") /\ fd' = [fd EXCEPT ![p] = NoInode]
     ELSE UNCHANGED <<pc, fd>>
  /\ UNCHANGED <<path, stats, statsTmp, callVars, got, before>>

Renamed(from, to) == [path EXCEPT ![to] = path[from], ![from] = NoInode]

WriteStatsOnce(p) ==   \* mutant: an earlier attempt's report is kept
  /\ pc[p] = "stats"
  /\ statsTmp' = IF statsTmp = Hole THEN plan[p] ELSE statsTmp
  /\ Goto(p, "publishStats")
  /\ UNCHANGED <<path, data, stats, callVars, fd, pos, got, before>>

(* os.replace of the writer's file onto the name it was asked for.         *)
ReplaceTarget(p) ==
  /\ pc[p] = "replace"
  /\ path["hidden"] # NoInode
  /\ path' = Renamed("hidden", "tmp")
  /\ Goto(p, "stats")
  /\ UNCHANGED <<stats, statsTmp, callVars, fd, pos, got, before>>
  /\ Reclaim

WriteStats(p) ==
  /\ pc[p] = "stats"
  /\ statsTmp' = plan[p]
  /\ Goto(p, "publishStats")
  /\ UNCHANGED <<path, data, stats, callVars, fd, pos, got, before>>

PublishCopy(p) ==   \* mutant: the entry is overwritten in place
  /\ pc[p] = "publish"
  /\ path["tmp"] # NoInode
  /\ IF path["out"] = NoInode
     THEN path' = Renamed("tmp", "out") /\ UNCHANGED data
     ELSE /\ data' = [data EXCEPT ![path["out"]] = data[path["tmp"]]]
          /\ UNCHANGED path
  /\ Goto(p, "returned")
  /\ UNCHANGED <<stats, statsTmp, callVars, fd, pos, got, before>>

PublishStats(p) ==
  /\ pc[p] = "publishStats"
  /\ statsTmp # Hole
  /\ stats' = statsTmp
  /\ statsTmp' = Hole
  /\ Goto(p, "publish")
  /\ UNCHANGED <<path, data, callVars, fd, pos, got, before>>

Publish(p) ==
  /\ pc[p] = "publish"
  /\ path["tmp"] # NoInode
  /\ path' = Renamed("tmp", "out")
  /\ Goto(p, "returned")
  /\ UNCHANGED <<stats, statsTmp, callVars, fd, pos, got, before>>
  /\ Reclaim

AbortOut(p) ==   \* mutant: clean-up by the entry's name
  /\ pc[p] \in Staging \ {"unlink"}
  /\ path' = [path EXCEPT !["out"] = NoInode]
  /\ fd' = [fd EXCEPT ![p] = NoInode]
  /\ Goto(p, "failed")
  /\ UNCHANGED <<stats, statsTmp, callVars, pos, got, before>>
  /\ Reclaim

(* An exception in the writer's try block, a vanished source of a rename   *)
(* among them, unlinks whatever bears the writer's temporary name.         *)
Abort(p) ==
  /\ pc[p] \in Staging \ {"unlink"}
  /\ path' = [path EXCEPT !["hidden"] = NoInode]
  /\ fd' = [fd EXCEPT ![p] = NoInode]
  /\ Goto(p, "failed")
  /\ UNCHANGED <<stats, statsTmp, callVars, pos, got, before>>
  /\ Reclaim

(* Elsewhere an exception cleans up nothing.                               *)
Fail(p) ==
  /\ pc[p] \in {"download", "prepare", "unlink", "publish"}
  /\ Goto(p, "failed")
  /\ UNCHANGED <<fileVars, callVars, fd, pos, got, before>>

Quit(p) ==
  /\ Goto(p, "idle")
  /\ forced' = [forced EXCEPT ![p] = FALSE]
  /\ answer' = [answer EXCEPT ![p] = "out"]
  /\ plan' = [plan EXCEPT ![p] = Hole]
  /\ fd' = [fd EXCEPT ![p] = NoInode]
  /\ pos' = [pos EXCEPT ![p] = 1]
  /\ got' = [got EXCEPT ![p] = NoInode]
  /\ before' = [before EXCEPT ![p] = NoInode]
  /\ UNCHANGED <<path, stats, statsTmp>>
  /\ Reclaim

(* Killed, or interrupted past every `except Exception`.                   *)
Crash(p) ==
  /\ pc[p] \in Converting
  /\ Quit(p)

(* The engine opens the returned path and maps the file it finds there.    *)
Load(p) ==
  /\ pc[p] = "returned"
  /\ got' = [got EXCEPT ![p] = path[answer[p]]]
  /\ Goto(p, "loaded")
  /\ UNCHANGED <<fileVars, callVars, fd, pos, before>>

Leave(p) ==
  /\ pc[p] \in Resting \ {"idle"}
  /\ Quit(p)

Progress(p) ==
  \/ Download(p) \/ Prepare(p) \/ UnlinkHidden(p) \/ OpenHidden(p) \/ WriteChunk(p)
  \/ ReplaceTarget(p) \/ WriteStats(p) \/ PublishStats(p) \/ Publish(p)
Undo(p) == Abort(p) \/ Fail(p)

Next == \E p \in Procs :
  \/ Hit(p) \/ (\E force \in BOOLEAN : Miss(p, force))
  \/ Progress(p) \/ Undo(p) \/ Crash(p) \/ Load(p) \/ Leave(p)

Spec == Init /\ [][Next]_vars

-----------------------------------------------------------------------------
CacheTypeOK ==
  /\ path \in [Paths -> Inodes \cup {NoInode}]
  /\ data \in [Inodes -> Contents]
  /\ stats \in Plans \cup {Hole} /\ statsTmp \in Plans \cup {Hole}
  /\ pc \in [Procs -> Converting \cup Resting]
  /\ forced \in [Procs -> BOOLEAN]
  /\ answer \in [Procs -> Candidates]
  /\ plan \in [Procs -> Plans \cup {Hole}]
  /\ fd \in [Procs -> Inodes \cup {NoInode}]
  /\ pos \in [Procs -> 1..(Chunks + 1)]
  /\ got \in [Procs -> Inodes \cup {NoInode}]
  /\ before \in [Procs -> Inodes \cup {NoInode}]

(* The source of a rename is the file the conversion itself has written:   *)
(* what an earlier attempt left behind is never taken for it.              *)
StagedIsOwn == \A p \in Procs :
  /\ pc[p] = "replace" => /\ path["hidden"] # NoInode
                          /\ data[path["hidden"]] = Filled(plan[p])
  /\ pc[p] \in {"stats", "publishStats", "publish"}
       => path["tmp"] # NoInode /\ data[path["tmp"]] = Filled(plan[p])

(* resolve_model_path and README.md: force_reconvert replaces the entry    *)
(* atomically, only after conversion succeeds.  Whatever fails or is       *)
(* killed, the entry is absent or holds every chunk of one conversion.     *)
EntryWhole == \A n \in Cached : WholeFile(path[n])

(* And what a conversion publishes next is its own.                        *)
PublishesWhole == EntryWhole /\ StagedIsOwn

(* The statistics a returning conversion leaves are those of the model it  *)
(* leaves: both describe the same conversion.                              *)
StatsOfEntry ==
  [][\A p \in Procs :
       pc[p] = "publish" /\ pc'[p] = "returned"
         => data'[path'["out"]] = Filled(stats')]_vars

(* A conversion that fails leaves the entry it found, the same file.       *)
FailureKeepsEntry ==
  [][\A p \in Procs :
       pc[p] \in Converting /\ pc'[p] \in {"failed", "idle"}
         => path'["out"] = before[p]]_vars

(* No converter writes to a file an engine has mapped.                     *)
MappedFilesStable ==
  [][\A p \in Procs :
       got[p] # NoInode /\ got'[p] = got[p] => data'[got[p]] = data[got[p]]]_vars
=============================================================================
