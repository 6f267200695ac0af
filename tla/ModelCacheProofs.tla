-------------------------- MODULE ModelCacheProofs --------------------------
(***************************************************************************)
(* Theorems of ModelCache, for conversions that do not overlap in time:    *)
(* any number of processes, plans, chunks and inodes.                      *)
(*                                                                         *)
(* PublishesWhole is not inductive.  A rename publishes what the hidden    *)
(* file holds, so the invariant follows it from its opening: who writes    *)
(* it and how far (Writing), that no other name and no engine has it       *)
(* (Apart, MapsApart), and that nobody else is converting (Alone).         *)
(***************************************************************************)
EXTENDS ModelCache, TLAPS

(* One process converts at a time.                                         *)
Alone == \A p, q \in Procs : pc[p] \in Converting /\ pc[q] \in Converting => p = q

(* A file has one name.                                                    *)
Apart == \A m, n \in Paths : path[m] = path[n] /\ path[m] # NoInode => m = n

(* The writer's open file is the hidden one, filled up to its position.    *)
Writing == \A p \in Procs :
  IF pc[p] = "write"
  THEN /\ fd[p] # NoInode /\ fd[p] = path["hidden"] /\ pos[p] \in 1..Chunks
       /\ \A k \in 1..(pos[p] - 1) : data[fd[p]][k] = plan[p]
  ELSE fd[p] = NoInode

(* No engine maps a file that is still being made.                         *)
MapsApart == \A p \in Procs :
  got[p] # NoInode => got[p] # path["hidden"] /\ got[p] # path["tmp"]

(* A conversion has a plan, and the entry is the one it began with.        *)
Planned == \A p \in Procs :
  pc[p] \in Converting => plan[p] \in Plans /\ before[p] = path["out"]

(* The statistics are those of the conversion that wrote them.             *)
Reported == \A p \in Procs :
  /\ pc[p] = "publishStats" => statsTmp = plan[p]
  /\ pc[p] = "publish" => stats = plan[p]

CandidatesWhole == \A n \in Candidates : path[n] # NoInode => WholeFile(path[n])

IInv == /\ CacheTypeOK /\ Alone /\ Apart /\ Writing /\ MapsApart /\ Planned /\ Reported
        /\ CandidatesWhole /\ StagedIsOwn

-----------------------------------------------------------------------------

USE DEF Paths, Candidates

(* A file of one conversion is a file.                                     *)
LEMMA FilledTyped == ASSUME NEW q \in Plans \cup {Foreign, Hole} PROVE Filled(q) \in Contents
BY DEF Filled, Contents

(* The empty cache and that of an earlier release.                         *)
LEMMA Initially == Init => IInv
<1> SUFFICES ASSUME Init PROVE IInv OBVIOUS
<1> USE CacheConstants
<1>1. PICK old \in {NoInode} \cup Inodes, q \in Plans \cup {Foreign} :
        /\ path = [n \in Paths |-> IF n = "legacy" THEN old ELSE NoInode]
        /\ data = [i \in Inodes |-> Filled(IF i = old THEN q ELSE Hole)]
  BY DEF Init
<1>2. data \in [Inodes -> Contents]
  BY <1>1, FilledTyped
<1>3. CacheTypeOK
  BY <1>1, <1>2 DEF Init, CacheTypeOK, Resting
<1>4. Alone /\ Planned /\ Reported /\ StagedIsOwn /\ Writing /\ MapsApart
  BY DEF Init, Alone, Planned, Reported, StagedIsOwn, Writing, MapsApart, Converting, Staging
<1>5. Apart
  BY <1>1 DEF Apart
<1>6. CandidatesWhole
  BY <1>1 DEF CandidatesWhole, WholeFile
<1> QED BY <1>3, <1>4, <1>5, <1>6 DEF IInv

(* Reclaiming touches no file that has a name or is open.                  *)
LEMMA Reclaimed ==
  ASSUME CacheTypeOK, Reclaim,
         path' \in [Paths -> Inodes \cup {NoInode}], 
         fd' \in [Procs -> Inodes \cup {NoInode}],
         got' \in [Procs -> Inodes \cup {NoInode}]
  PROVE  /\ data' \in [Inodes -> Contents]
         /\ \A n \in Paths : path'[n] # NoInode => data'[path'[n]] = data[path'[n]]
         /\ \A q \in Procs : fd'[q] # NoInode => data'[fd'[q]] = data[fd'[q]]
         /\ \A q \in Procs : got'[q] # NoInode => data'[got'[q]] = data[got'[q]]
<1>1. Filled(Hole) \in Contents
  BY FilledTyped
<1>2. data' \in [Inodes -> Contents]
  BY <1>1 DEF Reclaim, CacheTypeOK
<1>3. \A i \in Inodes : i \notin Free' => data'[i] = data[i]
  BY DEF Reclaim
<1>4. /\ \A n \in Paths : path'[n] \notin Free'
      /\ \A q \in Procs : fd'[q] \notin Free' /\ got'[q] \notin Free'
  BY DEF Free
<1> QED BY <1>2, <1>3, <1>4

-----------------------------------------------------------------------------
(* The steps.                                                              *)

(* A cached file is returned.                                              *)
LEMMA HitKeeps == ASSUME IInv, NEW p \in Procs, Hit(p) PROVE IInv'
<1> USE CacheConstants
<1>1. CacheTypeOK' /\ Alone' /\ Planned' /\ Reported'
  BY DEF IInv, CacheTypeOK, Alone, Planned, Reported, fileVars, procVars, callVars, Goto,
         Converting, Staging, Resting, Hit, Entry, Cached
<1>2. Apart' /\ Writing' /\ MapsApart' /\ CandidatesWhole' /\ StagedIsOwn'
  BY DEF IInv, CacheTypeOK, Alone, Apart, Writing, MapsApart, Planned, Reported,
         CandidatesWhole, StagedIsOwn, fileVars, procVars, callVars, Goto,
         Converting, Staging, Resting, WholeFile, Hit, Entry, Cached
<1> QED BY <1>1, <1>2 DEF IInv

(* A conversion begins: nobody else is converting.                         *)
LEMMA MissKeeps == ASSUME IInv, NEW p \in Procs, ~Overlap, NEW force \in BOOLEAN, Miss(p, force) PROVE IInv'
<1> USE CacheConstants
<1>1. CacheTypeOK' /\ Alone' /\ Planned' /\ Reported'
  BY DEF IInv, CacheTypeOK, Alone, Planned, Reported, fileVars, procVars, callVars, Goto,
         Converting, Staging, Resting, Miss, MayConvert
<1>2. Apart' /\ Writing' /\ MapsApart' /\ CandidatesWhole' /\ StagedIsOwn'
  BY DEF IInv, CacheTypeOK, Alone, Apart, Writing, MapsApart, Planned, Reported,
         CandidatesWhole, StagedIsOwn, fileVars, procVars, callVars, Goto,
         Converting, Staging, Resting, WholeFile, Miss, MayConvert
<1> QED BY <1>1, <1>2 DEF IInv

(* The entry is looked up again.                                           *)
LEMMA DownloadKeeps == ASSUME IInv, NEW p \in Procs, Download(p) PROVE IInv'
<1> USE CacheConstants
<1>1. CacheTypeOK' /\ Alone' /\ Planned' /\ Reported'
  BY DEF IInv, CacheTypeOK, Alone, Planned, Reported, fileVars, procVars, callVars, Goto,
         Converting, Staging, Resting, Download
<1>2. Apart' /\ Writing' /\ MapsApart' /\ CandidatesWhole' /\ StagedIsOwn'
  BY DEF IInv, CacheTypeOK, Alone, Apart, Writing, MapsApart, Planned, Reported,
         CandidatesWhole, StagedIsOwn, fileVars, procVars, callVars, Goto,
         Converting, Staging, Resting, WholeFile, Download
<1> QED BY <1>1, <1>2 DEF IInv

(* The staged file of an earlier attempt goes.                             *)
LEMMA PrepareKeeps == ASSUME IInv, NEW p \in Procs, Prepare(p) PROVE IInv'
<1> USE CacheConstants
<1>1. /\ path' \in [Paths -> Inodes \cup {NoInode}]
      /\ fd' \in [Procs -> Inodes \cup {NoInode}]
      /\ got' \in [Procs -> Inodes \cup {NoInode}]
  BY DEF IInv, CacheTypeOK, fileVars, procVars, callVars, Prepare
<1>2. /\ data' \in [Inodes -> Contents]
      /\ \A n \in Paths : path'[n] # NoInode => data'[path'[n]] = data[path'[n]]
      /\ \A q \in Procs : fd'[q] # NoInode => data'[fd'[q]] = data[fd'[q]]
  BY <1>1, Reclaimed DEF IInv, Prepare
<1>3. CacheTypeOK' /\ Alone' /\ Planned' /\ Reported'
  BY <1>1, <1>2 DEF IInv, CacheTypeOK, Alone, Planned, Reported, fileVars, procVars, callVars, Goto,
         Converting, Staging, Resting, Prepare
<1>4. Apart' /\ Writing' /\ MapsApart'
  BY <1>1, <1>2 DEF IInv, CacheTypeOK, Alone, Apart, Writing, MapsApart, Planned, Reported,
         CandidatesWhole, StagedIsOwn, fileVars, procVars, callVars, Goto,
         Converting, Staging, Resting, Prepare
<1>5. CandidatesWhole' /\ StagedIsOwn'
  BY <1>1, <1>2 DEF IInv, CacheTypeOK, Alone, Apart, Writing, MapsApart, Planned, Reported,
         CandidatesWhole, StagedIsOwn, fileVars, procVars, callVars, Goto,
         Converting, Staging, Resting, WholeFile, Prepare
<1> QED BY <1>3, <1>4, <1>5 DEF IInv

(* The hidden file of an earlier attempt goes.                             *)
LEMMA UnlinkHiddenKeeps == ASSUME IInv, NEW p \in Procs, UnlinkHidden(p) PROVE IInv'
<1> USE CacheConstants
<1>1. /\ path' \in [Paths -> Inodes \cup {NoInode}]
      /\ fd' \in [Procs -> Inodes \cup {NoInode}]
      /\ got' \in [Procs -> Inodes \cup {NoInode}]
  BY DEF IInv, CacheTypeOK, fileVars, procVars, callVars, UnlinkHidden
<1>2. /\ data' \in [Inodes -> Contents]
      /\ \A n \in Paths : path'[n] # NoInode => data'[path'[n]] = data[path'[n]]
      /\ \A q \in Procs : fd'[q] # NoInode => data'[fd'[q]] = data[fd'[q]]
  BY <1>1, Reclaimed DEF IInv, UnlinkHidden
<1>3. CacheTypeOK' /\ Alone' /\ Planned' /\ Reported'
  BY <1>1, <1>2 DEF IInv, CacheTypeOK, Alone, Planned, Reported, fileVars, procVars, callVars, Goto,
         Converting, Staging, Resting, UnlinkHidden
<1>4. Apart' /\ Writing' /\ MapsApart'
  BY <1>1, <1>2 DEF IInv, CacheTypeOK, Alone, Apart, Writing, MapsApart, Planned, Reported,
         CandidatesWhole, StagedIsOwn, fileVars, procVars, callVars, Goto,
         Converting, Staging, Resting, UnlinkHidden
<1>5. CandidatesWhole' /\ StagedIsOwn'
  BY <1>1, <1>2 DEF IInv, CacheTypeOK, Alone, Apart, Writing, MapsApart, Planned, Reported,
         CandidatesWhole, StagedIsOwn, fileVars, procVars, callVars, Goto,
         Converting, Staging, Resting, WholeFile, UnlinkHidden
<1> QED BY <1>3, <1>4, <1>5 DEF IInv

(* The file opened is free or the hidden one: no candidate, not mapped.   *)
LEMMA OpenHiddenKeeps == ASSUME IInv, NEW p \in Procs, OpenHidden(p) PROVE IInv'
<1> USE CacheConstants
<1>1. CacheTypeOK' /\ Alone' /\ Planned' /\ Reported'
  BY DEF IInv, CacheTypeOK, Alone, Planned, Reported, fileVars, procVars, callVars, Goto,
         Converting, Staging, Resting, OpenHidden, Free, Filled, Contents
<1>2. Apart'
  BY DEF IInv, CacheTypeOK, Alone, Apart, Writing, MapsApart, Planned, Reported,
         CandidatesWhole, StagedIsOwn, fileVars, procVars, callVars, Goto,
         Converting, Staging, Resting, WholeFile, OpenHidden, Free, Filled,
         Contents
<1>3. Writing'
  BY DEF IInv, CacheTypeOK, Alone, Apart, Writing, MapsApart, Planned, Reported,
         CandidatesWhole, StagedIsOwn, fileVars, procVars, callVars, Goto,
         Converting, Staging, Resting, WholeFile, OpenHidden, Free, Filled,
         Contents
<1>4. MapsApart'
  BY DEF IInv, CacheTypeOK, Alone, Apart, Writing, MapsApart, Planned, Reported,
         CandidatesWhole, StagedIsOwn, fileVars, procVars, callVars, Goto,
         Converting, Staging, Resting, WholeFile, OpenHidden, Free, Filled,
         Contents
<1>5. CandidatesWhole'
  <2>1. ASSUME NEW n \in Candidates, path[n] # NoInode
        PROVE  path'[n] = path[n] /\ data'[path[n]] = data[path[n]]
    BY <2>1 DEF IInv, CacheTypeOK, Apart, OpenHidden, Free
  <2>2. \A n \in Candidates : path'[n] = path[n]
    BY DEF IInv, CacheTypeOK, OpenHidden
  <2> QED BY <2>1, <2>2 DEF IInv, CandidatesWhole, WholeFile
<1>6. StagedIsOwn'
  BY DEF IInv, CacheTypeOK, Alone, Apart, Writing, MapsApart, Planned, Reported,
         CandidatesWhole, StagedIsOwn, fileVars, procVars, callVars, Goto,
         Converting, Staging, Resting, WholeFile, OpenHidden, Free, Filled,
         Contents
<1> QED BY <1>1, <1>2, <1>3, <1>4, <1>5, <1>6 DEF IInv

(* What is written goes to the hidden file, and completes it at its end.   *)
LEMMA WriteChunkKeeps == ASSUME IInv, NEW p \in Procs, WriteChunk(p) PROVE IInv'
<1> USE CacheConstants
<1>1. /\ fd[p] \in Inodes /\ fd[p] = path["hidden"]
      /\ pos[p] \in 1..Chunks /\ plan[p] \in Plans /\ pc[p] = "write"
      /\ \A k \in 1..(pos[p] - 1) : data[fd[p]][k] = plan[p]
  BY DEF IInv, CacheTypeOK, Writing, Planned, WriteChunk, Converting, Staging
<1>2. data' = [data EXCEPT ![fd[p]] = [@ EXCEPT ![pos[p]] = plan[p]]]
  BY DEF WriteChunk
<1>3. /\ data' \in [Inodes -> Contents]
      /\ \A i \in Inodes : i # fd[p] => data'[i] = data[i]
      /\ \A k \in 1..pos[p] : data'[fd[p]][k] = plan[p]
  <2>1. data[fd[p]] \in [1..Chunks -> Plans \cup {Foreign, Hole}]
    BY <1>1 DEF IInv, CacheTypeOK, Contents
  <2>2. [data[fd[p]] EXCEPT ![pos[p]] = plan[p]] \in [1..Chunks -> Plans \cup {Foreign, Hole}]
    BY <1>1, <2>1
  <2>3. \A k \in 1..pos[p] : [data[fd[p]] EXCEPT ![pos[p]] = plan[p]][k] = plan[p]
    BY <1>1, <2>1
  <2> QED BY <1>1, <1>2, <2>2, <2>3 DEF IInv, CacheTypeOK, Contents
<1>4. pos[p] = Chunks => data'[path["hidden"]] = Filled(plan[p])
  BY <1>1, <1>3 DEF Filled, Contents
<1>5. CacheTypeOK' /\ Alone' /\ Planned' /\ Reported'
  <2>1. pos' = [pos EXCEPT ![p] = pos[p] + 1] /\ pos[p] + 1 \in 1..(Chunks + 1)
    BY <1>1 DEF WriteChunk
  <2> QED BY <1>1, <1>3, <2>1 DEF IInv, CacheTypeOK, Alone, Planned, Reported, WriteChunk, Goto,
             callVars, Converting, Staging, Resting
<1>6. Apart' /\ MapsApart' /\ CandidatesWhole'
  <2>1. \A n \in Candidates : path[n] # NoInode => path[n] \in Inodes /\ path[n] # fd[p]
    BY <1>1 DEF IInv, CacheTypeOK, Apart
  <2> QED BY <1>3, <2>1 DEF IInv, Apart, MapsApart, CandidatesWhole, WholeFile, WriteChunk
<1>7. Writing'
  <2>1. \A q \in Procs : q # p => pc[q] # "write" /\ pc'[q] = pc[q] /\ fd[q] = NoInode
                                  /\ fd'[q] = fd[q]
    BY <1>1 DEF IInv, CacheTypeOK, Alone, Writing, WriteChunk, Goto, Converting, Staging
  <2>2. CASE pos[p] = Chunks
    BY <1>1, <2>1, <2>2 DEF IInv, CacheTypeOK, Writing, WriteChunk, Goto
  <2>3. CASE pos[p] # Chunks
    <3>1. /\ pc'[p] = "write" /\ fd'[p] = fd[p] /\ pos'[p] = pos[p] + 1 /\ plan' = plan
          /\ path' = path /\ fd' = fd
      BY <1>1, <2>3 DEF IInv, CacheTypeOK, WriteChunk, callVars
    <3>2. pos'[p] \in 1..Chunks /\ 1..(pos'[p] - 1) = 1..pos[p]
      BY <1>1, <2>3, <3>1
    <3> QED BY <1>1, <1>3, <2>1, <3>1, <3>2 DEF Writing
  <2> QED BY <2>2, <2>3
<1>8. StagedIsOwn'
  <2>1. \A q \in Procs : q # p => pc'[q] \notin Converting
    BY <1>1 DEF IInv, CacheTypeOK, Alone, WriteChunk, Goto, Converting, Staging
  <2>2. /\ pc'[p] \in {"write", "replace"} /\ (pc'[p] = "replace" => pos[p] = Chunks)
        /\ path' = path /\ plan' = plan
    BY <1>1 DEF IInv, CacheTypeOK, WriteChunk, Goto, callVars
  <2> QED BY <1>1, <1>4, <2>1, <2>2 DEF StagedIsOwn, Converting, Staging
<1> QED BY <1>5, <1>6, <1>7, <1>8 DEF IInv

(* The finished file takes the staged name.                                *)
LEMMA ReplaceTargetKeeps == ASSUME IInv, NEW p \in Procs, ReplaceTarget(p) PROVE IInv'
<1> USE CacheConstants
<1>1. /\ path' \in [Paths -> Inodes \cup {NoInode}]
      /\ fd' \in [Procs -> Inodes \cup {NoInode}]
      /\ got' \in [Procs -> Inodes \cup {NoInode}]
  BY DEF IInv, CacheTypeOK, fileVars, procVars, callVars, ReplaceTarget, Renamed
<1>2. /\ data' \in [Inodes -> Contents]
      /\ \A n \in Paths : path'[n] # NoInode => data'[path'[n]] = data[path'[n]]
      /\ \A q \in Procs : fd'[q] # NoInode => data'[fd'[q]] = data[fd'[q]]
  BY <1>1, Reclaimed DEF IInv, ReplaceTarget, Renamed
<1>3. CacheTypeOK' /\ Alone' /\ Planned' /\ Reported'
  BY <1>1, <1>2 DEF IInv, CacheTypeOK, Alone, Planned, Reported, fileVars, procVars, callVars, Goto,
         Converting, Staging, Resting, ReplaceTarget, Renamed
<1>4. Apart' /\ Writing' /\ MapsApart'
  BY <1>1, <1>2 DEF IInv, CacheTypeOK, Alone, Apart, Writing, MapsApart, Planned, Reported,
         CandidatesWhole, StagedIsOwn, fileVars, procVars, callVars, Goto,
         Converting, Staging, Resting, ReplaceTarget, Renamed
<1>5. CandidatesWhole' /\ StagedIsOwn'
  BY <1>1, <1>2 DEF IInv, CacheTypeOK, Alone, Apart, Writing, MapsApart, Planned, Reported,
         CandidatesWhole, StagedIsOwn, fileVars, procVars, callVars, Goto,
         Converting, Staging, Resting, WholeFile, ReplaceTarget, Renamed
<1> QED BY <1>3, <1>4, <1>5 DEF IInv

(* The report is written beside the published one.                         *)
LEMMA WriteStatsKeeps == ASSUME IInv, NEW p \in Procs, WriteStats(p) PROVE IInv'
<1> USE CacheConstants
<1>1. CacheTypeOK' /\ Alone' /\ Planned' /\ Reported'
  BY DEF IInv, CacheTypeOK, Alone, Planned, Reported, fileVars, procVars, callVars, Goto,
         Converting, Staging, Resting, WriteStats
<1>2. Apart' /\ Writing' /\ MapsApart' /\ CandidatesWhole' /\ StagedIsOwn'
  BY DEF IInv, CacheTypeOK, Alone, Apart, Writing, MapsApart, Planned, Reported,
         CandidatesWhole, StagedIsOwn, fileVars, procVars, callVars, Goto,
         Converting, Staging, Resting, WholeFile, WriteStats
<1> QED BY <1>1, <1>2 DEF IInv

(* The report is published.                                                *)
LEMMA PublishStatsKeeps == ASSUME IInv, NEW p \in Procs, PublishStats(p) PROVE IInv'
<1> USE CacheConstants
<1>1. CacheTypeOK' /\ Alone' /\ Planned' /\ Reported'
  BY DEF IInv, CacheTypeOK, Alone, Planned, Reported, fileVars, procVars, callVars, Goto,
         Converting, Staging, Resting, PublishStats
<1>2. Apart' /\ Writing' /\ MapsApart' /\ CandidatesWhole' /\ StagedIsOwn'
  BY DEF IInv, CacheTypeOK, Alone, Apart, Writing, MapsApart, Planned, Reported,
         CandidatesWhole, StagedIsOwn, fileVars, procVars, callVars, Goto,
         Converting, Staging, Resting, WholeFile, PublishStats
<1> QED BY <1>1, <1>2 DEF IInv

(* The staged file becomes the entry.                                      *)
LEMMA PublishKeeps == ASSUME IInv, NEW p \in Procs, Publish(p) PROVE IInv'
<1> USE CacheConstants
<1>1. /\ path' \in [Paths -> Inodes \cup {NoInode}]
      /\ fd' \in [Procs -> Inodes \cup {NoInode}]
      /\ got' \in [Procs -> Inodes \cup {NoInode}]
  BY DEF IInv, CacheTypeOK, fileVars, procVars, callVars, Publish, Renamed
<1>2. /\ data' \in [Inodes -> Contents]
      /\ \A n \in Paths : path'[n] # NoInode => data'[path'[n]] = data[path'[n]]
      /\ \A q \in Procs : fd'[q] # NoInode => data'[fd'[q]] = data[fd'[q]]
  BY <1>1, Reclaimed DEF IInv, Publish, Renamed
<1>3. CacheTypeOK' /\ Alone' /\ Planned' /\ Reported'
  BY <1>1, <1>2 DEF IInv, CacheTypeOK, Alone, Planned, Reported, fileVars, procVars, callVars, Goto,
         Converting, Staging, Resting, Publish, Renamed
<1>4. Apart' /\ Writing' /\ MapsApart'
  BY <1>1, <1>2 DEF IInv, CacheTypeOK, Alone, Apart, Writing, MapsApart, Planned, Reported,
         CandidatesWhole, StagedIsOwn, fileVars, procVars, callVars, Goto,
         Converting, Staging, Resting, Publish, Renamed
<1>5. CandidatesWhole' /\ StagedIsOwn'
  BY <1>1, <1>2 DEF IInv, CacheTypeOK, Alone, Apart, Writing, MapsApart, Planned, Reported,
         CandidatesWhole, StagedIsOwn, fileVars, procVars, callVars, Goto,
         Converting, Staging, Resting, WholeFile, Publish, Renamed
<1> QED BY <1>3, <1>4, <1>5 DEF IInv

(* A failed writer removes the hidden file.                                *)
LEMMA AbortKeeps == ASSUME IInv, NEW p \in Procs, Abort(p) PROVE IInv'
<1> USE CacheConstants
<1>1. /\ path' \in [Paths -> Inodes \cup {NoInode}]
      /\ fd' \in [Procs -> Inodes \cup {NoInode}]
      /\ got' \in [Procs -> Inodes \cup {NoInode}]
  BY DEF IInv, CacheTypeOK, fileVars, procVars, callVars, Abort
<1>2. /\ data' \in [Inodes -> Contents]
      /\ \A n \in Paths : path'[n] # NoInode => data'[path'[n]] = data[path'[n]]
      /\ \A q \in Procs : fd'[q] # NoInode => data'[fd'[q]] = data[fd'[q]]
  BY <1>1, Reclaimed DEF IInv, Abort
<1>3. CacheTypeOK' /\ Alone' /\ Planned' /\ Reported'
  BY <1>1, <1>2 DEF IInv, CacheTypeOK, Alone, Planned, Reported, fileVars, procVars, callVars, Goto,
         Converting, Staging, Resting, Abort
<1>4. Apart' /\ Writing' /\ MapsApart'
  BY <1>1, <1>2 DEF IInv, CacheTypeOK, Alone, Apart, Writing, MapsApart, Planned, Reported,
         CandidatesWhole, StagedIsOwn, fileVars, procVars, callVars, Goto,
         Converting, Staging, Resting, Abort
<1>5. CandidatesWhole' /\ StagedIsOwn'
  BY <1>1, <1>2 DEF IInv, CacheTypeOK, Alone, Apart, Writing, MapsApart, Planned, Reported,
         CandidatesWhole, StagedIsOwn, fileVars, procVars, callVars, Goto,
         Converting, Staging, Resting, WholeFile, Abort
<1> QED BY <1>3, <1>4, <1>5 DEF IInv

(* Elsewhere a failure cleans up nothing.                                  *)
LEMMA FailKeeps == ASSUME IInv, NEW p \in Procs, Fail(p) PROVE IInv'
<1> USE CacheConstants
<1>1. CacheTypeOK' /\ Alone' /\ Planned' /\ Reported'
  BY DEF IInv, CacheTypeOK, Alone, Planned, Reported, fileVars, procVars, callVars, Goto,
         Converting, Staging, Resting, Fail
<1>2. Apart' /\ Writing' /\ MapsApart' /\ CandidatesWhole' /\ StagedIsOwn'
  BY DEF IInv, CacheTypeOK, Alone, Apart, Writing, MapsApart, Planned, Reported,
         CandidatesWhole, StagedIsOwn, fileVars, procVars, callVars, Goto,
         Converting, Staging, Resting, WholeFile, Fail
<1> QED BY <1>1, <1>2 DEF IInv

(* A process ends, by itself or killed.                                    *)
LEMMA QuitKeeps == ASSUME IInv, NEW p \in Procs, Quit(p) PROVE IInv'
<1> USE CacheConstants
<1>1. /\ path' \in [Paths -> Inodes \cup {NoInode}]
      /\ fd' \in [Procs -> Inodes \cup {NoInode}]
      /\ got' \in [Procs -> Inodes \cup {NoInode}]
  BY DEF IInv, CacheTypeOK, fileVars, procVars, callVars, Quit
<1>2. /\ data' \in [Inodes -> Contents]
      /\ \A n \in Paths : path'[n] # NoInode => data'[path'[n]] = data[path'[n]]
      /\ \A q \in Procs : fd'[q] # NoInode => data'[fd'[q]] = data[fd'[q]]
  BY <1>1, Reclaimed DEF IInv, Quit
<1>3. CacheTypeOK' /\ Alone' /\ Planned' /\ Reported'
  BY <1>1, <1>2 DEF IInv, CacheTypeOK, Alone, Planned, Reported, fileVars, procVars, callVars, Goto,
         Converting, Staging, Resting, Quit
<1>4. Apart' /\ Writing' /\ MapsApart'
  BY <1>1, <1>2 DEF IInv, CacheTypeOK, Alone, Apart, Writing, MapsApart, Planned, Reported,
         CandidatesWhole, StagedIsOwn, fileVars, procVars, callVars, Goto,
         Converting, Staging, Resting, Quit
<1>5. CandidatesWhole' /\ StagedIsOwn'
  BY <1>1, <1>2 DEF IInv, CacheTypeOK, Alone, Apart, Writing, MapsApart, Planned, Reported,
         CandidatesWhole, StagedIsOwn, fileVars, procVars, callVars, Goto,
         Converting, Staging, Resting, WholeFile, Quit
<1> QED BY <1>3, <1>4, <1>5 DEF IInv

(* An engine maps a candidate.                                             *)
LEMMA LoadKeeps == ASSUME IInv, NEW p \in Procs, Load(p) PROVE IInv'
<1> USE CacheConstants
<1>1. CacheTypeOK' /\ Alone' /\ Planned' /\ Reported'
  BY DEF IInv, CacheTypeOK, Alone, Planned, Reported, fileVars, procVars, callVars, Goto,
         Converting, Staging, Resting, Load
<1>2. Apart' /\ Writing' /\ MapsApart' /\ CandidatesWhole' /\ StagedIsOwn'
  BY DEF IInv, CacheTypeOK, Alone, Apart, Writing, MapsApart, Planned, Reported,
         CandidatesWhole, StagedIsOwn, fileVars, procVars, callVars, Goto,
         Converting, Staging, Resting, WholeFile, Load
<1> QED BY <1>1, <1>2 DEF IInv

(* Nothing changes.                                                        *)
LEMMA StutterKeeps == ASSUME IInv, UNCHANGED vars PROVE IInv'
<1>1. CacheTypeOK' /\ Alone' /\ Apart' /\ Writing' /\ MapsApart'
  BY DEF IInv, CacheTypeOK, Alone, Apart, Writing, MapsApart, vars, fileVars, procVars, callVars
<1>2. Planned' /\ Reported' /\ CandidatesWhole' /\ StagedIsOwn'
  BY DEF IInv, Planned, Reported, CandidatesWhole, StagedIsOwn, WholeFile, vars, fileVars,
         procVars, callVars
<1> QED BY <1>1, <1>2 DEF IInv

(* A step of one process.                                                  *)
Step(p) ==
  \/ Hit(p) \/ (\E force \in BOOLEAN : Miss(p, force))
  \/ Progress(p) \/ Undo(p) \/ Crash(p) \/ Load(p) \/ Leave(p)

(* Every step keeps the invariant.                                         *)
LEMMA NextKeeps == ASSUME ~Overlap, IInv, [Next]_vars PROVE IInv'
<1>1. CASE UNCHANGED vars
  BY <1>1, StutterKeeps
<1>2. ASSUME NEW p \in Procs, Step(p) PROVE IInv'
  <2>1. CASE Hit(p) BY <2>1, HitKeeps
  <2>2. CASE \E force \in BOOLEAN : Miss(p, force) BY <2>2, MissKeeps
  <2>3. CASE Progress(p)
    BY <2>3, DownloadKeeps, PrepareKeeps, UnlinkHiddenKeeps, OpenHiddenKeeps, WriteChunkKeeps,
       ReplaceTargetKeeps, WriteStatsKeeps, PublishStatsKeeps, PublishKeeps DEF Progress
  <2>4. CASE Undo(p) BY <2>4, AbortKeeps, FailKeeps DEF Undo
  <2>5. CASE Crash(p) \/ Leave(p) BY <2>5, QuitKeeps DEF Crash, Leave
  <2>6. CASE Load(p) BY <2>6, LoadKeeps
  <2> QED BY <1>2, <2>1, <2>2, <2>3, <2>4, <2>5, <2>6 DEF Step
<1> QED BY <1>1, <1>2 DEF Next, Step

-----------------------------------------------------------------------------
(* The invariant holds while conversions do not overlap.                   *)
THEOREM CacheInvariant == ASSUME ~Overlap PROVE Spec => []IInv
<1>1. IInv /\ [Next]_vars => IInv'
  BY NextKeeps
<1> QED BY Initially, <1>1, PTL DEF Spec

(* The state of the cache keeps its type: no write is past a file's end.   *)
THEOREM TypesHold == ASSUME ~Overlap PROVE Spec => []CacheTypeOK
<1>1. IInv => CacheTypeOK
  BY DEF IInv
<1> QED BY CacheInvariant, <1>1, PTL

(* resolve_model_path: whatever fails or is killed, the cache entry is     *)
(* absent or one whole conversion, and a rename's source is the            *)
(* conversion's own file.                                                  *)
THEOREM EntryIsWhole == ASSUME ~Overlap PROVE Spec => []PublishesWhole
<1>1. IInv => PublishesWhole
  BY DEF IInv, CandidatesWhole, EntryWhole, PublishesWhole, Cached
<1> QED BY CacheInvariant, <1>1, PTL

-----------------------------------------------------------------------------
(* A step moves one process.                                               *)
LEMMA OneMoves ==
  ASSUME CacheTypeOK, NEW q \in Procs, Step(q), NEW p \in Procs, pc'[p] # pc[p]
  PROVE  p = q
<1>1. CASE Progress(q)
  BY <1>1 DEF CacheTypeOK, Progress, Download, Prepare, UnlinkHidden, OpenHidden, WriteChunk,
     ReplaceTarget, WriteStats, PublishStats, Publish, Goto
<1>2. CASE ~Progress(q)
  BY <1>2 DEF CacheTypeOK, Step, Hit, Miss, Undo, Crash, Load, Leave, Quit, Abort, Fail, Goto
<1> QED BY <1>1, <1>2

(* write_uocr_model, then its statistics, then the entry: a conversion     *)
(* that returns leaves a model and statistics of the same conversion.      *)
THEOREM StatsDescribeEntry == ASSUME ~Overlap PROVE Spec => StatsOfEntry
<1>1. ASSUME IInv, Next, NEW p \in Procs, pc[p] = "publish", pc'[p] = "returned"
      PROVE data'[path'["out"]] = Filled(stats')
  <2>1. Publish(p)
    <3>1. Step(p)
      BY <1>1, OneMoves DEF Next, Step, IInv
    <3>2. ~Progress(p) => FALSE
      BY <1>1, <3>1 DEF Step, IInv, CacheTypeOK, Hit, Miss, Undo, Crash, Load, Leave, Quit,
         Abort, Fail, Goto, Staging, Resting
    <3> QED BY <1>1, <3>2 DEF Progress, Download, Prepare, UnlinkHidden, OpenHidden, WriteChunk,
         ReplaceTarget, WriteStats, PublishStats
  <2>2. path'["out"] = path["tmp"] /\ path["tmp"] # NoInode
    BY <1>1, <2>1 DEF IInv, CacheTypeOK, Publish, Renamed
  <2>3. data'[path'["out"]] = data[path'["out"]]
    <3>1. path' \in [Paths -> Inodes \cup {NoInode}] /\ fd' = fd /\ got' = got
      BY <1>1, <2>1 DEF IInv, CacheTypeOK, Publish, Renamed
    <3> QED BY <1>1, <2>1, <2>2, <3>1, Reclaimed DEF IInv, CacheTypeOK, Publish
  <2> QED BY <1>1, <2>1, <2>2, <2>3 DEF IInv, StagedIsOwn, Reported, Publish
<1> DEFINE P == \A p \in Procs : pc[p] = "publish" /\ pc'[p] = "returned"
                                   => data'[path'["out"]] = Filled(stats')
<1>2. IInv /\ [Next]_vars => [P]_vars
  BY <1>1
<1> QED BY CacheInvariant, <1>2, PTL DEF Spec, StatsOfEntry

(* resolve_model_path: failed conversions leave existing files intact.     *)
THEOREM FailuresKeepTheEntry == ASSUME ~Overlap PROVE Spec => FailureKeepsEntry
<1>1. ASSUME IInv, Next, NEW p \in Procs, pc[p] \in Converting, pc'[p] \in {"failed", "idle"}
      PROVE path'["out"] = before[p]
  <2>1. Step(p) /\ before[p] = path["out"]
    BY <1>1, OneMoves DEF Next, Step, IInv, Planned, Converting, Staging
  <2>2. CASE Progress(p)
    BY <1>1, <2>1, <2>2 DEF IInv, CacheTypeOK, Progress, Download, Prepare, UnlinkHidden,
       OpenHidden, WriteChunk, ReplaceTarget, WriteStats, PublishStats, Publish, Goto, fileVars
  <2>3. CASE ~Progress(p)
    BY <1>1, <2>1, <2>3 DEF Step, IInv, CacheTypeOK, Hit, Miss, Undo, Crash, Load, Leave, Quit,
       Abort, Fail, Goto, fileVars, Converting, Staging, Resting
  <2> QED BY <2>2, <2>3
<1> DEFINE P == \A p \in Procs : pc[p] \in Converting /\ pc'[p] \in {"failed", "idle"}
                                   => path'["out"] = before[p]
<1>2. IInv /\ [Next]_vars => [P]_vars
  BY <1>1
<1> QED BY CacheInvariant, <1>2, PTL DEF Spec, FailureKeepsEntry

(* uocr_engine_open maps the entry: what an engine has mapped is never     *)
(* written to, however often the entry is replaced under it.               *)
THEOREM MappedFilesStay == ASSUME ~Overlap PROVE Spec => MappedFilesStable
<1>1. ASSUME IInv, Next, NEW p \in Procs, got[p] # NoInode, got'[p] = got[p]
      PROVE data'[got[p]] = data[got[p]]
  <2>1. PICK q \in Procs : Step(q)
    BY <1>1 DEF Next, Step
  <2>2. CASE Prepare(q) \/ UnlinkHidden(q) \/ ReplaceTarget(q) \/ Publish(q) \/ Abort(q) \/ Quit(q)
    <3>1. /\ path' \in [Paths -> Inodes \cup {NoInode}] /\ fd' \in [Procs -> Inodes \cup {NoInode}]
          /\ got' \in [Procs -> Inodes \cup {NoInode}] /\ Reclaim
      BY <1>1, <2>2 DEF IInv, CacheTypeOK, Prepare, UnlinkHidden, ReplaceTarget, Publish, Abort, Quit,
         Renamed
    <3> QED BY <1>1, <3>1, Reclaimed DEF IInv
  <2>3. CASE OpenHidden(q)
    BY <1>1, <2>3 DEF IInv, CacheTypeOK, MapsApart, OpenHidden, Free
  <2>4. CASE WriteChunk(q)
    BY <1>1, <2>4 DEF IInv, CacheTypeOK, MapsApart, Writing, WriteChunk
  <2>5. CASE \/ Hit(q) \/ (\E force \in BOOLEAN : Miss(q, force)) \/ Download(q) \/ Fail(q)
             \/ WriteStats(q) \/ PublishStats(q) \/ Load(q)
    BY <2>5 DEF Hit, Miss, Download, Fail, WriteStats, PublishStats, Load, fileVars
  <2> QED BY <2>1, <2>2, <2>3, <2>4, <2>5 DEF Step, Progress, Undo, Crash, Leave
<1> DEFINE P == \A p \in Procs : got[p] # NoInode /\ got'[p] = got[p]
                                   => data'[got[p]] = data[got[p]]
<1>2. IInv /\ [Next]_vars => [P]_vars
  BY <1>1
<1> QED BY CacheInvariant, <1>2, PTL DEF Spec, MappedFilesStable
=============================================================================
