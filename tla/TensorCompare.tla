--------------------------- MODULE TensorCompare ---------------------------
(***************************************************************************)
(* `--compare-uocr --tensor`: one tensor of a finished .uocr file compared *)
(* with what converting its source again gives, in chunks that need not be *)
(* those of the conversion (src/unlimitedocr_c/convert.py).  Composes with *)
(* Conversion, whose file it reads; between the two the file may have been *)
(* damaged, and the plan may be one of another quantization profile or     *)
(* configuration.                                                          *)
(***************************************************************************)
EXTENDS Conversion

CONSTANT Damages   \* sets of offsets that may be damaged

ASSUME NoMismatch == None \notin Nat

VARIABLES
  target, as,            \* the tensor, and how the comparing plan has it
  asProfile,             \* quantization profile of that plan
  compareChunk,          \* rows of a chunk
  progress,              \* none, compare, compared, error
  compared,              \* rows compared
  mismatch,              \* first mismatch, in the order of comparing, or None
  damaged                \* offsets of damaged bytes

compareVars == <<target, as, asProfile, compareChunk, progress, compared, mismatch, damaged>>
allVars == <<conversionVars, compareVars>>

Profiles == {"fp16", "mixed-q8", "mixed-q4"}
Least(s) == CHOOSE k \in s : \A l \in s : k <= l

CompareInit ==
  /\ Init
  /\ target = 0 /\ as = None /\ asProfile = None /\ compareChunk = 0
  /\ progress = "none" /\ compared = 0 /\ mismatch = None /\ damaged = {}

Convert == Next /\ UNCHANGED compareVars

(* Data of the stored file that is not what was written.  A file with     *)
(* damaged metadata, or of another length than it says, is refused.        *)
Damage ==
  /\ stage = "done" /\ opts.compare /\ progress = "none" /\ damaged = {}
  /\ \E d \in Damages :
       /\ d # {} /\ d \subseteq {o \in DOMAIN file : o >= DataStart}
       /\ damaged' = d
       /\ stage' = "damaged"
       /\ file' = [o \in DOMAIN file |-> IF o \in d THEN <<"damaged">> ELSE file[o]]
  /\ UNCHANGED <<plan, layoutVars, current, rows, weightPos, scalePos, size>>
  /\ UNCHANGED <<sourceVars, readVars, target, as, asProfile, compareChunk, progress, compared, mismatch>>

(* What is compared is the checkpoint that was converted: a comparison     *)
(* with another one says nothing of the conversion.                        *)
SameCheckpoint == \A f \in DOMAIN readers :
  dir[f].real = readers[f] /\ readers[f] = checked[f]

(* Configurations that a comparison may be asked for.                      *)
Configs == {cfg \in {s.opts.cfg : s \in Sources} : ConfigAccepted(cfg)}

(* The plan is filtered to the tensor; an omitted one has no payload.      *)
StartCompare ==
  /\ stage \in {"done", "damaged"} /\ opts.compare /\ progress = "none"
  /\ SameCheckpoint
  /\ \E i \in 1..N, p \in Profiles, cfg \in Configs, c \in ChunkRows :
       /\ Packable(T(i).entry.shape, PlannedQtype(T(i).name, T(i).entry.shape, p, cfg))
       /\ target' = i
       /\ as' = [T(i) EXCEPT !.qtype = PlannedQtype(T(i).name, T(i).entry.shape, p, cfg)]
       /\ asProfile' = p
       /\ compareChunk' = c
       /\ progress' = IF Omitted(T(i)) THEN "error" ELSE "compare"
  /\ UNCHANGED <<conversionVars, compared, mismatch, damaged>>

(* What differs among the next bytes of a slab; reading past the end gives *)
(* less than was asked for.                                                *)
Wrong(part, slab, from, count) ==
  {k \in from..(from + count - 1) :
     slab + k \notin DOMAIN file \/ file[slab + k] # Byte(target, part, k)}

Left == as.rows - compared
Take == IF Left < compareChunk THEN Left ELSE compareChunk
WrongWeights == Wrong("weight", payload[target], compared * RowBytes(as), Take * RowBytes(as))
WrongScales  == Wrong("scale", scale[target], compared * RowScales(as), Take * RowScales(as))
FirstWrongWeights ==   \* mutant: the scales are not compared
  IF WrongWeights # {} THEN Least(WrongWeights) ELSE None
FirstWrong ==
  IF WrongWeights # {} THEN Least(WrongWeights)
  ELSE IF WrongScales # {} THEN OutBytes(as) + Least(WrongScales) ELSE None

CompareRows ==
  /\ progress = "compare" /\ compared < as.rows
  /\ compared' = compared + Take
  /\ mismatch' = IF mismatch = None THEN FirstWrong ELSE mismatch
  /\ UNCHANGED <<conversionVars, target, as, asProfile, compareChunk, progress, damaged>>

(* Truncated source, or a value that is not finite. *)
FailCompare ==
  /\ progress = "compare" /\ compared < as.rows
  /\ progress' = "error"
  /\ UNCHANGED <<conversionVars, target, as, asProfile, compareChunk, compared, mismatch, damaged>>

ExpectedBytes == OutBytes(as) + ScaleBytes(as)
ActualBytes   == OutBytes(T(target)) + ScaleBytes(T(target))

EndCompare ==
  /\ progress = "compare" /\ compared = as.rows
  /\ progress' = "compared"
  /\ mismatch' = IF mismatch = None /\ ActualBytes # ExpectedBytes
                 THEN Least({ActualBytes, ExpectedBytes}) ELSE mismatch
  /\ UNCHANGED <<conversionVars, target, as, asProfile, compareChunk, compared, damaged>>

CompareNext ==
  Convert \/ Damage \/ StartCompare \/ CompareRows \/ FailCompare \/ EndCompare
CompareSpec == CompareInit /\ [][CompareNext]_allVars

ComparedBytes   == compared * (RowBytes(as) + RowScales(as))
PayloadMatches  == mismatch = None /\ ComparedBytes = ExpectedBytes

(* The header has the profile, which is the conversion's own.  The other   *)
(* fields of an entry that are compared (flags, shapes, sizes of a block   *)
(* and a row, reasons) follow from the shape and the type.                 *)
MetadataMatches ==
  /\ opts.profile = asProfile
  /\ T(target).qtype = as.qtype
  /\ OutBytes(T(target)) = OutBytes(as) /\ ScaleBytes(T(target)) = ScaleBytes(as)
  /\ scale[target] # 0 <=> ScaleBytes(as) # 0
ExitStatus == IF PayloadMatches /\ MetadataMatches THEN 0 ELSE 1

-----------------------------------------------------------------------------
Undamaged == damaged \cap (Region(payload, OutBytes, target) \cup Region(scale, ScaleBytes, target)) = {}

(* The command says 0 exactly if the file was converted under the plan's   *)
(* profile and has the tensor as the plan converts it: of the same type,   *)
(* and no byte of its payload or its scales is damaged.  Neither chunk     *)
(* size matters.                                                           *)
CompareDecides == progress = "compared" =>
  (ExitStatus = 0 <=> asProfile = opts.profile /\ as = T(target) /\ Undamaged)

(* The first mismatch that is reported names a byte that differs, counting *)
(* the payload first and the scales after it; no earlier row differs, and  *)
(* nothing of the same slab before it.                                     *)
DamagedAt(k) == IF k < OutBytes(as) THEN payload[target] + k \in damaged
                ELSE scale[target] + (k - OutBytes(as)) \in damaged
FirstMismatchReal ==
  progress = "compared" /\ mismatch # None /\ as = T(target) =>
    LET out == OutBytes(as) IN
    /\ mismatch < ExpectedBytes /\ DamagedAt(mismatch)
    /\ \A k \in 0..(mismatch - 1) : DamagedAt(k) => mismatch >= out /\ k < out
    /\ mismatch >= out =>
         \A k \in 0..(out - 1) : DamagedAt(k) =>
           k \div RowBytes(as) > (mismatch - out) \div RowScales(as)

(* A comparison decides, and where it says the first difference is there   *)
(* is one.                                                                 *)
CompareSound == CompareDecides /\ FirstMismatchReal
=============================================================================
