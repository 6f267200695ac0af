---------------------------- MODULE ShardReading ----------------------------
(***************************************************************************)
(* From a plan to the bytes of its tensors (_resolve_safetensors_payloads  *)
(* and write_uocr_model of src/unlimitedocr_c/convert.py).  The tensors    *)
(* are grouped by shard, and the header and the length of each shard are   *)
(* checked; the files are closed, the configuration is hashed, and then    *)
(* they are opened again, to be read to the end of the conversion at the   *)
(* places that the check found.  Another process may replace a shard       *)
(* between any two of these steps, by a rename: who has it open keeps it.  *)
(***************************************************************************)
EXTENDS CheckpointSource, ConvertedFile

VARIABLES
  checked,   \* per shard the content that its check saw
  readers,   \* per shard the content that is open
  late,      \* history: shards replaced between their check and their opening
  taken      \* history: per tensor the contents its rows were read from

readVars == <<checked, readers, late, taken>>

ReadInit == checked = <<>> /\ readers = <<>> /\ late = {} /\ taken = <<>>

PayloadFile(t) == IF opts.payload # None THEN opts.payload
                  ELSE IF t.file # None THEN t.file ELSE DefaultPayload
SameEntry(e, f) == e = f
Has(c, t) ==
  /\ c # None
  /\ c.size >= t.entry.end
  /\ t.name \in DOMAIN c.entries /\ SameEntry(c.entries[t.name], t.entry)

PlannedTensors == {T(i) : i \in 1..N}
Grouped ==
  /\ opts.payload # None => \A t, u \in PlannedTensors : t.file = u.file
  /\ \A t \in PlannedTensors : PayloadFile(t) # None

ResolvePayloads ==
  /\ stage = "laid" /\ phase = "planned" /\ (opts.select # None => mode = "single")
  /\ IF Grouped
     THEN /\ phase' = "resolving"
          /\ reads' = [i \in 1..N |-> PayloadFile(T(i))]
          /\ taken' = [i \in 1..N |-> {}]
     ELSE phase' = "refused" /\ UNCHANGED <<reads, taken>>
  /\ UNCHANGED <<dir, docs, opts, variant, entries, checked, readers, late, vars>>

Wanted == {reads[i] : i \in 1..N}
With(m, f, c) == [g \in DOMAIN m \cup {f} |-> IF g = f THEN c ELSE m[g]]

(* The shards in the order of their first tensors: each has to be there,   *)
(* and to have what is planned.                                            *)
CheckShard ==
  /\ phase = "resolving"
  /\ \E i \in 1..N :
       /\ reads[i] \notin DOMAIN checked
       /\ \A j \in 1..(i - 1) : reads[j] \in DOMAIN checked
       /\ LET c == dir[reads[i]].real IN
          IF reads[i] \in Files /\ \A j \in 1..N : reads[j] = reads[i] => Has(c, T(j))
          THEN checked' = With(checked, reads[i], c) /\ UNCHANGED phase
          ELSE phase' = "refused" /\ UNCHANGED checked
  /\ UNCHANGED <<dir, docs, opts, variant, entries, reads, readers, late, taken, vars>>

(* All of them, in the order of the alphabet, and then the output.         *)
OpenShard ==
  /\ phase = "resolving" /\ Wanted \subseteq DOMAIN checked
  /\ \E k \in DOMAIN FileOrder : LET f == FileOrder[k] IN
       /\ f \in Wanted \ DOMAIN readers
       /\ \A j \in 1..(k - 1) : FileOrder[j] \notin Wanted \ DOMAIN readers
       /\ IF dir[f].real = None
          THEN phase' = "refused" /\ UNCHANGED <<readers, stage>>
          ELSE /\ readers' = With(readers, f, dir[f].real)
               /\ IF Wanted \subseteq DOMAIN readers'
                  THEN phase' = "resolved" /\ stage' = "metadata"
                  ELSE UNCHANGED <<phase, stage>>
  /\ UNCHANGED <<dir, docs, opts, variant, entries, reads, checked, late, taken>>
  /\ UNCHANGED <<plan, layoutVars, streamVars>>

(* Rows come from the open file, which is not checked again: from where    *)
(* the data began when it was, and as far as there are bytes.              *)
DataByName(f) ==   \* mutant: the shard is opened again for each tensor
  IF dir[f].real = None THEN readers[f] ELSE dir[f].real
DataOf(f) == readers[f]
ReadRows ==
  LET f == reads[current]
      c == DataOf(f)
  IN /\ checked[f].head + T(current).entry.start + (rows + Batch) * 2 * T(current).cols
          <= c.head + c.size
     /\ taken' = [taken EXCEPT ![current] = @ \cup {c}]
     /\ UNCHANGED <<checked, readers, late>>

(* A download that ends or starts again, once.  Before the configuration   *)
(* is read there is nothing yet that could have changed.                   *)
ReplaceShard ==
  /\ phase \notin {"contract", "refused"}
  /\ opts.mayReplace
  /\ \E f \in Files, c \in Replacements :
       /\ c # dir[f].real
       /\ dir' = [dir EXCEPT ![f].real = c]
       /\ late' = IF f \in DOMAIN checked \ DOMAIN readers THEN late \cup {f} ELSE late
  /\ opts' = [opts EXCEPT !.mayReplace = FALSE]
  /\ UNCHANGED <<docs, phase, variant, entries, reads, checked, readers, taken, vars>>

-----------------------------------------------------------------------------
(* All rows of all tensors of a shard are read from one version of it, and *)
(* that is the one whose header and length were checked and agree with the *)
(* plan: whatever of the index, cached headers, default names and          *)
(* overrides said where a tensor is, and whenever a shard was replaced, but*)
(* in the one window the code leaves, after its check and before it is     *)
(* opened again.                                                           *)
ReadsItsTensors == \A i \in DOMAIN taken : \A c \in taken[i] :
  /\ reads[i] \notin late =>
       /\ c = checked[reads[i]]
       /\ T(i).name \in DOMAIN c.entries /\ c.entries[T(i).name] = T(i).entry
       /\ T(i).entry.end <= c.size
  /\ \A j \in DOMAIN taken : reads[j] = reads[i] => taken[j] \subseteq {c}
=============================================================================
