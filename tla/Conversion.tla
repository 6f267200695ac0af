------------------------------ MODULE Conversion ------------------------------
(***************************************************************************)
(* `python -m unlimitedocr_c.convert` (main, build_dry_run_plan,           *)
(* filter_plan_tensors and write_uocr_model of                             *)
(* src/unlimitedocr_c/convert.py): the checkpoint is checked and planned   *)
(* (CheckpointSource), the plan is laid out, perhaps again for one tensor, *)
(* the data of its tensors is looked up (ShardReading), and the file is    *)
(* written (ConvertedFile).                                                *)
(***************************************************************************)
EXTENDS ShardReading

conversionVars == <<sourceVars, readVars, vars>>

(* The registry gives the experts of a layer the same shapes.              *)
ASSUME ExpertShapes == \A layer \in MoeLayers : \A n \in Slots :
  /\ ExpectedShape(ExpertName(layer, n)) # None
  /\ ExpectedShape(ExpertName(layer, n)) = ExpectedShape(ExpertName(layer, n % 3))

Init == SourceInit /\ ReadInit /\ FileInit

Source == (ReadContract \/ ReadHeaders \/ CheckTensors) /\ UNCHANGED <<readVars, vars>>

ReadMetadata ==
  /\ phase = "metadata"
  /\ Go("planned", MetadataAcceptable)
  /\ IF MetadataAcceptable
     THEN LayOut(PlanOf(Names), IF opts.strict THEN "strict" ELSE "partial")
     ELSE UNCHANGED vars
  /\ UNCHANGED <<dir, docs, opts, variant, entries, reads, readVars>>

Layout == LayoutNext /\ UNCHANGED <<sourceVars, readVars>>

(* `--tensor`: the whole plan was laid out and validated; that of the one  *)
(* tensor is laid out on its own.                                          *)
Selected == {i \in 1..N : T(i).name = opts.select.name \/ T(i).id = opts.select.id}
SelectTensor ==
  /\ stage = "laid" /\ phase = "planned" /\ mode # "single" /\ opts.select # None
  /\ IF Cardinality(Selected) = 1
     THEN \E i \in Selected : LayOut(<<T(i)>>, "single") /\ UNCHANGED phase
     ELSE phase' = "refused" /\ UNCHANGED vars
  /\ UNCHANGED <<dir, docs, opts, variant, entries, reads, readVars>>

(* Every step of the writer but the one that reads rows leaves the shards. *)
Write == /\ \/ WriteRows /\ ReadRows
            \/ WriteQuietly /\ UNCHANGED readVars
         /\ UNCHANGED sourceVars

Next == \/ Source \/ ReadMetadata \/ Layout \/ SelectTensor
        \/ ResolvePayloads \/ CheckShard \/ OpenShard \/ ReplaceShard \/ Write
Spec == Init /\ [][Next]_conversionVars

-----------------------------------------------------------------------------
ConversionTypeOK ==
  /\ phase \in {"contract", "headers", "check", "metadata", "planned", "resolving", "resolved", "refused"}
  /\ variant \in {None, "v1", "v2"}
  /\ stage # "source" => FileTypeOK

(* The regions of the file are disjoint and its bytes are all there, once. *)
FileFaithful == RegionsDisjoint /\ FileExact

(* The shapes of a strict conversion, and of every v2 one, are the         *)
(* registry's, so that the experts of a layer have the same ones.          *)
ShapesChecked == opts.strict \/ variant = "v2"
CheckedShapes ==
  ShapesChecked /\ mode # "single" /\ stage \in {"laid", "done"} =>
    \A layer \in MoeLayers : Complete(layer) => SameShapes(layer)

(* Metal finds the experts of every accepted layout whose experts have the *)
(* same shapes, strict and v2 layouts are such, and no regular layout is   *)
(* refused.                                                                *)
ExpertsPlaced == ExpertsAddressable /\ CheckedShapes /\ RegularPlansAccepted

(* A tensor has one id, no two of a file the same, and the directory is in *)
(* the order of the ids.  A tensor that both checkpoints have keeps its id *)
(* from one to the other.                                                  *)
IdsStable ==
  /\ \A i, j \in 1..N : i < j => T(i).id < T(j).id
  /\ \A i \in 1..N : T(i).name.kind # "position_ids" =>
       T(i).id = IdOf(T(i).name, {n \in Names : n.kind \notin {"position_ids", "dash", "indexer"}}
                                   \cup {T(i).name})
=============================================================================
