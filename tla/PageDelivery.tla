---------------------------- MODULE PageDelivery ----------------------------
(***************************************************************************)
(* What a document stream promises its consumer, apart from how windows,   *)
(* retained context and output budgets work: the pages of the source are   *)
(* transcribed in order, each exactly once; a chunk holds whole pages; and *)
(* a stream that reports completion has delivered every page.              *)
(***************************************************************************)
EXTENDS Naturals, Sequences

CONSTANT MaxChunk   \* most pages in one chunk

VARIABLES
  source,   \* number of pages the source holds
  out,      \* pages delivered so far, oldest first
  state     \* "idle", "running", "complete" or "incomplete"

deliveryVars == <<source, out, state>>

DeliveryInit == source = 0 /\ out = <<>> /\ state = "idle"

(* A stream over some source begins, or fails to.                          *)
Start ==
  /\ state # "running"
  /\ source' \in Nat
  /\ out' = <<>>
  /\ state' \in {"running", "incomplete"}

(* A chunk of the next k pages.                                            *)
Deliver(k) ==
  /\ state = "running"
  /\ Len(out) + k <= source
  /\ out' = out \o [i \in 1..k |-> Len(out) + i - 1]
  /\ UNCHANGED <<source, state>>

Finish ==
  /\ state = "running"
  /\ Len(out) = source
  /\ state' = "complete"
  /\ UNCHANGED <<source, out>>

Abort ==
  /\ state = "running"
  /\ state' = "incomplete"
  /\ UNCHANGED <<source, out>>

DeliveryNext == Start \/ (\E k \in 1..MaxChunk : Deliver(k)) \/ Finish \/ Abort

DeliverySpec == DeliveryInit /\ [][DeliveryNext]_deliveryVars
=============================================================================
