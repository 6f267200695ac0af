--------------------------- MODULE MCEngineMemory ---------------------------
(***************************************************************************)
(* An engine of either architecture: the constants are those of a v2       *)
(* engine under a budget, and V1 is the same module for a v1 engine        *)
(* without one.                                                            *)
(***************************************************************************)
EXTENDS MCRequestMemory

VARIABLE architecture

V1 == INSTANCE RequestMemory
        WITH V2 <- FALSE, Budget <- 0, Requests <- V1Requests, TailRows <- {}, TextRows <- {}

EngineInit == \/ architecture = "v2" /\ Init
              \/ architecture = "v1" /\ V1!Init
EngineNext == /\ \/ architecture = "v2" /\ Next
                 \/ architecture = "v1" /\ V1!Next
              /\ UNCHANGED architecture
EngineSpec == EngineInit /\ [][EngineNext]_<<vars, architecture>>

(* Between two requests only what its architecture keeps is booked, a v2   *)
(* engine the open document, a v1 engine its arenas and decoder scratch;   *)
(* and the arenas the context holds are those the engine has booked.       *)
FootprintOfEither ==
  IF architecture = "v2" THEN IdleFootprint /\ ArenasBooked
  ELSE V1!IdleFootprint /\ V1!ArenasBooked

=============================================================================
