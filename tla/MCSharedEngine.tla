--------------------------- MODULE MCSharedEngine ---------------------------
(***************************************************************************)
(* Small instances of SharedEngine: two threads that share one object, two *)
(* calls a thread and two sizes of engine.                                 *)
(***************************************************************************)
EXTENDS SharedEngine, TLC

CONSTANTS t1, t2, o1

OneObject == (t1 :> o1) @@ (t2 :> o1)
=============================================================================
