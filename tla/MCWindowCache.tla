---------------------------- MODULE MCWindowCache ----------------------------
(***************************************************************************)
(* Small instance of WindowCache: pages of four rows (a marker and three   *)
(* image tokens), tails of one or two rows, two text rows, documents of up *)
(* to five pages in windows of one or two.                                 *)
(***************************************************************************)
EXTENDS WindowCache

CacheLimits == {[prompt |-> 14, gen |-> 9]}
CacheRequests == [views : 1..3, instruction : {1}, maxNew : {3, 9}, base : {TRUE}]
=============================================================================
