------------------------- MODULE MCDocumentSession -------------------------
(***************************************************************************)
(* Small instance of DocumentSession: pages of three rows (a marker and    *)
(* two image tokens), tails of one row in blocks of two, one text row.     *)
(***************************************************************************)
EXTENDS DocumentSession

SmallLimits == {[prompt |-> 11, gen |-> 5]}

SmallRequests ==
  [views : 1..3, instruction : {1}, maxNew : {0, 1, 3, 5, 6}, base : {TRUE}]
    \cup [views : {2}, instruction : {1}, maxNew : {3}, base : {FALSE}]
=============================================================================
