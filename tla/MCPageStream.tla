---------------------------- MODULE MCPageStream ----------------------------
(***************************************************************************)
(* Small instance of PageStream: pages of three rows, sources of up to     *)
(* three pages, windows of one or two pages (three do not fit the context),*)
(* and single-image requests smaller and larger than a stream's engine.    *)
(***************************************************************************)
EXTENDS PageStream

SmallOptions ==
  [window : {1, 2}, cap : {1, 2}, maxOut : {NoLimit, 3}]
    \cup {[window |-> 3, cap |-> 2, maxOut |-> NoLimit],
          [window |-> 1, cap |-> 2, maxOut |-> 1]}

OnePageOptions == {[window |-> 1, cap |-> 2, maxOut |-> NoLimit]}

SmallSingles == {[prompt |-> 5, gen |-> 2], [prompt |-> 12, gen |-> 2]}
SmallEngine  == [prompt |-> 5, gen |-> 2]
=============================================================================
