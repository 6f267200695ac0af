-------------------------- MODULE MCRequestMemory --------------------------
(***************************************************************************)
(* Instances of RequestMemory, in units of 16 bytes: a mixed-Q4 model of   *)
(* 1846112256 bytes; v1 requests that grow and keep the arenas; v2 pages   *)
(* and windows of one to three pages, with a tail of any length, and a     *)
(* page request too large for the budget.                                  *)
(***************************************************************************)
EXTENDS RequestMemory

Q4Model == 115382016

V1Requests == {[kind |-> "text", views |-> 0, tokens |-> 40, new |-> 9],
               [kind |-> "text", views |-> 0, tokens |-> 1, new |-> 9],
               [kind |-> "text", views |-> 0, tokens |-> 900, new |-> 90],
               [kind |-> "image", views |-> 1, tokens |-> 290, new |-> 64]}

V2Requests == {[kind |-> "page", views |-> 1, tokens |-> 280, new |-> 512],
               [kind |-> "page", views |-> 2, tokens |-> 560, new |-> 1],
               [kind |-> "page", views |-> 4, tokens |-> 1100, new |-> 1],
               [kind |-> "window", views |-> 1, tokens |-> 275, new |-> 6000],
               [kind |-> "window", views |-> 2, tokens |-> 549, new |-> 300],
               [kind |-> "window", views |-> 3, tokens |-> 823, new |-> 1]}

LongTexts == {[kind |-> "text", views |-> 0, tokens |-> 40, new |-> 9],
              [kind |-> "text", views |-> 0, tokens |-> 20000, new |-> 512]}

Tails == 403..434
Texts == {0, 1, 40, 127, 128}
=============================================================================
