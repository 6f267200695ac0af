------------------------------ MODULE PageGuard ------------------------------
(***************************************************************************)
(* The page-count guard that constrains which token the v2 decoder may     *)
(* select next (src/runtime/uocr_page_state.c).  The vocabulary is reduced *)
(* to the three kinds of token the guard and the document loop tell apart: *)
(* the page marker, the end of sequence, and everything else.              *)
(*                                                                         *)
(* The C filter is a 32-bit word (0: unrestricted, token + 1: exclude the  *)
(* token, high bit: force the token) that the argmax kernels interpret;    *)
(* here a filter is the set of tokens those kernels may select.            *)
(***************************************************************************)
EXTENDS Naturals

PAGE == "PAGE"
EOS  == "EOS"
TEXT == "TEXT"
Tokens == {PAGE, EOS, TEXT}

(* A guard counts the markers generated and the tokens since the last one. *)
Guards == [expected : Nat, cap : Nat, markers : Nat, length : Nat]

ExcludeToken(token) == Tokens \ {token}
ForceToken(token)   == {token}

(* Defective variant: one token too late.                                  *)
PageIsFullLate(g) == g.cap # 0 /\ g.length > g.cap

PageIsFull(g) == g.cap # 0 /\ g.length >= g.cap

GuardFilter(g) ==
  CASE g.expected = 0         -> Tokens
    [] g.expected # 0 /\ g.markers > g.expected -> ForceToken(EOS)
    [] g.expected # 0 /\ g.markers <= g.expected /\ PageIsFull(g) ->
         ForceToken(IF g.markers < g.expected THEN PAGE ELSE EOS)
    [] g.expected # 0 /\ g.markers < g.expected /\ ~PageIsFull(g) -> ExcludeToken(EOS)
    [] g.expected # 0 /\ g.markers = g.expected /\ ~PageIsFull(g) -> Tokens

GuardAccept(g, token) ==
  IF token = PAGE THEN [g EXCEPT !.markers = @ + 1, !.length = 0]
                  ELSE [g EXCEPT !.length = @ + 1]
=============================================================================
