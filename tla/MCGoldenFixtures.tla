--------------------------- MODULE MCGoldenFixtures ---------------------------
(* Two dumps into one directory, each of any kind, of a text prompt or an    *)
(* image prompt that may be broken, of which every step may fail.            *)
EXTENDS GoldenFixtures

Request(tokens, images, joined, visual, expected) ==
  [tokens |-> tokens, images |-> images, joined |-> joined, visual |-> visual,
   expected |-> expected]

\* Text of two lengths; an image prompt as long as the first, a longer one;
\* placeholders in two spans; features that do not fit the span.
MCRequests ==
  {Request(3, 0, TRUE, 0, TRUE), Request(4, 0, TRUE, 0, FALSE),
   Request(3, 2, TRUE, 2, FALSE), Request(4, 2, TRUE, 2, FALSE),
   Request(3, 2, FALSE, 2, FALSE), Request(3, 2, TRUE, 3, FALSE)}
=============================================================================
