----------------------------- MODULE OcrParsing -----------------------------
(***************************************************************************)
(* parse_ocr of src/unlimitedocr_c/parsing.py: a generated text becomes a  *)
(* document, or an error with nothing of a document.                       *)
(*                                                                         *)
(* A text is a sequence of symbols: the layout controls, "sp" (white       *)
(* space), "label", "box" (four coordinates in range and in order),        *)
(* "badbox", "level", "level0", and "txt" for all else, HTML included.     *)
(* The parser reads one page, block or mark in a step; what it gives is    *)
(* compared with a definition of the format that does not scan.            *)
(***************************************************************************)
EXTENDS Integers, Sequences, FiniteSets

CONSTANTS Texts   \* the generated texts looked at

VARIABLES
  text,      \* the output
  at,        \* pos
  pages,     \* pages that are complete
  blocks,    \* blocks of the page being read
  merging,   \* merge_offset is not None
  verdict    \* none, start, v1, v2, document, error

parseVars == <<text, at, pages, blocks, merging, verdict>>

Controls == {"PAGE", "BLOCK", "FORK", "MERGE", "CHILD", "level", "level0",
             "det", "/det", "ref", "/ref"}
Symbols == Controls \cup {"sp", "label", "box", "badbox", "txt"}

ASSUME TextsAssumption == Texts \subseteq Seq(Symbols)

Least(s) == CHOOSE k \in s : \A l \in s : k <= l
End(t) == Len(t) + 1
Starts(symbol) == at < End(text) /\ text[at] = symbol

(* The first place of t from start on that is no white space, a control,   *)
(* or the marker; past the end where there is none.                        *)
SkipSpace(t, start) == Least({i \in start..Len(t) : t[i] # "sp"} \cup {End(t)})
ContentEnd(t, start) == Least({i \in start..Len(t) : t[i] \in Controls} \cup {End(t)})
Closing(t, start, marker) == Least({i \in start..Len(t) : t[i] = marker} \cup {End(t)})

-----------------------------------------------------------------------------
(* A header is the places between two marks that are no white space.  The  *)
(* label is given with the older spelling of v1.                           *)

Written(t, start, end) == {i \in start..end - 1 : t[i] # "sp"}
Holding(t, header, symbol) == Cardinality({i \in header : t[i] = symbol})

(* At most one box and one level, in either order, and nothing else. *)
Metadata(t, rest, boxRequired) ==
  /\ \A i \in rest : t[i] \in {"box", "level"}
  /\ Holding(t, rest, "box") <= 1 /\ Holding(t, rest, "level") <= 1
  /\ boxRequired => Holding(t, rest, "box") = 1

HeaderHolds(t, header, boxRequired) ==
  /\ header # {} /\ t[Least(header)] = "label"
  /\ Metadata(t, header \ {Least(header)}, boxRequired)

IsLabel(t, header) == \E i \in header : header = {i} /\ t[i] = "label"

Block(t, header, content, merged) ==
  [box |-> Holding(t, header, "box"), level |-> Holding(t, header, "level"),
   content |-> content, merged |-> merged]

-----------------------------------------------------------------------------
(* Reading.                                                                *)

ParseInit ==
  /\ text = <<>> /\ at = 1 /\ pages = <<>> /\ blocks = <<>>
  /\ merging = FALSE /\ verdict = "none"

(* A caller parses an output. *)
Parse ==
  /\ verdict = "none"
  /\ text' \in Texts /\ verdict' = "start"
  /\ UNCHANGED <<at, pages, blocks, merging>>

Reject ==
  /\ verdict' = "error"
  /\ UNCHANGED <<text, at, pages, blocks, merging>>

(* The first symbol: empty output and neither format are refused. *)
First(t) == IF SkipSpace(t, 1) < End(t) THEN t[SkipSpace(t, 1)] ELSE "none"

Begin ==
  /\ verdict = "start"
  /\ \/ /\ First(text) = "PAGE"
        /\ at' = SkipSpace(text, SkipSpace(text, 1) + 1) /\ verdict' = "v2"
        /\ UNCHANGED <<text, pages, blocks, merging>>
     \/ /\ First(text) \in {"det", "ref"}
        /\ at' = SkipSpace(text, 1) /\ verdict' = "v1"
        /\ UNCHANGED <<text, pages, blocks, merging>>
     \/ First(text) \notin {"PAGE", "det", "ref"} /\ Reject

(* The block of a header that ends at `close`, with its content. *)
TakeBlock(header, close) ==
  LET end == ContentEnd(text, close + 1)
  IN  /\ blocks' = Append(blocks, Block(text, header, SubSeq(text, close + 1, end - 1), merging))
      /\ at' = end
      /\ merging' = FALSE
      /\ UNCHANGED <<text, pages, verdict>>

(* <|det|>label box<|/det|>, or <|ref|>label<|/ref|><|det|>box<|/det|>. *)
V1Block ==
  /\ verdict = "v1" /\ at < End(text)
  /\ \/ /\ Starts("det")
        /\ LET close == Closing(text, at + 1, "/det")
               header == Written(text, at + 1, close)
           IN  IF close < End(text) /\ HeaderHolds(text, header, TRUE)
               THEN TakeBlock(header, close) ELSE Reject
     \/ /\ Starts("ref")
        /\ LET label == Closing(text, at + 1, "/ref")
               open == SkipSpace(text, label + 1)
               close == Closing(text, open + 1, "/det")
               rest == Written(text, open + 1, close)
           IN  IF /\ label < End(text) /\ IsLabel(text, Written(text, at + 1, label))
                  /\ open < End(text) /\ text[open] = "det"
                  /\ close < End(text) /\ Metadata(text, rest, TRUE)
               THEN TakeBlock(rest, close) ELSE Reject
     \/ ~Starts("det") /\ ~Starts("ref") /\ Reject

EndV1 ==
  /\ verdict = "v1" /\ at = End(text)
  /\ pages' = <<blocks>> /\ verdict' = "document"
  /\ UNCHANGED <<text, at, blocks, merging>>

\* mutant: blank pages are left out
V2PageSkipsBlank ==
  /\ verdict = "v2" /\ Starts("PAGE")
  /\ IF merging THEN Reject
     ELSE /\ pages' = IF blocks = <<>> THEN pages ELSE Append(pages, blocks)
          /\ blocks' = <<>> /\ at' = SkipSpace(text, at + 1)
          /\ UNCHANGED <<text, merging, verdict>>

(* Every <PAGE> but the first ends a page, a blank one too. *)
V2Page ==
  /\ verdict = "v2" /\ Starts("PAGE")
  /\ IF merging THEN Reject
     ELSE /\ pages' = Append(pages, blocks) /\ blocks' = <<>>
          /\ at' = SkipSpace(text, at + 1)
          /\ UNCHANGED <<text, merging, verdict>>

V2Merge ==
  /\ verdict = "v2" /\ Starts("MERGE")
  /\ IF blocks = <<>> \/ merging THEN Reject
     ELSE /\ merging' = TRUE /\ at' = SkipSpace(text, at + 1)
          /\ UNCHANGED <<text, pages, blocks, verdict>>

V2Block ==
  /\ verdict = "v2" /\ Starts("BLOCK")
  /\ LET close == Closing(text, at + 1, "FORK")
         header == Written(text, at + 1, close)
     IN  IF close < End(text) /\ HeaderHolds(text, header, FALSE)
         THEN TakeBlock(header, close) ELSE Reject

V2Unexpected ==
  /\ verdict = "v2" /\ at < End(text) /\ text[at] \notin {"PAGE", "MERGE", "BLOCK"}
  /\ Reject

EndV2 ==
  /\ verdict = "v2" /\ at = End(text)
  /\ IF merging THEN Reject
     ELSE /\ pages' = Append(pages, blocks) /\ verdict' = "document"
          /\ UNCHANGED <<text, at, blocks, merging>>

ParseNext ==
  \/ Parse \/ Begin \/ V1Block \/ EndV1
  \/ V2Page \/ V2Merge \/ V2Block \/ V2Unexpected \/ EndV2

-----------------------------------------------------------------------------
(* The format, said of each control and of its neighbours.                 *)

Marks(t, symbol) == {i \in 1..Len(t) : t[i] = symbol}
NextControl(t, i) == ContentEnd(t, i + 1)
Follows(t, i, symbol) == \E j \in 1..i - 1 : t[j] = symbol /\ NextControl(t, j) = i
OnlySpaceAfter(t, i) == SkipSpace(t, i + 1) = NextControl(t, i)
Inside(t, i, open, close) ==
  \E b \in Marks(t, open) : b < i /\ i <= Closing(t, b + 1, close)

V2Format(t) ==
  /\ \A i \in Marks(t, "PAGE") : OnlySpaceAfter(t, i)
  /\ \A i \in Marks(t, "MERGE") :
       /\ OnlySpaceAfter(t, i) /\ NextControl(t, i) \in Marks(t, "BLOCK")
       /\ Follows(t, i, "FORK")
  /\ \A i \in Marks(t, "BLOCK") :
       LET close == Closing(t, i + 1, "FORK")
       IN  close < End(t) /\ HeaderHolds(t, Written(t, i + 1, close), FALSE)
  /\ \A i \in Marks(t, "FORK") \cup Marks(t, "level") : Inside(t, i, "BLOCK", "FORK")
  /\ \A i \in 1..Len(t) : t[i] \notin {"level0", "CHILD", "det", "/det", "ref", "/ref"}

AfterLabel(t, i) == \E c \in Marks(t, "/ref") : SkipSpace(t, c + 1) = i

V1Format(t) ==
  /\ \A i \in Marks(t, "det") :
       LET close == Closing(t, i + 1, "/det")
           header == Written(t, i + 1, close)
       IN  /\ close < End(t)
           /\ IF AfterLabel(t, i) THEN Metadata(t, header, TRUE) ELSE HeaderHolds(t, header, TRUE)
  /\ \A i \in Marks(t, "ref") :
       LET close == Closing(t, i + 1, "/ref")
       IN  /\ IsLabel(t, Written(t, i + 1, close))
           /\ SkipSpace(t, close + 1) \in Marks(t, "det")
  /\ \A i \in Marks(t, "/det") \cup Marks(t, "level") : Inside(t, i, "det", "/det")
  /\ \A i \in Marks(t, "/ref") : Inside(t, i, "ref", "/ref")
  /\ \A i \in 1..Len(t) : t[i] \notin {"level0", "CHILD", "PAGE", "MERGE", "BLOCK", "FORK"}

InFormat(t) ==
  \/ First(t) = "PAGE" /\ V2Format(t)
  \/ First(t) \in {"det", "ref"} /\ V1Format(t)

(* Places in their order. *)
InOrder(s) ==
  [k \in 1..Cardinality(s) |-> CHOOSE i \in s : Cardinality({j \in s : j <= i}) = k]

(* The blocks whose headers begin at these places and end at a marker. *)
BlockAt(t, i, marker) ==
  LET close == Closing(t, i + 1, marker)
  IN  Block(t, Written(t, i + 1, close), SubSeq(t, close + 1, NextControl(t, close) - 1),
            Follows(t, i, "MERGE"))
BlocksAt(t, s, marker) == [k \in DOMAIN InOrder(s) |-> BlockAt(t, InOrder(s)[k], marker)]

V2Blocks(t, page) ==
  BlocksAt(t, {i \in Marks(t, "BLOCK") : page < i /\ i < Closing(t, page + 1, "PAGE")}, "FORK")

PagesAt(t, s) == [k \in DOMAIN InOrder(s) |-> V2Blocks(t, InOrder(s)[k])]

FormatPages(t) ==
  IF First(t) = "PAGE" THEN PagesAt(t, Marks(t, "PAGE")) ELSE <<BlocksAt(t, Marks(t, "det"), "/det")>>

(* A text is parsed exactly when it is in the format, and what is given is *)
(* all of it: as many pages as it has marks, blank ones kept, each block   *)
(* on the page and in the order it was generated, its content verbatim up  *)
(* to the next control, a <MERGE> with the block it precedes; anything     *)
(* else is an error and never a part of a document (parsing.py: parse_ocr, *)
(* docs/plan_ocr_parsing.md: "No repair, clamping or partial result").     *)
ParseMatchesFormat ==
  /\ verdict = "document" => InFormat(text) /\ pages = FormatPages(text)
  /\ verdict = "error" => ~InFormat(text)
=============================================================================
