---------------------------- MODULE MCOcrCommand ----------------------------
(* Every function of ocr.py, on requests of every crop grid, on good and bad *)
(* prompts, on engines of its own and given ones, of either model; a call    *)
(* among threads that replace the tokenizer; and the texts it may parse.     *)
EXTENDS OcrCommand

Options1(model, prompt) ==
  [model |-> model, prompt |-> prompt, preset |-> "base", grid |-> <<1, 1>>, pages |-> 1,
   maxLength |-> 32768, maxNew |-> None]

\* A call of generate_prepared on an engine of its own.
Owned(form, o) ==
  [kind |-> "prepared", form |-> form, o |-> o, owned |-> TRUE, fileModel |-> o.model,
   maxGen |-> 512, keep |-> FALSE, oldPages |-> 0, concurrent |-> FALSE, parses |-> FALSE]

Given(c, limits) ==
  [k \in DOMAIN c \cup {"limits"} |->
     IF k = "limits" THEN limits ELSE IF k = "owned" THEN FALSE ELSE c[k]]

One1 == <<"image", "text">>
One2 == <<"PAGE", "image", "text">>
TwoPages == <<"PAGE", "image", "PAGE", "image", "text">>
Prompts ==
  {One1, One2, TwoPages, <<"text">>, <<"text", "image">>, <<"PAGE", "text", "image">>,
   <<"image", "image", "text">>, <<"PAGE", "image", "image">>}

Gundam(model, prompt, grid) ==
  [Options1(model, prompt) EXCEPT !.preset = "gundam", !.grid = grid]

\* Every crop grid, of either model.
Crops == {Owned("image", Gundam("v1", One1, g)) : g \in Grids("v1")}
           \cup {Owned("image", Gundam("v2", One2, g)) : g \in Grids("v2")}

\* Every prompt in every form; no, one and two pages.
Prompted ==
  {[Owned(form, [Options1(model, prompt) EXCEPT !.pages = n]) EXCEPT !.fileModel = file] :
     form \in {"image", "pages", "text"}, model \in {"v1", "v2"}, file \in {"v1", "v2"},
     prompt \in Prompts, n \in {0, 1, 2}}

\* Budgets that end before the prompt, within it, at and past the positions.
Budgets ==
  {Owned("image", [Options1(model, IF model = "v1" THEN One1 ELSE One2)
                     EXCEPT !.maxLength = most, !.maxNew = new]) :
     model \in {"v1", "v2"}, most \in {0, 300, 32768, 131072, 131073}, new \in {None, -1, 0, 1, 32768}}

\* So many pages that the prompt alone is past the positions of v1.
Long == {Owned("pages", [Options1("v1", One1) EXCEPT !.pages = n]) : n \in {119, 120, 121}}

\* Engines that are given, large enough, too small and of the other model.
OnGiven ==
  {Given(Owned("image", [Options1(model, IF model = "v1" THEN One1 ELSE One2) EXCEPT !.maxNew = 5]),
         Limits(file, prompt, gen)) :
     model \in {"v1", "v2"}, file \in {"v1", "v2"}, prompt \in {100, 4096}, gen \in {1, 512}}

Wrapped(kind, form, o, maxGen) ==
  [Owned(form, o) EXCEPT !.kind = kind, !.maxGen = maxGen]

Images ==
  {Wrapped("generate", "image", [Options1("v1", One1) EXCEPT !.maxNew = 1], None)}
    \cup {Wrapped("image", "image", Options1("v1", One1), most) : most \in {None, -1, 0, 512}}
    \cup {Wrapped("pages", "pages", [Options1("v1", One1) EXCEPT !.pages = 2], 512)}

Pdfs ==
  {[Wrapped("pdf", "pages", [Options1("v1", One1) EXCEPT !.pages = n], 512)
      EXCEPT !.keep = kept, !.oldPages = old] :
     n \in 0..3, kept \in BOOLEAN, old \in {0, 3}}

\* On a given engine: among other threads, and with the text parsed.
OnShared == Given(Wrapped("image", "image", Options1("v1", One1), 512), Limits("v1", 4096, 512))
Concurrent == {[OnShared EXCEPT !.concurrent = TRUE]}
Parsed == {[OnShared EXCEPT !.parses = TRUE]}

MCCommands ==
  Crops \cup Prompted \cup Budgets \cup Long \cup OnGiven \cup Images \cup Pdfs
    \cup Concurrent \cup Parsed

-----------------------------------------------------------------------------
\* Texts of up to four pieces, v2 or v1: whole blocks, blocks of which one
\* thing is wrong, marks, white space and content.
Blocks2 ==
  {<<"BLOCK", "label", "box", "FORK">>, <<"BLOCK", "sp", "label", "level", "box", "FORK">>,
   <<"BLOCK", "label", "FORK">>, <<"BLOCK", "label", "box">>,
   <<"BLOCK", "label", "box", "box", "FORK">>}
Pieces2 ==
  Blocks2 \cup {<<"PAGE">>, <<"MERGE">>, <<"txt">>, <<"sp">>, <<"CHILD">>, <<"FORK">>,
                <<"det", "label", "box", "/det">>}
Pieces1 ==
  {<<"det", "label", "box", "/det">>, <<"ref", "label", "/ref">>,
   <<"ref", "label", "/ref", "sp", "det", "box", "/det">>, <<"det", "box", "/det">>,
   <<"det", "label", "badbox", "/det">>, <<"det", "label", "level", "/det">>,
   <<"txt">>, <<"sp">>, <<"PAGE">>, <<"/ref">>}

OrNone(pieces) == pieces \cup {<<>>}
MCTexts ==
  {a \o b \o c \o d : a \in {<<"PAGE">>, <<"sp", "PAGE">>}, b \in Pieces2,
                      c \in OrNone(Pieces2), d \in OrNone(Pieces2)}
    \cup {a \o b \o c : a \in Pieces1, b \in OrNone(Pieces1), c \in OrNone(Pieces1)}
    \cup {<<>>, <<"sp">>, <<"txt">>}
=============================================================================
