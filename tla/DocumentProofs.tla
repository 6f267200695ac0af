---------------------------- MODULE DocumentProofs ----------------------------
(***************************************************************************)
(* The document session, and the streams that drive it, for every value of *)
(* the constants that the assumptions of DocumentSession and PageStream    *)
(* allow.                                                                  *)
(*                                                                         *)
(* The session by itself, whoever calls it: its state is well typed, and   *)
(* its safety properties hold.  SessionInv is the inductive strengthening; *)
(* it says how the window being decoded follows from the document and from *)
(* the request it was started with.                                        *)
(*                                                                         *)
(* The stream over it, of any length and from any source: the generator    *)
(* and the native session stay together, every window is admitted by the   *)
(* capacities that were computed once for the stream, no more is read or   *)
(* emitted than was asked for, and the stream implements PageDelivery.     *)
(* StreamInv is the inductive strengthening; it extends SessionInv.        *)
(***************************************************************************)
EXTENDS PageStream, TLAPS

-----------------------------------------------------------------------------
(* The session.                                                            *)

(* A retained prefix is empty or holds at least a marker, the minimal tail *)
(* and the lookahead page; an open session has a page cap.                 *)
DocInv ==
  /\ doc.prefix # 0 => doc.prefix >= 1 + TailRows + PageRows
  /\ doc.open => doc.cap # 0

(* The layout of the window being decoded.                                 *)
LayoutInv ==
  /\ win.reuse = Reuse
  /\ win.saved = SavedText
  /\ win.views = doc.owned + doc.look
  /\ win.tokens >= 1 + win.views * PageRows
  /\ win.prompt = IF win.reuse = 1 THEN doc.prefix + (win.views - 1) * PageRows
                                   ELSE win.tokens
  /\ win.length = win.prompt + win.saved + win.count

(* Its progress: the markers it may generate and the tokens it has.        *)
ProgressInv ==
  /\ doc.owned # 0
  /\ win.guard.expected = doc.owned
  /\ win.guard.cap = doc.cap
  /\ win.guard.markers <= doc.owned
  /\ win.guard.markers # 0 => win.marker # 0
  /\ win.guard.length <= doc.cap
  /\ win.marker <= win.count
  /\ win.count <= win.maxNew

SessionInv ==
  /\ TypeOK
  /\ DocInv
  /\ FailureEndsSession
  /\ RetainedFits
  /\ NoInternalFailure
  /\ WindowWithinAdmission
  /\ win.decoding => active /\ ret.status = "running" /\ LayoutInv /\ ProgressInv

-----------------------------------------------------------------------------
(* The constants are positive, and so is the length of a page.             *)
LEMMA Positive ==
  /\ ImageRows \in Nat \ {0} /\ TailRows \in Nat \ {0} /\ BlockRows \in Nat \ {0}
  /\ TextRows \in Nat \ {0} /\ ExtraRows \in Nat \ {0} /\ SlackTokens \in Nat \ {0}
  /\ MaxPositions \in Nat \ {0} /\ MaxPageCap \in Nat \ {0}
  /\ PageRows \in Nat \ {0}
  /\ TailRows + BlockRows <= PageRows
  /\ TailRows + BlockRows + TextRows <= ExtraRows + 1
BY SessionConstants DEF PageRows

(* The alignment of a tail to a router block costs less than a block.      *)
LEMMA RemainderBound ==
  ASSUME NEW n \in Nat, NEW b \in Nat \ {0} PROVE n % b \in 0..(b - 1)
OBVIOUS

(* Rows of n pages: at least a page, and one page less than n pages more.  *)
LEMMA PagesOfRows ==
  ASSUME NEW n \in Nat \ {0}
  PROVE  /\ n * PageRows \in Nat
         /\ (n - 1) * PageRows \in Nat
         /\ (n - 1) * PageRows + PageRows = n * PageRows
BY Positive

(* What the window's filter lets the model select: EOS only on the last    *)
(* owned page, another page marker past it only as a stop, and another     *)
(* text token only while the page is below its cap.                        *)
LEMMA SelectableTokens ==
  ASSUME TypeOK, ProgressInv, doc.cap # 0, NEW token \in WindowFilter
  PROVE  /\ token \in {PAGE, EOS, TEXT}
         /\ token = EOS => win.guard.markers = doc.owned
         /\ token = PAGE /\ ~StopsOnMarker(token) => win.guard.markers < doc.owned
         /\ token = TEXT => win.guard.length < doc.cap
<1> DEFINE g == win.guard
<1>1. /\ g \in Guards /\ doc.owned \in Nat /\ doc.cap \in Nat
      /\ g.expected \in Nat /\ g.cap \in Nat /\ g.markers \in Nat /\ g.length \in Nat
  BY DEF TypeOK, Guards
<1>2. g.expected = doc.owned /\ g.expected # 0 /\ g.cap = doc.cap /\ g.markers <= doc.owned
  BY DEF ProgressInv
<1>3. PAGE # EOS /\ PAGE # TEXT /\ EOS # TEXT
  BY DEF PAGE, EOS, TEXT
<1>4. CASE PageIsFull(g)
  <2>1. CASE g.markers < g.expected
    <3>1. GuardFilter(g) = {PAGE}
      BY <1>1, <1>2, <1>4, <2>1 DEF GuardFilter, ForceToken
    <3>2. WindowFilter = {PAGE}
      BY <1>2, <2>1, <3>1, <1>1 DEF WindowFilter, Tokens
    <3> QED BY <3>2, <2>1, <1>2, <1>3
  <2>2. CASE g.markers = g.expected
    <3>1. GuardFilter(g) = {EOS}
      BY <1>1, <1>2, <1>4, <2>2 DEF GuardFilter, ForceToken
    <3>2. WindowFilter = {EOS}
      BY <3>1, <1>3 DEF WindowFilter, Tokens
    <3> QED BY <3>2, <2>2, <1>2, <1>3
  <2> QED BY <1>1, <1>2, <2>1, <2>2
<1>5. CASE ~PageIsFull(g)
  <2>1. g.length < doc.cap
    BY <1>1, <1>2, <1>5 DEF PageIsFull
  <2>2. CASE g.markers < g.expected
    <3>1. GuardFilter(g) = Tokens \ {EOS}
      BY <1>1, <1>2, <1>5, <2>2 DEF GuardFilter, ExcludeToken
    <3>2. WindowFilter = Tokens \ {EOS}
      BY <3>1, <1>1, <1>2, <2>2 DEF WindowFilter
    <3> QED BY <3>2, <2>1, <2>2, <1>2 DEF Tokens
  <2>3. CASE g.markers = g.expected
    <3>1. GuardFilter(g) = Tokens
      BY <1>1, <1>2, <1>5, <2>3 DEF GuardFilter
    <3>2. ~MarkerStop => WindowFilter = Tokens \ {PAGE}
      BY <3>1, <1>2, <2>3 DEF WindowFilter, ExcludeToken
    <3>3. MarkerStop => WindowFilter = Tokens
      BY <3>1 DEF WindowFilter
    <3>4. token \in Tokens /\ (~MarkerStop => token # PAGE)
      BY <3>2, <3>3
    <3> QED BY <3>4, <2>1, <2>3, <1>2 DEF Tokens, StopsOnMarker
  <2> QED BY <1>1, <1>2, <2>2, <2>3
<1> QED BY <1>4, <1>5

-----------------------------------------------------------------------------
(* The layout computed when a window starts, for its request r.            *)
LEMMA StartLayout ==
  ASSUME TypeOK, DocInv, RetainedFits, NEW r \in RequestRecords
  PROVE  /\ NTokens(r) \in Nat /\ PromptCount(r) \in Nat
         /\ NTokens(r) >= 1 + r.views * PageRows
         /\ Copied(r) \in Nat /\ PromptCount(r) - Copied(r) \in Nat
         /\ SavedText \in Nat /\ Reuse \in {0, 1}
         /\ PromptCount(r) + SavedText <= NTokens(r) + ExtraRows
         /\ Reuse = 1 =>
              PromptCount(r) + (r.views - 1) * PageRows + 1 <= 2 * (NTokens(r) + ExtraRows)
<1>1. /\ r.views \in Nat \ {0} /\ r.instruction \in Nat
      /\ doc.prefix \in Nat /\ doc.text \in Nat
  BY DEF RequestRecords, TypeOK
<1>2. /\ r.views * PageRows \in Nat
      /\ (r.views - 1) * PageRows \in Nat
      /\ (r.views - 1) * PageRows + PageRows = r.views * PageRows
  BY <1>1, PagesOfRows
<1>3. /\ doc.prefix <= TailRows + BlockRows + PageRows
      /\ doc.text <= TextRows
  BY <1>1, Positive DEF RetainedFits
<1> DEFINE rows == r.views * PageRows   older == (r.views - 1) * PageRows
<1>4. NTokens(r) = 1 + rows + r.instruction
  BY DEF NTokens
<1>5. CASE doc.prefix = 0
  BY <1>1, <1>2, <1>4, <1>5, Positive DEF PromptCount, Copied, SavedText, Reuse
<1>6. CASE doc.prefix # 0
  <2>1. /\ PromptCount(r) = doc.prefix + older /\ SavedText = doc.text /\ Reuse = 1
        /\ Copied(r) = IF r.views = 1 THEN doc.prefix - 1 ELSE doc.prefix
    BY <1>6 DEF PromptCount, Copied, SavedText, Reuse
  <2>2. older \in Nat /\ rows \in Nat /\ older + PageRows = rows
    BY <1>2
  <2> HIDE DEF rows, older
  <2>3. PromptCount(r) \in Nat /\ NTokens(r) \in Nat /\ NTokens(r) >= 1 + rows
    BY <1>1, <1>4, <2>1, <2>2
  <2>4. Copied(r) \in Nat /\ PromptCount(r) - Copied(r) \in Nat
    BY <1>1, <1>6, <2>1, <2>2
  <2>5. PromptCount(r) + SavedText <= NTokens(r) + ExtraRows
    BY <1>1, <1>3, <2>1, <2>2, <2>3, Positive
  <2>6. PromptCount(r) + older + 1 <= 2 * (NTokens(r) + ExtraRows)
    BY <1>1, <1>3, <2>1, <2>2, <2>3, Positive
  <2> QED BY <2>1, <2>3, <2>4, <2>5, <2>6, <1>1 DEF rows, older
<1> QED BY <1>1, <1>5, <1>6

(* The tail a completed window with a lookahead page retains.              *)
LEMMA RetainedTail ==
  ASSUME TypeOK, DocInv, LayoutInv, ProgressInv, doc.look = 1
  PROVE  /\ TailEnd \in Nat
         /\ RetainIsValid
         /\ RetainedPrefix \in Nat
         /\ RetainedPrefix >= 1 + TailRows + PageRows
         /\ RetainedPrefix <= 1 + (TailRows + BlockRows - 1) + PageRows
         /\ RetainedText \in Nat
         /\ RetainedText <= TextRows
<1>1. /\ doc.owned \in Nat \ {0} /\ doc.prefix \in Nat /\ doc.text \in Nat
      /\ win.count \in Nat /\ win.marker \in Nat /\ win.marker <= win.count
      /\ win.prompt \in Nat /\ win.saved \in Nat /\ win.tokens \in Nat
      /\ win.length = win.prompt + win.saved + win.count
      /\ win.views = doc.owned + 1
  BY DEF TypeOK, LayoutInv, ProgressInv
<1>2. /\ doc.owned * PageRows \in Nat
      /\ (doc.owned - 1) * PageRows \in Nat
      /\ (doc.owned - 1) * PageRows + PageRows = doc.owned * PageRows
  BY <1>1, PagesOfRows
<1>3. (win.views - 1) * PageRows = doc.owned * PageRows
  BY <1>1, Positive
<1>4. win.views * PageRows = doc.owned * PageRows + PageRows
  <2>1. win.views \in Nat \ {0} BY <1>1
  <2> QED BY <2>1, <1>3, PagesOfRows
<1>5. TailEnd \in Nat /\ TailEnd >= 1 + PageRows /\ TailEnd + PageRows <= win.prompt
  <2>1. CASE doc.prefix = 0
    <3>1. TailEnd = 1 + doc.owned * PageRows /\ win.prompt = win.tokens
      BY <2>1 DEF TailEnd, LayoutInv, Reuse
    <3>2. win.tokens >= 1 + win.views * PageRows
      BY DEF LayoutInv
    <3> QED BY <3>1, <3>2, <1>1, <1>2, <1>4, Positive
  <2>2. CASE doc.prefix # 0
    <3>1. /\ TailEnd = doc.prefix + (doc.owned - 1) * PageRows
          /\ win.prompt = doc.prefix + (win.views - 1) * PageRows
      BY <2>2 DEF TailEnd, LayoutInv, Reuse
    <3>2. doc.prefix >= 1 + TailRows + PageRows
      BY <2>2 DEF DocInv
    <3> QED BY <3>1, <3>2, <1>1, <1>2, <1>3, Positive
  <2> QED BY <2>1, <2>2
<1>6. TailEnd % BlockRows \in 0..(BlockRows - 1)
  BY <1>5, Positive, RemainderBound
<1>7. TailEnd - TailStart = TailRows + (TailEnd % BlockRows)
  BY <1>5, <1>6, Positive DEF TailStart
<1>8. RetainIsValid
  BY <1>1, <1>5, <1>6, <1>7, Positive DEF RetainIsValid, TailStart
<1>9. /\ RetainedPrefix \in Nat
      /\ RetainedPrefix >= 1 + TailRows + PageRows
      /\ RetainedPrefix <= 1 + (TailRows + BlockRows - 1) + PageRows
  BY <1>6, <1>7, Positive DEF RetainedPrefix
<1>10. RetainedText \in Nat /\ RetainedText <= TextRows
  BY <1>1, Positive DEF RetainedText, TextStart
<1> QED BY <1>5, <1>8, <1>9, <1>10

-----------------------------------------------------------------------------
(* Each operation preserves the invariant.                                 *)

(* Every failing window drops the document and the window.                 *)
LEMMA FailurePreserves ==
  ASSUME SessionInv, NEW status \in {"invalid", "memory", "fault", "exhausted"},
         WindowFails(status)
  PROVE  SessionInv'
<1>1. /\ limits' = limits /\ active' = FALSE /\ doc' = NoDocument /\ win' = NoWindow
      /\ ret' = [op |-> "window", status |-> status, markers |-> 0, count |-> 0]
  BY DEF WindowFails, Returned
<1>2. TypeOK'
  BY <1>1 DEF SessionInv, TypeOK, NoDocument, NoWindow, Guards
<1>3. win'.decoding = FALSE /\ doc'.open = FALSE /\ doc'.prefix = 0 /\ doc'.text = 0
  BY <1>1 DEF NoDocument, NoWindow
<1>4. DocInv' /\ FailureEndsSession' /\ NoInternalFailure'
  BY <1>1, <1>3 DEF DocInv, FailureEndsSession, NoInternalFailure, PageRows
<1>5. RetainedFits'
  BY <1>3, Positive DEF RetainedFits, PageRows
<1> QED BY <1>2, <1>3, <1>4, <1>5 DEF SessionInv, WindowWithinAdmission

(* A session begins empty, under its page cap.                             *)
LEMMA BeginPreserves ==
  ASSUME SessionInv, NEW cap, DocumentBegin(cap)
  PROVE  SessionInv'
<1>1. TypeOK /\ DocInv /\ FailureEndsSession /\ RetainedFits
  BY DEF SessionInv
<1>2. /\ ~win'.decoding /\ win' = win /\ limits' = limits
      /\ ret'.op = "begin" /\ ret' \in [op : {"begin"}, status : {"ok", "memory", "invalid"},
                                        markers : {0}, count : {0}]
  BY DEF DocumentBegin, Returned
<1>3. ret' \in [op : {"none", "begin", "end", "generate", "window"},
                status : {"ok", "running", "invalid", "memory", "fault", "exhausted",
                          "premature", "capacity", "tail", "nopage"},
                markers : Nat, count : Nat]
  BY <1>2
<1>4. NoInternalFailure' /\ WindowWithinAdmission'
  BY <1>2 DEF NoInternalFailure, WindowWithinAdmission
<1>5. CASE /\ doc' = [NoDocument EXCEPT !.open = TRUE, !.cap = cap]
           /\ active' = TRUE
           /\ BeginIsValid(cap)
  <2>1. cap \in Nat \ {0}
    BY <1>5, Positive DEF BeginIsValid
  <2>2. doc' = [open |-> TRUE, next |-> 0, cap |-> cap, owned |-> 0, look |-> 0,
                pending |-> FALSE, finished |-> FALSE, prefix |-> 0, text |-> 0]
    BY <1>5 DEF NoDocument
  <2>3. TypeOK'
    <3>1. doc' \in [open : BOOLEAN, next : Nat, cap : Nat, owned : Nat, look : {0, 1},
                    pending : BOOLEAN, finished : BOOLEAN, prefix : Nat, text : Nat]
      BY <2>1, <2>2
    <3> QED BY <1>1, <1>2, <1>3, <1>5, <3>1 DEF TypeOK
  <2>4. DocInv'
    BY <2>1, <2>2 DEF DocInv
  <2>5. FailureEndsSession'
    BY <1>2, <1>5, <2>2 DEF FailureEndsSession
  <2>6. RetainedFits'
    BY <2>2, Positive DEF RetainedFits, PageRows
  <2> QED BY <1>2, <1>4, <2>3, <2>4, <2>5, <2>6 DEF SessionInv
<1>6. CASE UNCHANGED <<doc, active>>
  <2>1. TypeOK'
    BY <1>1, <1>2, <1>3, <1>6 DEF TypeOK
  <2>2. DocInv'
    BY <1>1, <1>6 DEF DocInv, PageRows
  <2>3. FailureEndsSession'
    BY <1>1, <1>2, <1>6 DEF FailureEndsSession
  <2>4. RetainedFits'
    BY <1>1, <1>6 DEF RetainedFits, PageRows
  <2> QED BY <1>2, <1>4, <2>1, <2>2, <2>3, <2>4 DEF SessionInv
<1> QED BY <1>5, <1>6 DEF DocumentBegin

(* Ending a session, and generating outside one, retain nothing.           *)
LEMMA SessionEnds ==
  ASSUME SessionInv, DocumentEnd \/ GeneratePrepared
  PROVE  SessionInv'
<1>1. TypeOK /\ DocInv /\ FailureEndsSession /\ RetainedFits
  BY DEF SessionInv
<1>2. CASE DocumentEnd
  <2>1. /\ ~win'.decoding /\ win' = win /\ limits' = limits
        /\ ret' = [op |-> "end", status |-> "ok", markers |-> 0, count |-> 0]
        /\ doc' = NoDocument /\ active' = FALSE
    BY <1>2 DEF DocumentEnd, Returned
  <2>2. TypeOK'
    BY <1>1, <2>1 DEF TypeOK, NoDocument
  <2>3. doc'.open = FALSE /\ doc'.prefix = 0 /\ doc'.text = 0 /\ ret'.op = "end"
    BY <2>1 DEF NoDocument
  <2>4. DocInv'
    BY <2>3 DEF DocInv
  <2>5. FailureEndsSession'
    BY <2>1, <2>3 DEF FailureEndsSession
  <2>6. RetainedFits'
    BY <2>3, Positive DEF RetainedFits, PageRows
  <2> QED BY <2>1, <2>2, <2>3, <2>4, <2>5, <2>6
       DEF SessionInv, NoInternalFailure, WindowWithinAdmission
<1>3. CASE GeneratePrepared
  <2>1. /\ ~win'.decoding /\ UNCHANGED <<limits, active, doc, win>>
        /\ ret' \in [op : {"generate"}, status : {"ok", "fault", "invalid"},
                     markers : {0}, count : {0}]
    BY <1>3 DEF GeneratePrepared, Returned
  <2>2. TypeOK'
    BY <1>1, <2>1 DEF TypeOK
  <2>3. DocInv' /\ FailureEndsSession' /\ RetainedFits'
    BY <1>1, <2>1, Positive DEF DocInv, FailureEndsSession, RetainedFits, PageRows
  <2> QED BY <2>1, <2>2, <2>3 DEF SessionInv, NoInternalFailure, WindowWithinAdmission
<1> QED BY <1>2, <1>3

(* A window starts within what was admitted and with the layout of its     *)
(* document; a call without a session changes nothing of it.               *)
LEMMA GenerateWindowPreserves ==
  ASSUME SessionInv, NEW first, NEW owned \in Nat, NEW look \in {0, 1},
         NEW r \in RequestRecords, GenerateWindow(first, owned, look, r)
  PROVE  SessionInv'
<1>1. TypeOK /\ DocInv /\ FailureEndsSession /\ RetainedFits /\ NoInternalFailure
  BY DEF SessionInv
<1>2. r \in RequestRecords /\ owned \in Nat
  OBVIOUS
<1>3. CASE StartWindow(first, owned, look, r)
  <2>1. /\ active /\ UNCHANGED <<limits, active>>
        /\ doc' = [doc EXCEPT !.owned = owned, !.look = look, !.pending = TRUE]
        /\ win' = Prefilled(owned, r)
        /\ ret' = [op |-> "window", status |-> "running", markers |-> 0, count |-> 0]
    BY <1>3 DEF StartWindow, Returned
  <2>2. /\ owned \in Nat \ {0} /\ r.views = owned + look /\ r.maxNew \in Nat \ {0}
    <3>1. owned \in 1..(MaxPositions \div PageRows)
      BY <1>3 DEF StartWindow, WindowAdmitted, SetWindowIsValid
    <3>2. r.views = owned + look /\ r.maxNew \in 1..(owned * doc.cap + SlackTokens)
      BY <1>3 DEF StartWindow, WindowAdmitted, WindowIsValid
    <3>3. r.maxNew \in Nat
      BY <1>2 DEF RequestRecords
    <3> QED BY <1>2, <3>1, <3>2, <3>3
  <2>3. /\ NTokens(r) \in Nat /\ PromptCount(r) \in Nat
        /\ NTokens(r) >= 1 + r.views * PageRows
        /\ Copied(r) \in Nat /\ PromptCount(r) - Copied(r) \in Nat
        /\ SavedText \in Nat /\ Reuse \in {0, 1}
        /\ PromptCount(r) + SavedText <= NTokens(r) + ExtraRows
        /\ Reuse = 1 =>
             PromptCount(r) + (r.views - 1) * PageRows + 1 <= 2 * (NTokens(r) + ExtraRows)
    BY <1>1, <1>2, StartLayout
  <2>4. /\ r.views \in Nat \ {0} /\ doc.cap \in Nat /\ doc.cap # 0 /\ doc.open
    BY <1>1, <1>2, <2>1 DEF RequestRecords, TypeOK, DocInv, FailureEndsSession
  <2>5. /\ win'.decoding /\ win'.views = r.views /\ win'.tokens = NTokens(r)
        /\ win'.maxNew = r.maxNew /\ win'.reuse = Reuse /\ win'.prompt = PromptCount(r)
        /\ win'.saved = SavedText /\ win'.queries = PromptCount(r) - Copied(r)
        /\ win'.length = PromptCount(r) + SavedText + Reuse
        /\ win'.count = Reuse /\ win'.marker = Reuse
        /\ win'.guard = [expected |-> owned, cap |-> doc.cap, markers |-> Reuse, length |-> 0]
    BY <2>1 DEF Prefilled
  <2>6. /\ doc' \in [open : BOOLEAN, next : Nat, cap : Nat, owned : Nat, look : {0, 1},
                     pending : BOOLEAN, finished : BOOLEAN, prefix : Nat, text : Nat]
        /\ doc'.owned = owned /\ doc'.look = look /\ doc'.open = doc.open
        /\ doc'.cap = doc.cap /\ doc'.prefix = doc.prefix /\ doc'.text = doc.text
    BY <1>1, <1>2, <2>1 DEF TypeOK
  <2>7. TypeOK'
    <3>1. win' \in [decoding : BOOLEAN, views : Nat, tokens : Nat, maxNew : Nat,
              reuse : {0, 1}, prompt : Nat, saved : Nat, queries : Nat,
              length : Nat, count : Nat, marker : Nat, guard : Guards]
      BY <2>1, <2>2, <2>3, <2>4 DEF Prefilled, Guards
    <3> QED BY <1>1, <2>1, <2>6, <3>1 DEF TypeOK
  <2>8. DocInv' /\ FailureEndsSession' /\ NoInternalFailure'
    BY <1>1, <2>1, <2>6, Positive, <2>4
       DEF DocInv, FailureEndsSession, NoInternalFailure, PageRows
  <2>9. RetainedFits'
    BY <1>1, <2>6, Positive DEF RetainedFits, PageRows
  <2>10. WindowWithinAdmission'
    <3>1. Capacity' <= AdmittedTokens(win'.tokens, win'.maxNew)
      BY <2>2, <2>3, <2>5, Positive DEF Capacity, AdmittedTokens
    <3>2. win'.queries <= AdmittedQueries(win'.tokens)
      BY <2>3, <2>5, Positive DEF AdmittedQueries
    <3>3. PageCapacity' <= AdmittedPages(win'.views)
      BY <2>3, <2>4, <2>5 DEF PageCapacity, AdmittedPages
    <3>4. MetadataEntries' <= 2 * AdmittedQueries(win'.tokens)
      <4>1. CASE Reuse = 0
        <5>1. PromptCount(r) = NTokens(r)
          BY <4>1 DEF PromptCount
        <5>2. MetadataEntries' = NTokens(r) + 1 + r.views * PageRows
          BY <4>1, <5>1, <2>4, <2>5 DEF MetadataEntries, PageRows
        <5> QED BY <5>2, <2>3, <2>4, <2>5, PagesOfRows, Positive DEF AdmittedQueries
      <4>2. CASE Reuse = 1
        <5>1. MetadataEntries' = PromptCount(r) + 1 + (r.views - 1) * PageRows
          BY <4>2, <2>5 DEF MetadataEntries, PageRows
        <5>2. PromptCount(r) + (r.views - 1) * PageRows + 1 <= 2 * (NTokens(r) + ExtraRows)
          BY <4>2, <2>3
        <5>3. (r.views - 1) * PageRows \in Nat
          BY <2>4, PagesOfRows
        <5>4. AdmittedQueries(win'.tokens) = NTokens(r) + ExtraRows
          BY <2>5 DEF AdmittedQueries
        <5> QED BY <5>1, <5>2, <5>3, <5>4, <2>3, Positive
      <4> QED BY <4>1, <4>2, <2>3
    <3> QED BY <3>1, <3>2, <3>3, <3>4
         DEF WindowWithinAdmission
  <2>11. LayoutInv'
    <3>1. Reuse' = Reuse /\ SavedText' = SavedText
      BY <2>6 DEF Reuse, SavedText
    <3>2. win'.prompt = IF win'.reuse = 1 THEN doc'.prefix + (win'.views - 1) * PageRows
                                         ELSE win'.tokens
      BY <2>5, <2>6 DEF PromptCount
    <3> QED BY <2>2, <2>3, <2>5, <2>6, <3>1, <3>2 DEF LayoutInv, PageRows
  <2>12. ProgressInv'
    BY <2>2, <2>3, <2>4, <2>5, <2>6 DEF ProgressInv
  <2> QED BY <2>1, <2>7, <2>8, <2>9, <2>10, <2>11, <2>12 DEF SessionInv
<1>4. CASE RejectWindow(first, owned, look, r)
  <2>1. PICK status \in {"invalid", "memory", "fault"} : WindowFails(status)
    BY <1>4 DEF RejectWindow
  <2> QED BY <2>1, FailurePreserves
<1>5. CASE ~win.decoding /\ RefuseWindow
  <2>1. /\ ~active /\ UNCHANGED <<limits, active, doc, win>>
        /\ ret' = [op |-> "window", status |-> "invalid", markers |-> 0, count |-> 0]
    BY <1>5 DEF RefuseWindow, Returned
  <2>2. TypeOK' /\ DocInv' /\ FailureEndsSession' /\ NoInternalFailure'
    BY <1>1, <2>1, Positive
       DEF TypeOK, DocInv, FailureEndsSession, NoInternalFailure, PageRows
  <2>3. RetainedFits'
    BY <1>1, <2>1, Positive DEF RetainedFits, PageRows
  <2> QED BY <1>5, <2>1, <2>2, <2>3 DEF SessionInv, WindowWithinAdmission
<1> QED BY <1>3, <1>4, <1>5 DEF GenerateWindow

(* A token below the output budget is emitted and fed; the window keeps    *)
(* its layout, and its page stays within the cap.                          *)
LEMMA EmitPreserves ==
  ASSUME SessionInv, win.decoding, NEW token \in WindowFilter,
         TurnOutcome(token) = "running", EmitToken(token)
  PROVE  SessionInv'
<1>1. /\ TypeOK /\ DocInv /\ FailureEndsSession /\ RetainedFits /\ NoInternalFailure
      /\ WindowWithinAdmission /\ LayoutInv /\ ProgressInv
      /\ active /\ ret.status = "running"
  BY DEF SessionInv
<1>2. doc.cap # 0
  BY <1>1 DEF FailureEndsSession, DocInv
<1>3. /\ token \in {PAGE, EOS, TEXT}
      /\ token = EOS => win.guard.markers = doc.owned
      /\ token = PAGE /\ ~StopsOnMarker(token) => win.guard.markers < doc.owned
      /\ token = TEXT => win.guard.length < doc.cap
  BY <1>1, <1>2, SelectableTokens
<1>4. ~Completes(token) /\ token # EOS /\ win.count # win.maxNew
  <2>1. CASE Completes(token)
    BY <2>1, TurnOutcome(token) = "running" DEF TurnOutcome
  <2>2. CASE ~Completes(token) /\ token = EOS
    BY <2>2, TurnOutcome(token) = "running" DEF TurnOutcome
  <2>3. CASE ~Completes(token) /\ token # EOS
    BY <2>3, TurnOutcome(token) = "running" DEF TurnOutcome
  <2> QED BY <2>1, <2>2, <2>3
<1>5. /\ win.count \in Nat /\ win.maxNew \in Nat /\ win.marker \in Nat /\ win.length \in Nat
      /\ win.guard \in Guards /\ doc.owned \in Nat /\ doc.cap \in Nat
      /\ win.prompt \in Nat /\ win.saved \in Nat
  BY <1>1 DEF TypeOK
<1>6. /\ limits' = limits /\ active' = active /\ doc' = doc /\ ret' = ret
      /\ win' = [win EXCEPT !.count = @ + 1, !.length = @ + 1,
                            !.marker = IF token = PAGE THEN win.count + 1 ELSE @,
                            !.guard = GuardAccept(@, token)]
  BY DEF EmitToken
<1> DEFINE g == win.guard   h == GuardAccept(win.guard, token)
<1>7. /\ win'.decoding = win.decoding /\ win'.views = win.views /\ win'.tokens = win.tokens
      /\ win'.maxNew = win.maxNew /\ win'.reuse = win.reuse /\ win'.prompt = win.prompt
      /\ win'.saved = win.saved /\ win'.queries = win.queries
      /\ win'.length = win.length + 1 /\ win'.count = win.count + 1
      /\ win'.marker = (IF token = PAGE THEN win.count + 1 ELSE win.marker)
      /\ win'.guard = h
  BY <1>1, <1>6 DEF TypeOK
<1>8. /\ h \in Guards /\ h.expected = g.expected /\ h.cap = g.cap
      /\ token = PAGE => h.markers = g.markers + 1 /\ h.length = 0
      /\ token # PAGE => h.markers = g.markers /\ h.length = g.length + 1
  <2>1. g \in [expected : Nat, cap : Nat, markers : Nat, length : Nat]
    BY <1>5 DEF Guards
  <2>2. CASE token = PAGE
    <3>1. h = [g EXCEPT !.markers = g.markers + 1, !.length = 0]
      BY <2>2 DEF GuardAccept
    <3> HIDE DEF g, h
    <3>2. g.markers + 1 \in Nat
      BY <2>1
    <3>3. h \in [expected : Nat, cap : Nat, markers : Nat, length : Nat]
      BY <2>1, <3>1, <3>2
    <3> QED BY <2>1, <2>2, <3>1, <3>3 DEF Guards
  <2>3. CASE token # PAGE
    <3>1. h = [g EXCEPT !.length = @ + 1]
      BY <2>3 DEF GuardAccept
    <3> QED BY <2>1, <2>3, <3>1 DEF Guards
  <2> QED BY <2>2, <2>3
<1>9. TypeOK'
  <2>1. win' \in [decoding : BOOLEAN, views : Nat, tokens : Nat, maxNew : Nat,
                  reuse : {0, 1}, prompt : Nat, saved : Nat, queries : Nat,
                  length : Nat, count : Nat, marker : Nat, guard : Guards]
    <3>1. (IF token = PAGE THEN win.count + 1 ELSE win.marker) \in Nat
      BY <1>5
    <3>2. win.length + 1 \in Nat /\ win.count + 1 \in Nat
      BY <1>5
    <3> QED BY <1>1, <1>6, <1>8, <3>1, <3>2 DEF TypeOK
  <2> QED BY <1>1, <1>6, <2>1 DEF TypeOK
<1>10. DocInv' /\ RetainedFits'
  BY <1>1, <1>6 DEF DocInv, RetainedFits, PageRows
<1>11. FailureEndsSession' /\ NoInternalFailure'
  BY <1>1, <1>6 DEF FailureEndsSession, NoInternalFailure
<1>12. WindowWithinAdmission'
  <2>1. /\ Capacity' = Capacity /\ PageCapacity' = PageCapacity
        /\ MetadataEntries' = MetadataEntries
    BY <1>7 DEF Capacity, PageCapacity, MetadataEntries, PageRows
  <2> QED BY <1>1, <1>7, <2>1
       DEF WindowWithinAdmission, AdmittedTokens, AdmittedQueries, AdmittedPages
<1>13. LayoutInv'
  <2>1. Reuse' = Reuse /\ SavedText' = SavedText
    BY <1>6 DEF Reuse, SavedText
  <2>2. win'.length = win'.prompt + win'.saved + win'.count
    BY <1>1, <1>5, <1>7 DEF LayoutInv
  <2> QED BY <1>1, <1>6, <1>7, <2>1, <2>2 DEF LayoutInv, PageRows
<1>14. ProgressInv'
  <2>1. g.markers \in Nat /\ g.length \in Nat
    BY <1>5 DEF Guards
  <2>2. token = PAGE => g.markers < doc.owned
    <3>1. ASSUME token = PAGE, StopsOnMarker(token) PROVE FALSE
      BY <1>4, <3>1 DEF Completes, StopsOnMarker
    <3> QED BY <1>3, <3>1
  <2>3. h.markers <= doc.owned
    BY <1>1, <1>5, <1>8, <2>1, <2>2 DEF ProgressInv
  <2>4. h.length <= doc.cap
    <3>1. token # PAGE => g.length < doc.cap
      BY <1>3, <1>4
    <3> QED BY <1>5, <1>8, <2>1, <3>1
  <2>5. h.markers # 0 => win'.marker # 0
    BY <1>1, <1>5, <1>7, <1>8 DEF ProgressInv
  <2>6. win'.marker <= win'.count /\ win'.count <= win'.maxNew
    BY <1>1, <1>4, <1>5, <1>7 DEF ProgressInv
  <2> QED BY <1>1, <1>6, <1>7, <1>8, <2>3, <2>4, <2>5, <2>6 DEF ProgressInv
<1> QED BY <1>1, <1>6, <1>7, <1>9, <1>10, <1>11, <1>12, <1>13, <1>14 DEF SessionInv

(* A completed window always has the tail the next one needs, and what it  *)
(* retains fits.                                                           *)
LEMMA CompletePreserves ==
  ASSUME SessionInv, win.decoding, CompleteWindow
  PROVE  SessionInv'
<1>1. /\ TypeOK /\ DocInv /\ FailureEndsSession /\ RetainedFits
      /\ LayoutInv /\ ProgressInv /\ active
  BY DEF SessionInv
<1>2. /\ doc.next \in Nat /\ doc.owned \in Nat /\ doc.look \in {0, 1}
      /\ doc.prefix \in Nat /\ doc.text \in Nat /\ doc.open = active
      /\ win.guard.markers \in Nat /\ win.count \in Nat
  BY <1>1 DEF TypeOK, Guards, FailureEndsSession
<1> DEFINE prefix == IF doc.look = 1 THEN RetainedPrefix ELSE doc.prefix
           text == IF doc.look = 1 THEN RetainedText ELSE doc.text
<1>3. /\ prefix \in Nat /\ text \in Nat /\ text <= TextRows
      /\ prefix <= 1 + (TailRows + BlockRows - 1) + PageRows
      /\ prefix # 0 => prefix >= 1 + TailRows + PageRows
  <2>1. CASE doc.look = 1
    <3>1. /\ RetainedPrefix \in Nat /\ RetainedText \in Nat /\ RetainedText <= TextRows
          /\ RetainedPrefix >= 1 + TailRows + PageRows
          /\ RetainedPrefix <= 1 + (TailRows + BlockRows - 1) + PageRows
      BY <1>1, <2>1, RetainedTail
    <3> QED BY <2>1, <3>1
  <2>2. CASE doc.look # 1
    BY <1>1, <1>2, <2>2 DEF RetainedFits, DocInv
  <2> QED BY <2>1, <2>2
<1>4. /\ limits' = limits /\ active' = active /\ win' = NoWindow
      /\ ret' = [op |-> "window", status |-> "ok",
                 markers |-> win.guard.markers, count |-> win.count]
      /\ doc' = [doc EXCEPT !.next = @ + doc.owned, !.pending = FALSE,
                            !.finished = (doc.look = 0), !.prefix = prefix, !.text = text]
  BY DEF CompleteWindow
<1> HIDE DEF prefix, text
<1>5. /\ doc'.open = doc.open /\ doc'.cap = doc.cap
      /\ doc'.prefix = prefix /\ doc'.text = text
  BY <1>1, <1>4 DEF TypeOK
<1>6. TypeOK'
  <2>1. doc' \in [open : BOOLEAN, next : Nat, cap : Nat, owned : Nat, look : {0, 1},
                  pending : BOOLEAN, finished : BOOLEAN, prefix : Nat, text : Nat]
    <3>1. doc.next + doc.owned \in Nat /\ (doc.look = 0) \in BOOLEAN
      BY <1>2
    <3> QED BY <1>1, <1>3, <1>4, <3>1 DEF TypeOK
  <2>2. win' \in [decoding : BOOLEAN, views : Nat, tokens : Nat, maxNew : Nat,
                  reuse : {0, 1}, prompt : Nat, saved : Nat, queries : Nat,
                  length : Nat, count : Nat, marker : Nat, guard : Guards]
    BY <1>4 DEF NoWindow, Guards
  <2> QED BY <1>1, <1>2, <1>4, <2>1, <2>2 DEF TypeOK
<1>7. DocInv'
  BY <1>1, <1>3, <1>5 DEF DocInv, PageRows
<1>8. RetainedFits'
  BY <1>3, <1>5 DEF RetainedFits, PageRows
<1>9. FailureEndsSession' /\ NoInternalFailure'
  BY <1>1, <1>4, <1>5 DEF FailureEndsSession, NoInternalFailure
<1>10. win'.decoding = FALSE
  BY <1>4 DEF NoWindow
<1> QED BY <1>6, <1>7, <1>8, <1>9, <1>10 DEF SessionInv, WindowWithinAdmission

(* A turn of an admitted window's decode loop completes the window, emits  *)
(* a token, or exhausts the budget: never one of the defensive failures.   *)
LEMMA TurnOutcomes ==
  ASSUME SessionInv, win.decoding, NEW token \in WindowFilter
  PROVE  TurnOutcome(token) \in {"ok", "running", "exhausted"}
<1>1. /\ TypeOK /\ DocInv /\ FailureEndsSession /\ LayoutInv /\ ProgressInv /\ active
  BY DEF SessionInv
<1>2. doc.cap # 0
  BY <1>1 DEF FailureEndsSession, DocInv
<1>3. token = EOS => win.guard.markers = doc.owned
  BY <1>1, <1>2, SelectableTokens
<1>4. CASE Completes(token)
  <2>1. doc.look = 1 => RetainIsValid
    BY <1>1, RetainedTail
  <2>2. win.marker # 0
    <3>1. win.guard.markers = doc.owned
      BY <1>4 DEF Completes
    <3> QED BY <1>1, <3>1 DEF ProgressInv
  <2>3. doc.look \in {0, 1}
    BY <1>1 DEF TypeOK
  <2> QED BY <1>4, <2>1, <2>2, <2>3 DEF TurnOutcome
<1>5. CASE ~Completes(token)
  <2>1. token # EOS
    BY <1>3, <1>5 DEF Completes
  <2>2. win.count # win.maxNew => win.length # Capacity
    <3>1. /\ win.count \in Nat /\ win.maxNew \in Nat /\ win.prompt \in Nat /\ win.saved \in Nat
          /\ win.length = win.prompt + win.saved + win.count
      BY <1>1 DEF TypeOK, LayoutInv
    <3>2. Capacity = win.prompt + win.saved + win.maxNew
      BY DEF Capacity
    <3> QED BY <3>1, <3>2
  <2> QED BY <1>5, <2>1, <2>2 DEF TurnOutcome
<1> QED BY <1>4, <1>5

(* A decode step keeps the session's invariant, on each of its outcomes.   *)
LEMMA DecodePreserves ==
  ASSUME SessionInv, DecodeStep \/ DecodeFault
  PROVE  SessionInv'
<1>1. CASE DecodeFault
  BY <1>1, FailurePreserves DEF DecodeFault
<1>2. CASE DecodeStep
  <2>1. win.decoding
    BY <1>2 DEF DecodeStep
  <2>2. PICK token \in WindowFilter :
          \/ TurnOutcome(token) = "ok" /\ CompleteWindow
          \/ TurnOutcome(token) = "running" /\ EmitToken(token)
          \/ TurnOutcome(token) \notin {"ok", "running"} /\ WindowFails(TurnOutcome(token))
    BY <1>2 DEF DecodeStep
  <2>3. CASE CompleteWindow
    BY <2>1, <2>3, CompletePreserves
  <2>4. CASE TurnOutcome(token) = "running" /\ EmitToken(token)
    BY <2>1, <2>4, EmitPreserves
  <2>5. CASE TurnOutcome(token) \notin {"ok", "running"} /\ WindowFails(TurnOutcome(token))
    <3>1. TurnOutcome(token) = "exhausted"
      BY <2>1, <2>5, TurnOutcomes
    <3> QED BY <2>5, <3>1, FailurePreserves
  <2> QED BY <2>2, <2>3, <2>4, <2>5
<1> QED BY <1>1, <1>2

-----------------------------------------------------------------------------
(* The invariant holds throughout, whatever engine limits, page caps,      *)
(* requests and page numbers the caller uses.                              *)
THEOREM InvariantHolds == SessionSpec => []SessionInv
<1>1. SessionInit => SessionInv
  <2> SUFFICES ASSUME SessionInit PROVE SessionInv
    OBVIOUS
  <2>1. TypeOK
    BY SessionInputs DEF SessionInit, TypeOK, NoDocument, NoWindow, Returned, Guards
  <2>2. /\ doc.open = FALSE /\ doc.prefix = 0 /\ doc.text = 0
        /\ active = FALSE /\ win.decoding = FALSE /\ ret.op = "none"
    BY DEF SessionInit, NoDocument, NoWindow, Returned
  <2>3. DocInv
    BY <2>2 DEF DocInv
  <2>4. RetainedFits
    BY <2>2, Positive DEF RetainedFits
  <2> QED BY <2>1, <2>2, <2>3, <2>4
       DEF SessionInv, FailureEndsSession, NoInternalFailure, WindowWithinAdmission
<1>2. SessionInv /\ [SessionNext]_sessionVars => SessionInv'
  <2> SUFFICES ASSUME SessionInv, [SessionNext]_sessionVars PROVE SessionInv'
    OBVIOUS
  <2>1. CASE \E cap \in PageCaps : DocumentBegin(cap)
    BY <2>1, BeginPreserves
  <2>2. CASE \E first \in FirstPages, owned \in OwnedPages, look \in {0, 1}, r \in Requests :
               GenerateWindow(first, owned, look, r)
    BY <2>2, GenerateWindowPreserves, SessionInputs
  <2>3. CASE DecodeStep \/ DecodeFault
    BY <2>3, DecodePreserves
  <2>4. CASE DocumentEnd \/ GeneratePrepared
    BY <2>4, SessionEnds
  <2>5. CASE UNCHANGED sessionVars
    BY <2>5
       DEF sessionVars, SessionInv, TypeOK, DocInv, FailureEndsSession, RetainedFits,
           NoInternalFailure, WindowWithinAdmission, LayoutInv, ProgressInv, Reuse,
           SavedText, Capacity, PageCapacity, MetadataEntries, PageRows,
           AdmittedTokens, AdmittedQueries, AdmittedPages
  <2> QED BY <2>1, <2>2, <2>3, <2>4, <2>5 DEF SessionNext
<1> QED BY <1>1, <1>2, PTL DEF SessionSpec

(* The session's state keeps its types: no row count of the continuation   *)
(* state, computed by subtractions in unsigned arithmetic, goes negative.  *)
THEOREM TypesHold == SessionSpec => []TypeOK
BY InvariantHolds, PTL DEF SessionInv

(* A failed window call never leaves a session behind, and the engine's    *)
(* flag always agrees with the context's pointer.                          *)
THEOREM FailuresEndTheSession == SessionSpec => []FailureEndsSession
BY InvariantHolds, PTL DEF SessionInv

(* What admission computes from the submitted prompt covers the window     *)
(* that is rewritten around the retained tail, for every shape of request. *)
THEOREM AdmissionCoversWindow == SessionSpec => []WindowWithinAdmission
BY InvariantHolds, PTL DEF SessionInv

(* The retained tail fits the fixed arrays of the continuation state.      *)
THEOREM RetainedTailFits == SessionSpec => []RetainedFits
BY InvariantHolds, PTL DEF SessionInv

(* The decode loop's defensive failures are unreachable.                   *)
THEOREM DefensiveFailuresUnreachable == SessionSpec => []NoInternalFailure
BY InvariantHolds, PTL DEF SessionInv

(* The guard keeps every page of a window within the session's cap.        *)
THEOREM PagesRespectTheCap == SessionSpec => []PagesStayCapped
<1>1. SessionInv => PagesStayCapped
  BY DEF SessionInv, ProgressInv, PagesStayCapped
<1> QED BY <1>1, InvariantHolds, PTL

(* No window asks for more than was admitted, nor leaves more than fits.   *)
THEOREM WindowsFit == SessionSpec => []WindowFits
BY AdmissionCoversWindow, RetainedTailFits, PTL DEF WindowFits

(* Every failure ends the session and has a cause outside the loop.        *)
THEOREM FailuresAreContained == SessionSpec => []FailuresContained
BY FailuresEndTheSession, DefensiveFailuresUnreachable, PTL DEF FailuresContained

(* A successful window returns exactly its owned pages and advances the    *)
(* document by them.                                                       *)
THEOREM WindowsReturnTheirPages == SessionSpec => WindowReturnsOwnedPages
<1> DEFINE Returns ==
      win.decoding /\ ret'.status = "ok" =>
        /\ ret'.markers = doc.owned
        /\ ret'.count <= win.maxNew
        /\ doc'.next = doc.next + ret'.markers
        /\ (doc'.finished <=> doc.look = 0)
<1>1. SessionInv /\ [SessionNext]_sessionVars => [Returns]_sessionVars
  <2> SUFFICES ASSUME SessionInv, SessionNext, win.decoding, ret'.status = "ok"
               PROVE  /\ ret'.markers = doc.owned
                      /\ ret'.count <= win.maxNew
                      /\ doc'.next = doc.next + ret'.markers
                      /\ (doc'.finished <=> doc.look = 0)
    OBVIOUS
  <2>1. DecodeStep
    <3>1. ~DecodeFault
      BY DEF DecodeFault, WindowFails, Returned
    <3> QED BY <3>1
         DEF SessionNext, DocumentBegin, GenerateWindow, DocumentEnd, GeneratePrepared
  <2>2. PICK token \in WindowFilter :
          \/ TurnOutcome(token) = "ok" /\ CompleteWindow
          \/ TurnOutcome(token) = "running" /\ EmitToken(token)
          \/ TurnOutcome(token) \notin {"ok", "running"} /\ WindowFails(TurnOutcome(token))
    BY <2>1 DEF DecodeStep
  <2>3. ~EmitToken(token)
    BY DEF EmitToken, SessionInv
  <2>4. ~(TurnOutcome(token) \notin {"ok", "running"} /\ WindowFails(TurnOutcome(token)))
    BY DEF WindowFails, Returned
  <2>5. TurnOutcome(token) = "ok" /\ CompleteWindow
    BY <2>2, <2>3, <2>4
  <2>6. Completes(token)
    <3>1. CASE ~Completes(token) /\ token = EOS
      BY <2>5, <3>1 DEF TurnOutcome
    <3>2. CASE ~Completes(token) /\ token # EOS
      BY <2>5, <3>2 DEF TurnOutcome
    <3> QED BY <3>1, <3>2
  <2>7. /\ win.guard.markers = doc.owned /\ win.count <= win.maxNew
        /\ TypeOK
    BY <2>6 DEF Completes, SessionInv, ProgressInv
  <2>8. /\ ret'.markers = win.guard.markers /\ ret'.count = win.count
        /\ doc'.next = doc.next + doc.owned
        /\ doc'.finished = (doc.look = 0)
    BY <2>5, <2>7 DEF CompleteWindow, TypeOK
  <2> QED BY <2>7, <2>8
<1> QED BY <1>1, InvariantHolds, PTL DEF SessionSpec, WindowReturnsOwnedPages

-----------------------------------------------------------------------------
(* The stream.                                                             *)

Limits == [prompt : Nat, gen : Nat]

StreamTypes ==
  /\ pc \in {"idle", "opening", "top", "pull", "native", "yielded"}
  /\ opts \in [window : Nat, cap : Nat, maxOut : Nat]
  /\ source \in Nat /\ read \in Nat /\ firstPage \in Nat /\ total \in Nat
  /\ exhausted \in BOOLEAN /\ apiActive \in BOOLEAN /\ ffiActive \in BOOLEAN
  /\ outcome \in {"idle", "running", "complete", "incomplete"}

(* k pages from page a on.                                                 *)
Run(a, k) == [i \in 1..k |-> a + i - 1]

(* The pages read are those delivered and then those buffered, in order.   *)
Buffered ==
  /\ firstPage <= read /\ read <= source
  /\ delivered = Run(0, firstPage)
  /\ pages = IF pc = "idle" THEN <<>> ELSE Run(firstPage, read - firstPage)
  /\ read <= firstPage + opts.window + 1
  /\ exhausted = TRUE => read = source
  /\ pc = "opening" => read = 0

(* The engine of a stream has the capacities computed from its arguments.  *)
Serving ==
  pc # "idle" =>
    /\ OptionsValid(opts)
    /\ PromptCapacity(opts) <= limits.prompt
    /\ OutputCapacity(opts) <= limits.gen

Budgeted ==
  /\ opts.maxOut # NoLimit => total <= opts.maxOut
  /\ pc \in {"pull", "native"} => BudgetLeft

Flags ==
  /\ pc \in {"idle", "opening"} => active = FALSE /\ apiActive = FALSE /\ ffiActive = FALSE
  /\ pc \in {"top", "pull", "native", "yielded"} => apiActive = TRUE /\ ffiActive = TRUE
  /\ pc \in {"top", "pull", "yielded"} => active = TRUE
  /\ pc # "native" => win.decoding = FALSE
  /\ pc = "idle" <=> outcome # "running"

(* Between native calls.                                                   *)
Between ==
  pc \in {"top", "pull", "yielded"} =>
    /\ doc.cap = opts.cap /\ doc.pending = FALSE /\ doc.next = firstPage
    /\ pc # "yielded" => doc.finished = FALSE
    /\ pc = "yielded" => (doc.finished = TRUE <=> read = firstPage)
    /\ pc = "yielded" /\ read = firstPage => read = source
    /\ firstPage = 0 => doc.prefix = 0 /\ pc # "yielded"
    /\ firstPage # 0 /\ doc.finished = FALSE => doc.prefix # 0 /\ firstPage < read

(* In a native call, and when it has returned.                             *)
InCall ==
  pc = "native" =>
    /\ firstPage < read /\ ~WantsPage
    /\ ret.status # "invalid"
    /\ win.decoding =>
         /\ doc.owned = Owned /\ doc.look = Lookahead
         /\ doc.cap = opts.cap /\ doc.next = firstPage
         /\ win.maxNew = WindowLimit
    /\ ~win.decoding /\ ret.status = "ok" =>
         /\ active = TRUE /\ doc.cap = opts.cap /\ doc.pending = FALSE
         /\ doc.next = firstPage + Owned
         /\ doc.finished = TRUE <=> Lookahead = 0
         /\ Lookahead = 1 => doc.prefix # 0
         /\ ret.count <= WindowLimit

StreamInv ==
  SessionInv /\ StreamTypes /\ Buffered /\ Serving /\ Budgeted /\ Flags /\ Between /\ InCall

-----------------------------------------------------------------------------
(* A run is a sequence of as many pages.                                   *)
LEMMA RunIsSequence ==
  ASSUME NEW a \in Nat, NEW k \in Nat
  PROVE  Run(a, k) \in Seq(Nat) /\ Len(Run(a, k)) = k
BY DEF Run

(* Its first and its last page.                                            *)
LEMMA RunStarts ==
  ASSUME NEW a \in Nat, NEW k \in Nat \ {0}
  PROVE  Run(a, k)[1] = a /\ Run(a, k)[k] = a + k - 1
BY DEF Run

(* A run of no pages is the empty buffer.                                  *)
LEMMA RunOfNone == ASSUME NEW a \in Nat PROVE Run(a, 0) = <<>>
BY DEF Run

(* A run of one page is a buffer that holds the lookahead page alone.      *)
LEMMA RunOfOne == ASSUME NEW a \in Nat PROVE Run(a, 1) = <<a>>
BY DEF Run

(* Appending the next page read gives the longer run.                      *)
LEMMA RunGrows ==
  ASSUME NEW a \in Nat, NEW k \in Nat
  PROVE  Append(Run(a, k), a + k) = Run(a, k + 1)
BY DEF Run

(* The first pages of a run are a run: what a window owns.                 *)
LEMMA RunPrefix ==
  ASSUME NEW a \in Nat, NEW k \in Nat, NEW j \in 0..k
  PROVE  SubSeq(Run(a, k), 1, j) = Run(a, j)
BY DEF Run

(* What was delivered and the run behind it are one run.                   *)
LEMMA RunsJoin ==
  ASSUME NEW a \in Nat, NEW k \in Nat
  PROVE  Run(0, a) \o Run(a, k) = Run(0, a + k)
BY DEF Run

-----------------------------------------------------------------------------
(* The session.  Steps that leave it alone keep its invariant, and so does *)
(* the engine's replacement, which takes the session with it.              *)
LEMMA SessionKept ==
  ASSUME SessionInv, ~win.decoding, UNCHANGED win, limits' \in Limits,
         (active' = FALSE /\ doc' = NoDocument) \/ UNCHANGED <<active, doc>>,
         ret' = ret \/ \E status \in {"ok", "fault"} : ret' = Returned("generate", status)
  PROVE  SessionInv'
<1>1. TypeOK /\ DocInv /\ FailureEndsSession /\ RetainedFits /\ NoInternalFailure
  BY DEF SessionInv
<1>2. \/ ret' = ret
      \/ \E status \in {"ok", "fault"} :
           ret' = [op |-> "generate", status |-> status, markers |-> 0, count |-> 0]
  BY DEF Returned
<1>3. TypeOK'
  <2>1. doc' \in [open : BOOLEAN, next : Nat, cap : Nat, owned : Nat, look : {0, 1},
                  pending : BOOLEAN, finished : BOOLEAN, prefix : Nat, text : Nat]
    <3>1. CASE doc' = NoDocument
      BY <3>1 DEF NoDocument
    <3>2. CASE doc' = doc
      BY <1>1, <3>2 DEF TypeOK
    <3> QED
      BY <3>1, <3>2
  <2>2. ret' \in [op : {"none", "begin", "end", "generate", "window"},
              status : {"ok", "running", "invalid", "memory", "fault", "exhausted",
                        "premature", "capacity", "tail", "nopage"},
              markers : Nat, count : Nat]
    <3>1. CASE ret' = ret
      BY <1>1, <3>1 DEF TypeOK
    <3>2. CASE \E status \in {"ok", "fault"} :
                 ret' = [op |-> "generate", status |-> status, markers |-> 0, count |-> 0]
      BY <3>2
    <3> QED
      BY <1>2, <3>1, <3>2
  <2> QED
    BY <1>1, <2>1, <2>2 DEF TypeOK, Limits
<1>4. DocInv'
  BY <1>1, Positive DEF DocInv, NoDocument, PageRows
<1>5. FailureEndsSession' /\ NoInternalFailure'
  <2>1. ret' = ret \/ ret'.op = "generate"
    BY <1>2
  <2>2. (active' = FALSE /\ doc'.open = FALSE) \/ UNCHANGED <<active, doc>>
    BY DEF NoDocument
  <2>3. FailureEndsSession'
    BY <1>1, <2>1, <2>2 DEF FailureEndsSession
  <2> QED
    BY <1>1, <2>1, <2>3 DEF NoInternalFailure
<1>6. RetainedFits'
  BY <1>1, Positive DEF RetainedFits, NoDocument, PageRows
<1> QED
  BY <1>3, <1>4, <1>5, <1>6 DEF SessionInv, WindowWithinAdmission

(* A step that leaves the native state alone keeps the session's           *)
(* invariant.                                                              *)
LEMMA SessionStutters == SessionInv /\ UNCHANGED nativeVars => SessionInv'
BY DEF nativeVars, SessionInv, TypeOK, DocInv, FailureEndsSession, RetainedFits,
       NoInternalFailure, WindowWithinAdmission, LayoutInv, ProgressInv, Reuse,
       SavedText, Capacity, PageCapacity, MetadataEntries, PageRows,
       AdmittedTokens, AdmittedQueries, AdmittedPages

(* One step of the native call: it goes on in the same window, returns the *)
(* window's tokens and advances the document, or fails.                    *)
LEMMA NativeOutcomes ==
  ASSUME SessionInv, win.decoding, DecodeStep \/ DecodeFault
  PROVE  /\ UNCHANGED limits
         /\ \/ /\ win'.decoding /\ win'.maxNew = win.maxNew
               /\ UNCHANGED <<doc, ret>>
            \/ /\ ~win'.decoding /\ ret'.status = "ok" /\ UNCHANGED active
               /\ ret'.count = win.count
               /\ doc'.cap = doc.cap /\ doc'.pending = FALSE
               /\ doc'.next = doc.next + doc.owned
               /\ doc'.finished = (doc.look = 0)
               /\ doc.look = 1 => doc'.prefix # 0
            \/ ~win'.decoding /\ ret'.status \notin {"ok", "invalid"}
<1>1. TypeOK /\ LayoutInv /\ ProgressInv
  BY DEF SessionInv
<1>2. CASE DecodeFault
  BY <1>2 DEF DecodeFault, WindowFails, NoWindow, Returned
<1>3. ASSUME NEW token \in WindowFilter, EmitToken(token)
      PROVE  win'.decoding /\ win'.maxNew = win.maxNew /\ UNCHANGED <<limits, doc, ret>>
  BY <1>1, <1>3 DEF EmitToken, TypeOK
<1>4. ASSUME CompleteWindow
      PROVE  /\ UNCHANGED limits
             /\ ~win'.decoding /\ ret'.status = "ok" /\ UNCHANGED active
             /\ ret'.count = win.count
             /\ doc'.cap = doc.cap /\ doc'.pending = FALSE
             /\ doc'.next = doc.next + doc.owned
             /\ doc'.finished = (doc.look = 0)
             /\ doc.look = 1 => doc'.prefix # 0
  <2>1. /\ UNCHANGED <<limits, active>> /\ ~win'.decoding /\ ret'.status = "ok"
        /\ ret'.count = win.count
    BY <1>4 DEF CompleteWindow, NoWindow
  <2>2. /\ doc'.cap = doc.cap /\ doc'.pending = FALSE /\ doc'.next = doc.next + doc.owned
        /\ doc'.finished = (doc.look = 0)
    BY <1>1, <1>4 DEF CompleteWindow, TypeOK
  <2>3. ASSUME doc.look = 1 PROVE doc'.prefix # 0
    <3>1. doc'.prefix = RetainedPrefix
      BY <1>1, <1>4, <2>3 DEF CompleteWindow, TypeOK
    <3>2. TailEnd \in Nat
      BY <1>1, PagesOfRows, Positive DEF TailEnd, ProgressInv, TypeOK
    <3>3. TailEnd % BlockRows \in 0..(BlockRows - 1)
      BY <3>2, RemainderBound, Positive
    <3>4. RetainedPrefix = 1 + (TailRows + (TailEnd % BlockRows)) + PageRows
      BY <3>2, <3>3, Positive DEF RetainedPrefix, TailStart
    <3> QED
      BY <3>1, <3>3, <3>4, Positive
  <2> QED
    BY <2>1, <2>2, <2>3
<1>5. ASSUME NEW status \in {"exhausted"}, WindowFails(status)
      PROVE  UNCHANGED limits /\ ~win'.decoding /\ ret'.status \notin {"ok", "invalid"}
  BY <1>5 DEF WindowFails, NoWindow, Returned
<1>6. CASE DecodeStep
  <2>1. PICK token \in WindowFilter :
          \/ TurnOutcome(token) = "ok" /\ CompleteWindow
          \/ TurnOutcome(token) = "running" /\ EmitToken(token)
          \/ TurnOutcome(token) \notin {"ok", "running"} /\ WindowFails(TurnOutcome(token))
    BY <1>6 DEF DecodeStep
  <2>2. TurnOutcome(token) \in {"ok", "running", "exhausted"}
    BY TurnOutcomes
  <2> QED
    BY <1>3, <1>4, <1>5, <2>1, <2>2
<1> QED
  BY <1>2, <1>6

-----------------------------------------------------------------------------
(* The pages of the next window.                                           *)
LEMMA StreamWindowShape ==
  ASSUME StreamTypes, Buffered, opts.window >= 1, pc # "idle", firstPage < read, ~WantsPage
  PROVE  /\ Len(pages) = read - firstPage /\ pages # <<>>
         /\ Owned \in Nat \ {0} /\ Owned <= opts.window
         /\ Lookahead \in {0, 1}
         /\ Owned + Lookahead = read - firstPage
         /\ Lookahead = 0 => read = source
<1>1. /\ read - firstPage \in Nat \ {0} /\ opts.window \in Nat \ {0}
      /\ firstPage \in Nat /\ read \in Nat
  BY DEF StreamTypes
<1>2. Len(pages) = read - firstPage /\ pages # <<>>
  BY <1>1, RunIsSequence DEF Buffered
<1>3. read - firstPage <= opts.window + 1
  BY <1>1 DEF Buffered
<1>4. exhausted = TRUE \/ read - firstPage >= opts.window + 1
  BY <1>1, <1>2 DEF WantsPage, StreamTypes
<1>5. CASE read - firstPage <= opts.window
  <2>1. Owned = read - firstPage /\ Lookahead = 0
    BY <1>1, <1>2, <1>5 DEF Owned, LeastOf, Lookahead
  <2>2. read = source
    BY <1>1, <1>4, <1>5 DEF Buffered
  <2> QED
    BY <1>1, <1>2, <1>5, <2>1, <2>2
<1>6. CASE read - firstPage = opts.window + 1
  <2>1. Owned = opts.window /\ Lookahead = 1
    BY <1>1, <1>2, <1>6 DEF Owned, LeastOf, Lookahead
  <2> QED
    BY <1>1, <1>2, <1>6, <2>1
<1> QED
  BY <1>1, <1>3, <1>5, <1>6

(* A product grows with its factor.                                        *)
LEMMA Monotone ==
  ASSUME NEW a \in Nat, NEW b \in Nat, NEW c \in Nat, a <= b
  PROVE  a * c <= b * c /\ a * c \in Nat /\ b * c \in Nat
OBVIOUS

(* As many whole pages fit as the quotient says.                           *)
LEMMA QuotientBound ==
  ASSUME NEW k \in Nat, NEW m \in Nat, NEW p \in Nat \ {0}, k * p <= m
  PROVE  k <= m \div p
OBVIOUS

-----------------------------------------------------------------------------
(* The window that the generator prepares is admitted: the capacities that *)
(* stream_pages computes once for its largest window cover every one.      *)
LEMMA PreparedIsAdmitted ==
  ASSUME StreamInv, pc = "pull", firstPage < read, ~WantsPage
  PROVE  /\ WindowAdmitted(firstPage, Owned, Lookahead, PreparedWindow)
         /\ PreparedWindow \in RequestRecords
<1>1. /\ TypeOK /\ DocInv /\ FailureEndsSession /\ RetainedFits
      /\ StreamTypes /\ Buffered /\ Serving /\ Budgeted /\ Between
  BY DEF StreamInv, SessionInv
<1>2. /\ OptionsValid(opts) /\ PromptCapacity(opts) <= limits.prompt
      /\ OutputCapacity(opts) <= limits.gen
  BY <1>1 DEF Serving
<1>3. /\ opts.window \in Nat \ {0} /\ opts.cap \in Nat /\ opts.maxOut \in Nat
      /\ opts.cap \in 1..MaxPageCap /\ total \in Nat /\ firstPage \in Nat
      /\ Instruction \in Nat
  BY <1>1, <1>2, StreamInputs DEF OptionsValid, StreamTypes
<1>4. /\ Len(pages) = read - firstPage /\ Owned \in Nat \ {0} /\ Owned <= opts.window
      /\ Lookahead \in {0, 1} /\ Owned + Lookahead = Len(pages)
  BY <1>1, <1>3, StreamWindowShape
<1>5. /\ doc.cap = opts.cap /\ ~doc.pending /\ ~doc.finished /\ doc.next = firstPage
      /\ firstPage # 0 => doc.prefix # 0
  BY <1>1 DEF Between
<1> DEFINE r == PreparedWindow
<1> DEFINE allowed == Owned * opts.cap + SlackTokens
<1>6. /\ r.views = Owned + Lookahead /\ r.instruction = Instruction
      /\ r.maxNew = WindowLimit /\ r.base = TRUE
  BY <1>4 DEF PreparedWindow
<1>7. /\ Owned * opts.cap <= opts.window * opts.cap
      /\ Owned * opts.cap \in Nat /\ opts.window * opts.cap \in Nat
  BY <1>3, <1>4, Monotone
<1>8. WindowLimit \in Nat \ {0} /\ WindowLimit <= allowed /\ WindowLimit <= OutputCapacity(opts)
  <2>1. opts.maxOut # NoLimit => total < opts.maxOut
    BY <1>1 DEF Budgeted, BudgetLeft
  <2>2. allowed \in Nat \ {0} /\ allowed <= opts.window * opts.cap + SlackTokens
    BY <1>7, Positive
  <2> QED
    BY <1>3, <1>7, <2>1, <2>2, Positive DEF WindowLimit, OutputCapacity, LeastOf, NoLimit
<1>9. /\ r.views * PageRows <= (opts.window + 1) * PageRows
      /\ r.views * PageRows \in Nat /\ (opts.window + 1) * PageRows \in Nat
      /\ r.views \in Nat \ {0} /\ r.views <= opts.window + 1
  <2>1. r.views \in Nat \ {0} /\ r.views <= opts.window + 1
    BY <1>3, <1>4, <1>6
  <2> QED
    BY <1>3, <2>1, Positive, Monotone
<1>10. NTokens(r) = 1 + r.views * PageRows + Instruction
  BY <1>6 DEF NTokens
<1>11. /\ NTokens(r) <= PromptCapacity(opts) /\ NTokens(r) \in Nat
       /\ PromptCapacity(opts) \in Nat /\ OutputCapacity(opts) \in Nat
       /\ PromptCapacity(opts) + OutputCapacity(opts) + ExtraRows <= MaxPositions
  <2>1. OutputCapacity(opts) \in Nat
    BY <1>3, <1>7, Positive DEF OutputCapacity, LeastOf
  <2> QED
    BY <1>2, <1>3, <1>9, <1>10, <2>1, Positive DEF PromptCapacity, OptionsValid
<1>12. SetWindowIsValid(firstPage, Owned, Lookahead)
  <2>1. Owned * PageRows <= (opts.window + 1) * PageRows
    BY <1>3, <1>4, Positive, Monotone
  <2>2. (opts.window + 1) * PageRows <= MaxPositions
    BY <1>3, <1>9, <1>11, Positive DEF PromptCapacity
  <2>3. Owned * PageRows \in Nat
    BY <1>3, <1>4, Positive, Monotone
  <2>4. Owned * PageRows <= MaxPositions
    BY <1>9, <2>1, <2>2, <2>3, Positive
  <2>5. Owned <= MaxPositions \div PageRows /\ MaxPositions \div PageRows \in Nat
    BY <1>4, <2>4, Positive, QuotientBound
  <2> QED
    BY <1>4, <1>5, <2>5 DEF SetWindowIsValid
<1>13. RequestIsValid(r)
  <2>1. limits.prompt \in Nat /\ limits.gen \in Nat
    BY <1>1 DEF TypeOK
  <2> QED
    BY <1>2, <1>6, <1>8, <1>11, <2>1, Positive DEF RequestIsValid
<1>14. WindowIsValid(r, Owned, Lookahead)
  BY <1>5, <1>6, <1>7, <1>8, Positive DEF WindowIsValid
<1>15. AdmissionIsValid(r)
  BY <1>6, <1>8, <1>11, Positive DEF AdmissionIsValid, AdmittedTokens
<1>16. PreparedWindow \in RequestRecords
  BY <1>3, <1>4, <1>8 DEF PreparedWindow, RequestRecords
<1>17. ContextIsValid(r)
  <2>1. PromptCount(r) + SavedText <= NTokens(r) + ExtraRows
    BY <1>1, <1>16, <1>9, StartLayout
  <2>2. PromptCount(r) \in Nat /\ SavedText \in Nat
    BY <1>1, <1>16, <1>9, StartLayout
  <2> QED
    BY <1>6, <1>8, <1>11, <2>1, <2>2, Positive DEF ContextIsValid
<1> QED
  BY <1>12, <1>13, <1>14, <1>15, <1>16, <1>17 DEF WindowAdmitted

-----------------------------------------------------------------------------
(* The steps.  Outside a stream every document is closed.                  *)
LEMMA CallerIsIdle ==
  ASSUME StreamInv, CallerRuns, ~Refused
  PROVE  pc = "idle" /\ active = FALSE /\ win.decoding = FALSE
BY DEF StreamInv, Flags, CallerRuns, Refused

(* Other calls on the object, between streams.                             *)
LEMMA OtherCallsKeep ==
  ASSUME StreamInv, Close \/ \E need \in SingleRequests : Generate(need)
  PROVE  StreamInv'
<1>1. pc = "idle" /\ active = FALSE /\ win.decoding = FALSE
  BY CallerIsIdle DEF Close, Generate
<1>2. /\ UNCHANGED <<win, pc, opts, source, read, loopVars, delivered, outcome, apiActive>>
      /\ ffiActive' = FALSE \/ UNCHANGED ffiActive
      /\ (active' = FALSE /\ doc' = NoDocument) \/ UNCHANGED <<active, doc>>
  BY DEF Close, Generate, EnsureEngine, NoSession
<1>3. limits' \in Limits
  <2>1. NoEngine \in Limits /\ limits \in Limits
    BY DEF NoEngine, Limits, StreamInv, SessionInv, TypeOK
  <2>2. \A need \in SingleRequests : need \in Limits
    BY StreamInputs DEF Limits
  <2> QED
    BY <2>1, <2>2 DEF Close, Generate, EnsureEngine
<1>4. SessionInv'
  <2>1. ret' = ret \/ \E status \in {"ok", "fault"} : ret' = Returned("generate", status)
    BY DEF Close, Generate
  <2> QED
    BY <1>1, <1>2, <1>3, <2>1, SessionKept DEF StreamInv
<1>5. StreamTypes' /\ Buffered' /\ Serving' /\ Budgeted'
  BY <1>1, <1>2
     DEF StreamInv, StreamTypes, Buffered, Serving, Budgeted, BudgetLeft, loopVars
<1>6. Flags' /\ Between' /\ InCall'
  BY <1>1, <1>2 DEF StreamInv, Flags, Between, InCall, StreamTypes
<1> QED
  BY <1>4, <1>5, <1>6 DEF StreamInv

(* A stream opens on an engine of its capacities.                          *)
LEMMA StreamOpens ==
  ASSUME StreamInv, NEW o \in Options, NEW n \in 0..MaxSource, StreamPages(o, n)
  PROVE  StreamInv'
<1> DEFINE capacities == [prompt |-> PromptCapacity(o), gen |-> OutputCapacity(o)]
<1>1. pc = "idle" /\ active = FALSE /\ win.decoding = FALSE
  BY CallerIsIdle DEF StreamPages
<1>2. apiActive = FALSE /\ ffiActive = FALSE
  BY <1>1 DEF StreamInv, Flags
<1>3. /\ opts' = o /\ source' = n /\ read' = 0 /\ exhausted' = FALSE /\ pages' = <<>>
      /\ firstPage' = 0 /\ total' = 0 /\ delivered' = <<>>
      /\ UNCHANGED <<win, ret, apiActive>> /\ OptionsValid(o)
      /\ \/ limits' = NoEngine /\ pc' = "idle" /\ outcome' = "incomplete"
         \/ limits' # NoEngine /\ pc' = "opening" /\ outcome' = "running"
  BY DEF StreamPages
<1>4. /\ (active' = FALSE /\ doc' = NoDocument) \/ UNCHANGED <<active, doc>>
      /\ ffiActive' = FALSE /\ active' = FALSE
  BY <1>1, <1>2 DEF StreamPages, EnsureEngine, NoSession
<1>5. o \in [window : Nat, cap : Nat, maxOut : Nat] /\ n \in Nat /\ Instruction \in Nat
  BY StreamInputs
<1>6. PromptCapacity(o) \in Nat /\ OutputCapacity(o) \in Nat
  <2>1. (o.window + 1) * PageRows \in Nat /\ o.window * o.cap \in Nat
    BY <1>5, Positive, Monotone
  <2> QED
    BY <1>5, <2>1, Positive DEF PromptCapacity, OutputCapacity, LeastOf
<1>7. limits \in Limits
  BY DEF StreamInv, SessionInv, TypeOK, Limits
<1>8. /\ limits' \in Limits
      /\ limits' # NoEngine =>
           PromptCapacity(o) <= limits'.prompt /\ OutputCapacity(o) <= limits'.gen
  <2>1. capacities \in Limits /\ NoEngine \in Limits
    BY <1>6 DEF Limits, NoEngine
  <2>2. CASE EngineFits(capacities)
    <3>1. limits' = limits /\ capacities.prompt <= limits.prompt /\ capacities.gen <= limits.gen
      BY <2>2 DEF StreamPages, EnsureEngine, EngineFits
    <3> QED
      BY <1>7, <3>1
  <2>3. CASE ~EngineFits(capacities)
    <3>1. limits' \in {capacities, NoEngine}
      BY <2>3 DEF StreamPages, EnsureEngine
    <3> QED
      BY <1>6, <2>1, <3>1
  <2> QED
    BY <2>2, <2>3
<1>9. SessionInv'
  BY <1>1, <1>3, <1>4, <1>8, SessionKept DEF StreamInv
<1>10. StreamTypes'
  BY <1>2, <1>3, <1>4, <1>5 DEF StreamTypes
<1>11. Buffered'
  <2>1. Run(0, 0) = <<>>
    BY RunOfNone
  <2> QED
    BY <1>3, <1>5, <2>1 DEF Buffered
<1>12. Serving' /\ Budgeted'
  BY <1>3, <1>5, <1>8 DEF Serving, OptionsValid, PromptCapacity, OutputCapacity, Budgeted
<1>13. Flags' /\ Between' /\ InCall'
  BY <1>1, <1>2, <1>3, <1>4 DEF Flags, Between, InCall
<1> QED
  BY <1>9, <1>10, <1>11, <1>12, <1>13 DEF StreamInv

(* The finally clauses leave nothing of the document.                      *)
LEMMA EndKeeps ==
  ASSUME StreamInv, NEW how \in {"complete", "incomplete"}, EndStream(how)
  PROVE  StreamInv'
<1>1. /\ doc' = NoDocument /\ active' = FALSE /\ win.decoding = FALSE
      /\ apiActive' = FALSE /\ ffiActive' = FALSE /\ pages' = <<>>
      /\ pc' = "idle" /\ outcome' = how
      /\ UNCHANGED <<limits, win, opts, source, read, exhausted, firstPage, total, delivered>>
  BY DEF EndStream, DocumentEnd, StreamInv, SessionInv, TypeOK
<1>2. SessionInv'
  BY SessionEnds DEF EndStream, StreamInv
<1>3. StreamTypes' /\ Buffered' /\ Serving' /\ Budgeted'
  BY <1>1 DEF StreamInv, StreamTypes, Buffered, Serving, Budgeted, BudgetLeft
<1>4. Flags' /\ Between' /\ InCall'
  BY <1>1 DEF Flags, Between, InCall
<1> QED
  BY <1>2, <1>3, <1>4 DEF StreamInv

(* The native session begins before the loop.                              *)
LEMMA OpenKeeps ==
  ASSUME StreamInv, OpenDocument
  PROVE  StreamInv'
<1>1. /\ pc = "opening" /\ active = FALSE /\ apiActive = FALSE /\ ffiActive = FALSE
      /\ DocumentBegin(opts.cap) /\ win.decoding = FALSE
  BY DEF OpenDocument, StreamInv, Flags
<1>2. /\ UNCHANGED <<limits, win, opts, source, read, loopVars, delivered>>
      /\ apiActive' = (ret'.status = "ok") /\ ffiActive' = (ret'.status = "ok")
      /\ \/ ret'.status = "ok" /\ pc' = "top" /\ outcome' = "running"
         \/ ret'.status # "ok" /\ pc' = "idle" /\ outcome' = "incomplete"
  BY DEF OpenDocument, DocumentBegin
<1>3. SessionInv'
  BY <1>1, BeginPreserves DEF StreamInv
<1>4. /\ ret'.status = "ok" =>
           doc' = [NoDocument EXCEPT !.open = TRUE, !.cap = opts.cap] /\ active' = TRUE
      /\ ret'.status # "ok" => UNCHANGED <<doc, active>>
  BY <1>1 DEF DocumentBegin, Returned
<1>5. firstPage = 0 /\ read = 0 /\ pages = <<>> /\ read - firstPage = 0
  <2>1. firstPage = 0 /\ read = 0
    BY <1>1 DEF StreamInv, StreamTypes, Buffered
  <2>2. pages = Run(0, 0)
    BY <1>1, <2>1 DEF StreamInv, Buffered
  <2> QED
    BY <2>1, <2>2, RunOfNone
<1>6. StreamTypes'
  BY <1>2 DEF StreamInv, StreamTypes, loopVars
<1>7. Buffered'
  <2>1. Run(firstPage, read - firstPage) = <<>>
    BY <1>5, RunOfNone
  <2> QED
    BY <1>1, <1>2, <1>5, <2>1 DEF StreamInv, Buffered, loopVars
<1>8. Serving' /\ Budgeted'
  BY <1>1, <1>2 DEF StreamInv, Serving, Budgeted, BudgetLeft, loopVars
<1>9. Flags'
  BY <1>1, <1>2, <1>4 DEF Flags
<1>10. Between' /\ InCall'
  <2>1. ASSUME ret'.status = "ok"
        PROVE  /\ doc'.cap = opts.cap /\ doc'.pending = FALSE /\ doc'.next = 0
               /\ doc'.finished = FALSE /\ doc'.prefix = 0
    BY <1>4, <2>1 DEF NoDocument
  <2> QED
    BY <1>2, <1>5, <2>1 DEF Between, InCall, loopVars
<1> QED
  BY <1>3, <1>6, <1>7, <1>8, <1>9, <1>10 DEF StreamInv

(* A turn of the loop starts while there is budget.                        *)
LEMMA LoopKeeps ==
  ASSUME StreamInv, LoopTop
  PROVE  StreamInv'
<1>1. CASE EndStream("incomplete")
  BY <1>1, EndKeeps
<1>2. CASE /\ pc = "top" /\ BudgetLeft /\ pc' = "pull"
           /\ UNCHANGED <<nativeVars, opts, source, read, loopVars, delivered, outcome, flagVars>>
  <2>1. SessionInv'
    BY <1>2, SessionStutters DEF StreamInv
  <2>2. /\ UNCHANGED <<limits, active, doc, win, ret, opts, source, read, exhausted, pages,
                       firstPage, total, delivered, outcome, apiActive, ffiActive>>
    BY <1>2 DEF nativeVars, loopVars, flagVars
  <2>3. StreamTypes' /\ Buffered' /\ Serving' /\ Budgeted'
    BY <1>2, <2>2 DEF StreamInv, StreamTypes, Buffered, Serving, Budgeted, BudgetLeft
  <2>4. Flags' /\ Between' /\ InCall'
    BY <1>2, <2>2 DEF StreamInv, Flags, Between, InCall
  <2> QED
    BY <2>1, <2>3, <2>4 DEF StreamInv
<1> QED
  BY <1>1, <1>2 DEF LoopTop

(* A page is appended to the buffer, or the iterable ends.                 *)
LEMMA PullKeeps ==
  ASSUME StreamInv, PullPage
  PROVE  StreamInv'
<1>1. /\ pc = "pull" /\ WantsPage
      /\ UNCHANGED <<limits, active, doc, win, ret, pc, opts, source, firstPage, total,
                     delivered, outcome, apiActive, ffiActive>>
      /\ \/ /\ read < source /\ pages' = Append(pages, read) /\ read' = read + 1
            /\ exhausted' = exhausted
         \/ /\ read = source /\ exhausted' = TRUE /\ pages' = pages /\ read' = read
  BY DEF PullPage, nativeVars, flagVars
<1>2. SessionInv'
  BY <1>1, SessionStutters DEF StreamInv, nativeVars
<1>3. /\ StreamTypes /\ Buffered /\ read \in Nat /\ firstPage \in Nat /\ firstPage <= read
      /\ read - firstPage \in Nat /\ source \in Nat /\ opts.window \in Nat
  BY DEF StreamInv, StreamTypes, Buffered
<1>4. pages = Run(firstPage, read - firstPage) /\ Len(pages) = read - firstPage
  BY <1>1, <1>3, RunIsSequence DEF Buffered
<1>5. ~exhausted /\ read - firstPage < opts.window + 1
  BY <1>1, <1>4 DEF WantsPage
<1>6. StreamTypes'
  <2>1. read' \in Nat
    BY <1>1, <1>3
  <2>2. exhausted' \in BOOLEAN
    <3>1. exhausted' = exhausted \/ exhausted' = TRUE
      BY <1>1
    <3> QED
      BY <1>3, <3>1 DEF StreamTypes
  <2> QED
    BY <1>1, <1>3, <2>1, <2>2 DEF StreamTypes
<1>7. Buffered'
  <2>1. CASE read' = read /\ pages' = pages
    BY <1>1, <1>3, <2>1 DEF Buffered
  <2>2. CASE /\ read < source /\ read' = read + 1
             /\ pages' = Append(pages, read) /\ exhausted' = exhausted
    <3>1. firstPage + (read - firstPage) = read /\ (read - firstPage) + 1 = read' - firstPage'
      BY <1>1, <1>3, <2>2
    <3>2. pages' = Run(firstPage, (read - firstPage) + 1)
      BY <1>3, <1>4, <2>2, <3>1, RunGrows
    <3>3. pages' = Run(firstPage', read' - firstPage')
      BY <1>1, <3>1, <3>2
    <3> QED
      BY <1>1, <1>3, <1>5, <2>2, <3>3 DEF Buffered
  <2> QED
    BY <1>1, <2>1, <2>2
<1>8. Serving' /\ Budgeted'
  BY <1>1 DEF StreamInv, Serving, Budgeted, BudgetLeft
<1>9. Flags' /\ Between' /\ InCall'
  BY <1>1, <1>3 DEF StreamInv, Flags, Between, InCall
<1> QED
  BY <1>2, <1>6, <1>7, <1>8, <1>9 DEF StreamInv

(* The native call starts with the window that was prepared, which it      *)
(* never finds invalid.                                                    *)
LEMMA CallKeeps ==
  ASSUME StreamInv, CallWindow
  PROVE  StreamInv'
<1>1. /\ pc = "pull" /\ ~WantsPage /\ pages # <<>> /\ pc' = "native"
      /\ GenerateWindow(firstPage, Owned, Lookahead, PreparedWindow)
      /\ UNCHANGED <<opts, source, read, exhausted, pages, firstPage, total, delivered, outcome,
                     apiActive, ffiActive>>
  BY DEF CallWindow, loopVars, flagVars
<1>2. /\ StreamTypes /\ Buffered /\ SessionInv /\ active = TRUE
      /\ opts.window >= 1 /\ firstPage <= read /\ firstPage \in Nat /\ read \in Nat
  BY <1>1 DEF StreamInv, Flags, Serving, OptionsValid, Buffered, StreamTypes
<1>3. firstPage < read
  <2>1. pages = Run(firstPage, read - firstPage)
    BY <1>1, <1>2 DEF Buffered
  <2>2. read - firstPage # 0
    BY <1>1, <1>2, <2>1, RunOfNone
  <2> QED
    BY <1>2, <2>2
<1>4. /\ WindowAdmitted(firstPage, Owned, Lookahead, PreparedWindow)
      /\ PreparedWindow \in RequestRecords
  BY <1>1, <1>3, PreparedIsAdmitted
<1>5. Owned \in Nat /\ Lookahead \in {0, 1}
  BY <1>1, <1>2, <1>3, StreamWindowShape
<1>6. SessionInv'
  BY <1>1, <1>2, <1>4, <1>5, GenerateWindowPreserves
<1>7. /\ UNCHANGED limits
      /\ \/ StartWindow(firstPage, Owned, Lookahead, PreparedWindow)
         \/ ~win'.decoding /\ ret'.status \in {"memory", "fault"}
  <2>1. CASE StartWindow(firstPage, Owned, Lookahead, PreparedWindow)
    BY <2>1 DEF StartWindow
  <2>2. CASE RejectWindow(firstPage, Owned, Lookahead, PreparedWindow)
    BY <1>4, <2>2 DEF RejectWindow, WindowFails, NoWindow, Returned
  <2> QED
    BY <1>1, <1>2, <2>1, <2>2 DEF GenerateWindow, RefuseWindow
<1>8. StreamTypes' /\ Buffered' /\ Serving' /\ Budgeted'
  BY <1>1, <1>7 DEF StreamInv, StreamTypes, Buffered, Serving, Budgeted, BudgetLeft
<1>9. Flags' /\ Between'
  BY <1>1 DEF StreamInv, Flags, Between
<1>10. /\ Owned' = Owned /\ Lookahead' = Lookahead /\ WindowLimit' = WindowLimit
       /\ WantsPage' = WantsPage
  BY <1>1 DEF Owned, Lookahead, WindowLimit, WantsPage
<1>11. InCall'
  <2>1. CASE StartWindow(firstPage, Owned, Lookahead, PreparedWindow)
    <3>1. /\ doc' = [doc EXCEPT !.owned = Owned, !.look = Lookahead, !.pending = TRUE]
          /\ win' = Prefilled(Owned, PreparedWindow) /\ ret'.status = "running"
      BY <2>1 DEF StartWindow, Returned
    <3>2. /\ doc'.owned = Owned /\ doc'.look = Lookahead /\ doc'.cap = doc.cap
          /\ doc'.next = doc.next
      BY <1>2, <3>1 DEF SessionInv, TypeOK
    <3>3. win'.decoding /\ win'.maxNew = WindowLimit
      BY <3>1 DEF Prefilled, PreparedWindow
    <3>4. doc.cap = opts.cap /\ doc.next = firstPage
      BY <1>1 DEF StreamInv, Between
    <3> QED
      BY <1>1, <1>3, <1>10, <3>1, <3>2, <3>3, <3>4 DEF InCall
  <2>2. CASE ~win'.decoding /\ ret'.status \in {"memory", "fault"}
    BY <1>1, <1>3, <1>10, <2>2 DEF InCall
  <2> QED
    BY <1>7, <2>1, <2>2
<1> QED
  BY <1>6, <1>8, <1>9, <1>11 DEF StreamInv

(* The call decodes, returns the window's tokens or fails.                 *)
LEMMA NativeKeeps ==
  ASSUME StreamInv, NativeStep \/ NativeFault
  PROVE  StreamInv'
<1>1. /\ pc = "native" /\ (DecodeStep \/ DecodeFault) /\ win.decoding
      /\ UNCHANGED <<pc, opts, source, read, exhausted, pages, firstPage, total, delivered,
                     outcome, apiActive, ffiActive>>
  BY DEF NativeStep, NativeFault, DecodeStep, DecodeFault, streamVars, loopVars, flagVars
<1>2. SessionInv' /\ SessionInv
  BY <1>1, DecodePreserves DEF StreamInv
<1>3. active = TRUE /\ win.count <= win.maxNew
  BY <1>1, <1>2 DEF SessionInv, ProgressInv, TypeOK
<1>4. /\ firstPage < read /\ ~WantsPage /\ ret.status # "invalid"
      /\ doc.owned = Owned /\ doc.look = Lookahead /\ doc.cap = opts.cap
      /\ doc.next = firstPage /\ win.maxNew = WindowLimit
  BY <1>1 DEF StreamInv, InCall
<1>5. /\ Owned' = Owned /\ Lookahead' = Lookahead /\ WindowLimit' = WindowLimit
      /\ WantsPage' = WantsPage
  BY <1>1 DEF Owned, Lookahead, WindowLimit, WantsPage
<1>6. /\ UNCHANGED limits
      /\ \/ /\ win'.decoding /\ win'.maxNew = win.maxNew
            /\ UNCHANGED <<doc, ret>>
         \/ /\ ~win'.decoding /\ ret'.status = "ok" /\ UNCHANGED active
            /\ ret'.count = win.count
            /\ doc'.cap = doc.cap /\ doc'.pending = FALSE
            /\ doc'.next = doc.next + doc.owned
            /\ doc'.finished = (doc.look = 0)
            /\ doc.look = 1 => doc'.prefix # 0
         \/ ~win'.decoding /\ ret'.status \notin {"ok", "invalid"}
  BY <1>1, <1>2, NativeOutcomes
<1>7. InCall'
  <2>1. CASE win'.decoding /\ win'.maxNew = win.maxNew /\ UNCHANGED <<doc, ret>>
    BY <1>1, <1>4, <1>5, <2>1 DEF InCall
  <2>2. CASE /\ ~win'.decoding /\ ret'.status = "ok" /\ UNCHANGED active
             /\ ret'.count = win.count
             /\ doc'.cap = doc.cap /\ doc'.pending = FALSE
             /\ doc'.next = doc.next + doc.owned
             /\ doc'.finished = (doc.look = 0)
             /\ doc.look = 1 => doc'.prefix # 0
    <3>1. doc'.finished = TRUE <=> Lookahead = 0
      BY <1>4, <2>2
    <3>2. ret'.count <= WindowLimit
      BY <1>3, <1>4, <2>2
    <3> QED
      BY <1>1, <1>3, <1>4, <1>5, <2>2, <3>1, <3>2 DEF InCall
  <2>3. CASE ~win'.decoding /\ ret'.status \notin {"ok", "invalid"}
    BY <1>1, <1>4, <1>5, <2>3 DEF InCall
  <2> QED
    BY <1>6, <2>1, <2>2, <2>3
<1>8. StreamTypes' /\ Buffered' /\ Serving' /\ Budgeted'
  BY <1>1, <1>6 DEF StreamInv, StreamTypes, Buffered, Serving, Budgeted, BudgetLeft
<1>9. Flags' /\ Between'
  BY <1>1 DEF StreamInv, Flags, Between
<1> QED
  BY <1>2, <1>7, <1>8, <1>9 DEF StreamInv

(* A window's limit leaves the stream's output within its maximum.         *)
LEMMA LimitFits ==
  ASSUME StreamInv, pc = "native", opts.maxOut # NoLimit
  PROVE  WindowLimit \in Nat /\ total + WindowLimit <= opts.maxOut
<1>1. /\ StreamTypes /\ Buffered /\ opts.window >= 1 /\ total < opts.maxOut
      /\ firstPage < read /\ ~WantsPage
  BY DEF StreamInv, Serving, OptionsValid, Budgeted, BudgetLeft, InCall
<1>2. Owned \in Nat /\ opts.cap \in Nat /\ opts.maxOut \in Nat /\ total \in Nat
  BY <1>1, StreamWindowShape DEF StreamTypes
<1>3. Owned * opts.cap + SlackTokens \in Nat
  BY <1>2, Positive, Monotone
<1> QED
  BY <1>1, <1>2, <1>3 DEF WindowLimit, LeastOf

(* A chunk holds the window's own pages; the lookahead page stays.         *)
LEMMA YieldKeeps ==
  ASSUME StreamInv, Yield
  PROVE  /\ StreamInv'
         /\ Owned \in Nat \ {0} /\ firstPage + Owned <= source
         /\ delivered' = delivered \o Run(firstPage, Owned)
<1>1. /\ pc = "native" /\ win.decoding = FALSE /\ ret.status = "ok" /\ pc' = "yielded"
      /\ total' = total + ret.count /\ firstPage' = firstPage + Owned
      /\ delivered' = delivered \o SubSeq(pages, 1, Owned)
      /\ pages' = IF Lookahead = 1 THEN <<pages[Len(pages)]>> ELSE <<>>
      /\ UNCHANGED <<limits, active, doc, win, ret, opts, source, read, exhausted, outcome,
                     apiActive, ffiActive>>
  BY DEF Yield, FirstPageAfter, PagesAfter, nativeVars, flagVars, StreamInv, SessionInv, TypeOK
<1>2. /\ SessionInv /\ StreamTypes /\ Buffered /\ opts.window >= 1
      /\ firstPage < read /\ ~WantsPage
      /\ active = TRUE /\ doc.cap = opts.cap /\ doc.pending = FALSE
      /\ doc.next = firstPage + Owned
      /\ doc.finished = TRUE <=> Lookahead = 0
      /\ Lookahead = 1 => doc.prefix # 0
      /\ ret.count <= WindowLimit
  BY <1>1 DEF StreamInv, Serving, OptionsValid, InCall
<1>3. /\ Len(pages) = read - firstPage /\ Owned \in Nat \ {0} /\ Owned <= opts.window
      /\ Lookahead \in {0, 1} /\ Owned + Lookahead = read - firstPage
      /\ Lookahead = 0 => read = source
  BY <1>1, <1>2, StreamWindowShape
<1>4. /\ firstPage \in Nat /\ read \in Nat /\ source \in Nat /\ opts.window \in Nat
      /\ read <= source /\ read - firstPage \in Nat \ {0}
      /\ pages = Run(firstPage, read - firstPage) /\ delivered = Run(0, firstPage)
  BY <1>1, <1>2 DEF StreamTypes, Buffered
<1>5. SessionInv'
  BY <1>1, <1>2, SessionStutters DEF nativeVars
<1>6. SubSeq(pages, 1, Owned) = Run(firstPage, Owned)
  <2>1. Owned \in 0..(read - firstPage)
    BY <1>3, <1>4
  <2>2. SubSeq(Run(firstPage, read - firstPage), 1, Owned) = Run(firstPage, Owned)
    BY <1>4, <2>1, RunPrefix
  <2> QED
    BY <1>4, <2>2
<1>7. delivered' = Run(0, firstPage')
  BY <1>1, <1>3, <1>4, <1>6, RunsJoin
<1>8. firstPage' \in Nat \ {0} /\ firstPage' + Lookahead = read
  BY <1>1, <1>3, <1>4
<1>9. \/ Lookahead = 0 /\ read = firstPage'
      \/ Lookahead = 1 /\ read # firstPage' /\ firstPage' < read
  <2>1. CASE Lookahead = 0
    BY <1>8, <2>1
  <2>2. CASE Lookahead = 1
    <3>1. firstPage' + 1 = read
      BY <1>8, <2>2
    <3>2. read # firstPage' /\ firstPage' < read
      BY <1>8, <3>1
    <3> QED
      BY <2>2, <3>2
  <2> QED
    BY <1>3, <2>1, <2>2
<1>10. pages' = Run(firstPage', read' - firstPage')
  <2>1. CASE Lookahead = 1
    <3>1. Run(firstPage, read - firstPage)[read - firstPage] = firstPage + (read - firstPage) - 1
      BY <1>4, RunStarts
    <3>2. firstPage + (read - firstPage) - 1 = firstPage' /\ read' - firstPage' = 1
      BY <1>1, <1>4, <1>8, <2>1
    <3>3. pages' = <<firstPage'>>
      BY <1>1, <1>3, <1>4, <2>1, <3>1, <3>2
    <3> QED
      BY <1>8, <3>2, <3>3, RunOfOne
  <2>2. CASE Lookahead = 0
    <3>1. pages' = <<>> /\ read' - firstPage' = 0
      BY <1>1, <1>4, <1>8, <2>2
    <3> QED
      BY <1>8, <3>1, RunOfNone
  <2> QED
    BY <1>3, <2>1, <2>2
<1>11. ret.count \in Nat
  BY <1>2 DEF SessionInv, TypeOK
<1>12. StreamTypes'
  <2>1. total' \in Nat
    BY <1>1, <1>2, <1>11 DEF StreamTypes
  <2> QED
    BY <1>1, <1>2, <1>8, <2>1 DEF StreamTypes
<1>13. Buffered'
  <2>1. firstPage' <= read' /\ read' <= source' /\ read' <= firstPage' + opts'.window + 1
    BY <1>1, <1>3, <1>4, <1>8
  <2> QED
    BY <1>1, <1>2, <1>7, <1>10, <2>1 DEF Buffered
<1>14. Serving' /\ Budgeted'
  <2>1. opts.maxOut # NoLimit => total' <= opts.maxOut
    BY <1>1, <1>2, <1>11, LimitFits DEF StreamTypes
  <2> QED
    BY <1>1, <2>1 DEF StreamInv, Serving, Budgeted
<1>15. Flags' /\ InCall'
  BY <1>1, <1>2 DEF StreamInv, Flags, InCall
<1>16. Between'
  <2>1. doc.finished = TRUE <=> read = firstPage'
    BY <1>2, <1>9
  <2>2. doc.finished \in BOOLEAN
    BY <1>2 DEF SessionInv, TypeOK
  <2>3. doc.finished = FALSE => doc.prefix # 0 /\ firstPage' < read
    BY <1>2, <1>9
  <2>4. read = firstPage' => read = source
    BY <1>3, <1>9
  <2> QED
    BY <1>1, <1>2, <1>8, <2>1, <2>2, <2>3, <2>4 DEF Between
<1>17. StreamInv'
  BY <1>5, <1>12, <1>13, <1>14, <1>15, <1>16 DEF StreamInv
<1>18. firstPage + Owned <= source
  BY <1>3, <1>4
<1> QED
  BY <1>1, <1>3, <1>6, <1>17, <1>18

(* The consumer asks for the next chunk.                                   *)
LEMMA ResumeKeeps ==
  ASSUME StreamInv, Resume
  PROVE  StreamInv'
<1>1. CASE EndStream("complete")
  BY <1>1, EndKeeps
<1>2. CASE /\ pc = "yielded" /\ pages # <<>> /\ pc' = "top"
           /\ UNCHANGED <<nativeVars, opts, source, read, loopVars, delivered, outcome, flagVars>>
  <2>1. SessionInv'
    BY <1>2, SessionStutters DEF StreamInv
  <2>2. UNCHANGED <<limits, active, doc, win, ret, opts, source, read, exhausted, pages,
                    firstPage, total, delivered, outcome, apiActive, ffiActive>>
    BY <1>2 DEF nativeVars, loopVars, flagVars
  <2>3. read # firstPage
    <3>1. firstPage \in Nat /\ pages = Run(firstPage, read - firstPage)
      BY <1>2 DEF StreamInv, StreamTypes, Buffered
    <3> QED
      BY <1>2, <3>1, RunOfNone DEF StreamInv, StreamTypes
  <2>4. doc.finished = FALSE
    BY <1>2, <2>3 DEF StreamInv, Between, SessionInv, TypeOK
  <2>5. StreamTypes' /\ Buffered' /\ Serving' /\ Budgeted'
    BY <1>2, <2>2 DEF StreamInv, StreamTypes, Buffered, Serving, Budgeted, BudgetLeft
  <2>6. Flags' /\ Between' /\ InCall'
    BY <1>2, <2>2, <2>4 DEF StreamInv, Flags, Between, InCall
  <2> QED
    BY <2>1, <2>5, <2>6 DEF StreamInv
<1> QED
  BY <1>1, <1>2 DEF Resume

-----------------------------------------------------------------------------
(* No stream runs at the start.                                            *)
LEMMA StreamStarts == Init => StreamInv
<1> SUFFICES ASSUME Init PROVE StreamInv
  OBVIOUS
<1>1. FirstEngine \in Limits
  BY StreamInputs DEF Limits
<1>2. SessionInv
  <2>1. TypeOK
    BY <1>1 DEF Init, TypeOK, NoDocument, NoWindow, Returned, Guards, Limits
  <2>2. /\ doc.open = FALSE /\ doc.prefix = 0 /\ doc.text = 0
        /\ active = FALSE /\ win.decoding = FALSE /\ ret.op = "none"
    BY DEF Init, NoDocument, NoWindow, Returned
  <2>3. DocInv /\ RetainedFits
    BY <2>2, Positive DEF DocInv, RetainedFits
  <2> QED
    BY <2>1, <2>2, <2>3
       DEF SessionInv, FailureEndsSession, NoInternalFailure, WindowWithinAdmission
<1>3. Buffered
  BY RunOfNone DEF Init, Buffered
<1>4. StreamTypes /\ Serving /\ Budgeted
  <2>1. opts \in [window : Nat, cap : Nat, maxOut : Nat] /\ opts.maxOut = NoLimit
    BY DEF Init, NoLimit
  <2> QED
    BY <2>1 DEF Init, StreamTypes, Serving, Budgeted
<1>5. Flags /\ Between /\ InCall
  BY DEF Init, Flags, Between, InCall, NoWindow
<1> QED
  BY <1>2, <1>3, <1>4, <1>5 DEF StreamInv

(* The steps that end a stream, besides an exhausted budget and the last   *)
(* chunk.                                                                  *)
StreamEnds == SourceFails \/ NoPages \/ WindowRaises \/ CloseStream

(* Every step keeps the invariant.                                         *)
LEMMA StreamStep == StreamInv /\ [Next]_vars => StreamInv'
<1> SUFFICES ASSUME StreamInv, [Next]_vars PROVE StreamInv'
  OBVIOUS
<1>1. CASE UNCHANGED vars
  <2>1. UNCHANGED <<nativeVars, pc, opts, source, read, exhausted, pages, firstPage, total,
                    delivered, outcome, apiActive, ffiActive>>
    BY <1>1 DEF vars, streamVars, loopVars, flagVars
  <2>2. SessionInv'
    BY <2>1, SessionStutters DEF StreamInv
  <2>3. StreamTypes' /\ Buffered' /\ Serving' /\ Budgeted'
    BY <2>1 DEF StreamInv, StreamTypes, Buffered, Serving, Budgeted, BudgetLeft, nativeVars
  <2>4. Flags' /\ Between' /\ InCall'
    BY <2>1 DEF StreamInv, Flags, Between, InCall, WantsPage, Owned, Lookahead, WindowLimit,
                nativeVars
  <2> QED
    BY <2>2, <2>3, <2>4 DEF StreamInv
<1>2. CASE StreamEnds
  BY <1>2, EndKeeps DEF StreamEnds, SourceFails, NoPages, WindowRaises, CloseStream
<1>3. CASE OpenDocument \/ LoopTop \/ PullPage \/ CallWindow
  BY <1>3, OpenKeeps, LoopKeeps, PullKeeps, CallKeeps
<1>4. CASE NativeStep \/ NativeFault \/ Yield \/ Resume
  BY <1>4, NativeKeeps, YieldKeeps, ResumeKeeps
<1>5. CASE Close \/ \E need \in SingleRequests : Generate(need)
  BY <1>5, OtherCallsKeep
<1>6. CASE \E o \in Options, n \in 0..MaxSource : StreamPages(o, n)
  BY <1>6, StreamOpens
<1> QED
  BY <1>1, <1>2, <1>3, <1>4, <1>5, <1>6 DEF Next, GeneratorStep, CallerStep, StreamEnds

(* Every reachable state of the stream satisfies the invariant.            *)
THEOREM StreamInvariant == Spec => []StreamInv
BY StreamStarts, StreamStep, PTL DEF Spec

-----------------------------------------------------------------------------
(* As many pages were delivered as the next window's number says.          *)
LEMMA DeliveredCount ==
  ASSUME StreamInv
  PROVE  Len(delivered) = firstPage
BY RunIsSequence DEF StreamInv, StreamTypes, Buffered

(* The buffer holds the pages read but not delivered, in order.            *)
LEMMA BufferedInOrder ==
  ASSUME StreamInv, pc # "idle"
  PROVE  /\ (pages = <<>>) <=> (read = firstPage)
         /\ pages # <<>> => pages[1] = firstPage
<1>1. /\ firstPage \in Nat /\ read \in Nat /\ read - firstPage \in Nat
      /\ pages = Run(firstPage, read - firstPage)
  BY DEF StreamInv, StreamTypes, Buffered
<1>2. CASE read = firstPage
  <2>1. Run(firstPage, read - firstPage) = <<>>
    BY <1>1, <1>2, RunOfNone
  <2> QED
    BY <1>1, <1>2, <2>1
<1>3. CASE read # firstPage
  <2>1. read - firstPage \in Nat \ {0}
    BY <1>1, <1>3
  <2>2. Len(Run(firstPage, read - firstPage)) = read - firstPage
    BY <1>1, RunIsSequence
  <2>3. Run(firstPage, read - firstPage) # <<>>
    BY <2>1, <2>2
  <2>4. Run(firstPage, read - firstPage)[1] = firstPage
    BY <1>1, <2>1, RunStarts
  <2> QED
    BY <1>1, <1>3, <2>3, <2>4
<1> QED
  BY <1>2, <1>3

(* The stream's state keeps its types.                                     *)
THEOREM StreamTypesHold == Spec => []StreamTypeOK
<1>1. StreamInv => StreamTypeOK
  <2> SUFFICES ASSUME StreamInv PROVE StreamTypeOK
    OBVIOUS
  <2>1. TypeOK /\ StreamTypes /\ Buffered
    BY DEF StreamInv, SessionInv
  <2>2. delivered \in Seq(Nat)
    BY <2>1, RunIsSequence DEF StreamTypes, Buffered
  <2>3. pages \in Seq(Nat)
    <3>1. read - firstPage \in Nat /\ firstPage \in Nat
      BY <2>1 DEF StreamTypes, Buffered
    <3>2. Run(firstPage, read - firstPage) \in Seq(Nat)
      BY <3>1, RunIsSequence
    <3> QED
      BY <2>1, <3>2 DEF Buffered
  <2> QED
    BY <2>1, <2>2, <2>3 DEF StreamTypeOK, StreamTypes
<1> QED
  BY <1>1, StreamInvariant, PTL

(* The generator's flags and the native session are at the same place      *)
(* whenever the consumer or the page iterator runs, in every window of     *)
(* every stream.                                                           *)
THEOREM SidesAgree == Spec => []StreamAndSessionAgree
<1>1. StreamInv => FlagsNested
  BY DEF StreamInv, Flags, FlagsNested, SessionInv, FailureEndsSession, StreamTypes
<1>2. StreamInv => SessionAgrees
  <2> SUFFICES ASSUME StreamInv, pc \in {"top", "pull", "yielded"}
               PROVE  /\ doc.open /\ ~doc.pending /\ doc.cap = opts.cap
                      /\ doc.next = firstPage /\ firstPage = Len(delivered)
                      /\ doc.prefix # 0 /\ ~doc.finished => pages # <<>>
                      /\ pages # <<>> => pages[1] = firstPage
                      /\ pc \in {"top", "yielded"} /\ firstPage # 0 =>
                           (pages = <<>> <=> doc.finished)
    BY DEF SessionAgrees
  <2>1. /\ active = TRUE /\ active = doc.open /\ doc.finished \in BOOLEAN
        /\ firstPage \in Nat /\ read \in Nat
    BY DEF StreamInv, Flags, SessionInv, FailureEndsSession, TypeOK, StreamTypes
  <2>2. /\ doc.cap = opts.cap /\ doc.pending = FALSE /\ doc.next = firstPage
        /\ pc # "yielded" => doc.finished = FALSE
        /\ pc = "yielded" => (doc.finished = TRUE <=> read = firstPage)
        /\ firstPage = 0 => doc.prefix = 0 /\ pc # "yielded"
        /\ firstPage # 0 /\ doc.finished = FALSE => doc.prefix # 0 /\ firstPage < read
    BY DEF StreamInv, Between
  <2>3. /\ Len(delivered) = firstPage
        /\ pages = <<>> <=> read = firstPage
        /\ pages # <<>> => pages[1] = firstPage
    <3>1. pc # "idle"
      OBVIOUS
    <3> QED
      BY <3>1, DeliveredCount, BufferedInOrder
  <2>4. firstPage < read => read # firstPage
    BY <2>1
  <2>5. doc.prefix # 0 /\ ~doc.finished => pages # <<>>
    BY <2>1, <2>2, <2>3, <2>4
  <2>6. pc \in {"top", "yielded"} /\ firstPage # 0 => (pages = <<>> <=> doc.finished)
    BY <2>1, <2>2, <2>3, <2>4
  <2> QED
    BY <2>1, <2>2, <2>3, <2>5, <2>6
<1> QED
  BY <1>1, <1>2, StreamInvariant, PTL DEF StreamAndSessionAgree

(* What stream_pages computes once bounds the whole stream: no window is   *)
(* refused by the native side, no more pages are read ahead and no more    *)
(* tokens emitted than was asked for.                                      *)
THEOREM BoundsHold == Spec => []WithinBounds
<1>1. StreamInv => WindowsAdmitted
  BY DEF StreamInv, InCall, WindowsAdmitted
<1>2. StreamInv => ReadAhead
  BY DeliveredCount DEF StreamInv, Buffered, ReadAhead
<1>3. StreamInv => TotalWithinBudget
  <2> SUFFICES ASSUME StreamInv, opts.maxOut # NoLimit
               PROVE  /\ total <= opts.maxOut
                      /\ win.decoding => total + win.count <= opts.maxOut
    BY DEF TotalWithinBudget
  <2>1. total <= opts.maxOut
    BY DEF StreamInv, Budgeted
  <2>2. ASSUME win.decoding PROVE total + win.count <= opts.maxOut
    <3>1. pc = "native"
      BY <2>2 DEF StreamInv, Flags
    <3>2. win.count <= WindowLimit /\ win.count \in Nat
      BY <2>2, <3>1 DEF StreamInv, InCall, SessionInv, ProgressInv, TypeOK
    <3>3. WindowLimit \in Nat /\ total + WindowLimit <= opts.maxOut
      BY <3>1, LimitFits
    <3>4. total \in Nat /\ opts.maxOut \in Nat
      BY DEF StreamInv, StreamTypes
    <3> QED
      BY <3>2, <3>3, <3>4
  <2> QED
    BY <2>1, <2>2
<1> QED
  BY <1>1, <1>2, <1>3, StreamInvariant, PTL DEF WithinBounds

-----------------------------------------------------------------------------
(* The refinement: a chunk is a delivery, a stream that returns has        *)
(* delivered its source, and any other end is an abort.                    *)
LEMMA ChunkDelivers ==
  ASSUME StreamInv, Yield
  PROVE  \E k \in 1..MaxPositions : Delivery!Deliver(k)
<1>1. /\ Owned \in Nat \ {0} /\ firstPage + Owned <= source
      /\ delivered' = delivered \o Run(firstPage, Owned)
  BY YieldKeeps
<1>2. pc = "native" /\ outcome = "running" /\ UNCHANGED <<source, outcome>>
  BY DEF Yield, StreamInv, Flags
<1>3. Len(delivered) = firstPage
  BY DeliveredCount
<1>4. Owned <= MaxPositions
  <2>1. /\ opts.window \in Nat /\ OptionsValid(opts) /\ Owned <= opts.window /\ opts.cap \in Nat
        /\ opts.maxOut \in Nat
    BY <1>2, StreamWindowShape DEF StreamInv, StreamTypes, Serving, InCall, OptionsValid
  <2>2. 1 * PageRows <= PageRows /\ Instruction \in Nat
    BY Positive, StreamInputs
  <2>3. (opts.window + 1) * 1 <= (opts.window + 1) * PageRows
    BY <2>1, Positive
  <2>4. OutputCapacity(opts) \in Nat
    <3>1. opts.window * opts.cap \in Nat
      BY <2>1, Monotone
    <3> QED
      BY <2>1, <3>1, Positive DEF OutputCapacity, LeastOf
  <2>5. (opts.window + 1) * PageRows <= MaxPositions
    <3>1. (opts.window + 1) * PageRows \in Nat
      BY <2>1, Positive, Monotone
    <3> QED
      BY <2>1, <2>2, <2>4, <3>1, Positive DEF OptionsValid, PromptCapacity
  <2>6. (opts.window + 1) * PageRows \in Nat
    BY <2>1, Positive, Monotone
  <2> QED
    BY <1>1, <2>1, <2>3, <2>5, <2>6, Positive
<1>5. Run(firstPage, Owned) = [i \in 1..Owned |-> Len(delivered) + i - 1]
  BY <1>3 DEF Run
<1>6. Owned \in 1..MaxPositions
  BY <1>1, <1>4, Positive
<1>7. Delivery!Deliver(Owned)
  BY <1>1, <1>2, <1>3, <1>5 DEF Delivery!Deliver
<1> QED
  BY <1>6, <1>7

(* A stream ends complete only with its whole source delivered.            *)
LEMMA CompleteIsWhole ==
  ASSUME StreamInv, NoPages \/ (Resume /\ pages = <<>>)
  PROVE  Len(delivered) = source
<1>1. /\ Len(delivered) = firstPage /\ pc \in {"pull", "yielded"} /\ pages = <<>>
      /\ read = firstPage
  <2>1. pc \in {"pull", "yielded"} /\ pages = <<>>
    BY DEF NoPages, Resume
  <2>2. pc # "idle"
    BY <2>1
  <2> QED
    BY <2>1, <2>2, DeliveredCount, BufferedInOrder
<1>2. CASE pc = "yielded"
  BY <1>1, <1>2 DEF StreamInv, Between
<1>3. CASE pc = "pull"
  <2>1. ~WantsPage /\ opts.window >= 1 /\ opts.window \in Nat
    BY <1>3 DEF NoPages, Resume, StreamInv, Serving, OptionsValid, StreamTypes
  <2>2. Len(pages) = 0
    BY <1>1
  <2>3. Len(pages) < opts.window + 1
    BY <2>1, <2>2
  <2>4. exhausted
    BY <2>1, <2>3 DEF WantsPage
  <2> QED
    BY <1>1, <2>4 DEF StreamInv, Buffered, StreamTypes
<1> QED
  BY <1>1, <1>2, <1>3

(* Every step of the stream is a step of what it promises, or none.        *)
LEMMA DeliveryStep ==
  StreamInv /\ [Next]_vars => [Delivery!DeliveryNext]_Delivery!deliveryVars
<1> SUFFICES ASSUME StreamInv, [Next]_vars
             PROVE  Delivery!DeliveryNext \/ UNCHANGED <<source, delivered, outcome>>
  BY DEF Delivery!deliveryVars
<1>1. CASE UNCHANGED vars
  BY <1>1 DEF vars, streamVars
<1>2. ASSUME EndStream("incomplete"), pc # "idle" PROVE Delivery!Abort
  BY <1>2 DEF EndStream, Delivery!Abort, StreamInv, Flags
<1>3. CASE SourceFails \/ WindowRaises \/ CloseStream
  BY <1>2, <1>3 DEF SourceFails, WindowRaises, CloseStream, Delivery!DeliveryNext
<1>4. CASE NoPages
  <2>1. Len(delivered) = source /\ pc = "pull" /\ EndStream("complete")
    BY <1>4, CompleteIsWhole DEF NoPages
  <2> QED
    BY <2>1 DEF EndStream, Delivery!Finish, Delivery!DeliveryNext, StreamInv, Flags
<1>5. CASE Resume
  <2>1. CASE pages # <<>>
    BY <1>5, <2>1 DEF Resume
  <2>2. CASE pages = <<>>
    <3>1. Len(delivered) = source /\ pc = "yielded" /\ EndStream("complete")
      BY <1>5, <2>2, CompleteIsWhole DEF Resume
    <3> QED
      BY <3>1 DEF EndStream, Delivery!Finish, Delivery!DeliveryNext, StreamInv, Flags
  <2> QED
    BY <2>1, <2>2
<1>6. CASE OpenDocument
  <2>1. /\ pc = "opening" /\ outcome = "running" /\ UNCHANGED <<source, delivered>>
        /\ outcome' \in {"running", "incomplete"}
    BY <1>6 DEF OpenDocument, StreamInv, Flags
  <2> QED
    BY <2>1 DEF Delivery!Abort, Delivery!DeliveryNext
<1>7. CASE LoopTop
  BY <1>2, <1>7 DEF LoopTop, Delivery!DeliveryNext
<1>8. CASE PullPage \/ CallWindow \/ NativeStep \/ NativeFault
  BY <1>8 DEF PullPage, CallWindow, NativeStep, NativeFault, streamVars
<1>9. CASE Yield
  BY <1>9, ChunkDelivers DEF Delivery!DeliveryNext
<1>10. CASE Close \/ \E need \in SingleRequests : Generate(need)
  BY <1>10 DEF Close, Generate
<1>11. CASE \E o \in Options, n \in 0..MaxSource : StreamPages(o, n)
  <2>1. PICK o \in Options, n \in 0..MaxSource : StreamPages(o, n)
    BY <1>11
  <2>2. pc = "idle"
    BY <2>1, CallerIsIdle DEF StreamPages
  <2>3. outcome # "running"
    BY <2>2 DEF StreamInv, Flags
  <2>4. source' \in Nat /\ delivered' = <<>> /\ outcome' \in {"running", "incomplete"}
    BY <2>1, StreamInputs DEF StreamPages
  <2> QED
    BY <2>3, <2>4 DEF Delivery!Start, Delivery!DeliveryNext
<1> QED
  BY <1>1, <1>3, <1>4, <1>5, <1>6, <1>7, <1>8, <1>9, <1>10, <1>11
     DEF Next, GeneratorStep, CallerStep

(* Whatever the model writes, the consumer does and the native side fails  *)
(* with: pages are delivered in order, each once, and a stream reports     *)
(* completion only when it delivered them all.                             *)
THEOREM ImplementsDelivery == Spec => DeliversInOrder
<1>1. Init => Delivery!DeliveryInit
  BY DEF Init, Delivery!DeliveryInit
<1>2. StreamInv /\ [Next]_vars => [Delivery!DeliveryNext]_Delivery!deliveryVars
  BY DeliveryStep
<1> QED
  BY <1>1, <1>2, StreamInvariant, PTL DEF Spec, DeliversInOrder, Delivery!DeliverySpec
=============================================================================
